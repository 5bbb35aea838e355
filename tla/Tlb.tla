-------------------------------- MODULE Tlb --------------------------------
(***************************************************************************)
(* The MMU of one simulated e500v2 core: the two TLB arrays and the LRU    *)
(* translation cache in front of them (tlb_booke.cpp), driven the way the  *)
(* core drives them: cpu::xlate tries PID0, PID1 and PID2 in turn          *)
(* (cpu_ppc.cpp), tlbwe and tlbivax come from guest instructions.          *)
(*                                                                         *)
(* Scaling. Addresses are naturals in an arbitrary unit. MinPg is the 4K   *)
(* page in that unit, PageSize the table of tsize_to_psize, in which a     *)
(* TSIZE whose 32-bit product wraps is 0, and Masks the page sizes of      *)
(* sm_pgmask_list. The loop of xlate is bounded by sizeof(sm_pgmask_list), *)
(* 88 bytes, not 11 elements: Behind are the words it reads behind the     *)
(* list, arbitrary bit patterns, given by what each keeps of an address.   *)
(* Of WIMGE only E, the bit the core uses, is kept. epn, rpn, X01 and U03  *)
(* are written and printed, never used to translate, and left out.         *)
(*                                                                         *)
(* get_entry selects the set by EA & (assoc - 1), here GetEntry, although  *)
(* the comment above it has the EPN select among all sets: the sets of     *)
(* tlb4K above the first "assoc" are never written. No property is about   *)
(* it.                                                                     *)
(***************************************************************************)
EXTENDS Integers, LruCache

CONSTANTS
    NSets,      \* sets of tlb4K, CPU_TLB4K_N_SETS
    NWays,      \* ways of tlb4K, CPU_TLB4K_N_WAYS, its "assoc"
    NCam,       \* entries of tlbCam, CPU_TLBCAM_N_ENTRIES
    Capacity,   \* records of m_tlb_cache, 128 in the constructor
    MinPg,      \* the 4K page
    Tsizes,     \* the values of MAS1[TSIZE] a guest uses
    PageSize,   \* tsize_to_psize on Tsizes
    Masks,      \* page sizes of sm_pgmask_list, in order
    Behind,     \* address -> what is left of it, for each word tried after them
    Addrs,      \* effective addresses a guest uses
    Pids,       \* values of PID0, PID1 and PID2
    PidRegs,    \* the contents of <<PID0, PID1, PID2>> a guest sets up
    BootAddr,   \* 0xfffff000
    MasValues,  \* the operands of tlbwe, read from MAS0 to MAS3 and MAS7
    Garbage     \* what the uninitialised fields of an entry may hold

Perms  == BOOLEAN \X {"r", "w", "x"}    \* <<user?, access>>, the six permis bits
Spaces == {0, 1}                        \* MSR[DS], TS, SAS

Entry == [valid : BOOLEAN, iprot : BOOLEAN, tid : Pids, ts : Spaces, ea : Nat,
          ra : Nat, ps : Nat, permis : SUBSET Perms, le : BOOLEAN]

MasOperand == [tlbsel : {0, 1}, esel : Nat, valid : BOOLEAN, iprot : BOOLEAN,
               tid : Pids, ts : Spaces, tsize : Tsizes, epn : Nat, rpn : Nat,
               permis : SUBSET Perms, le : BOOLEAN]

ASSUME ArrayAssumption == /\ NSets \in Nat \ {0}
                          /\ NWays \in Nat \ {0}
                          /\ NCam \in Nat \ {0}
                          /\ Capacity \in Nat \ {0}
                          /\ MinPg \in Nat \ {0}

ASSUME TableAssumption == /\ 1 \in Tsizes
                          /\ PageSize \in [Tsizes -> Nat]
                          /\ PageSize[1] = MinPg
                          /\ Masks \in Seq(Nat \ {0})
                          /\ Behind \in Seq([Addrs -> Nat])

ASSUME InputAssumption == /\ Addrs \subseteq Nat
                          /\ 0 \in Pids
                          /\ PidRegs \subseteq [0..2 -> Pids]
                          /\ BootAddr \in Nat
                          /\ MasValues \subseteq MasOperand
                          /\ Garbage \subseteq {e \in Entry : ~e.valid}

VARIABLES
    tlb,    \* both arrays, a function of the slot
    cache,  \* m_tlb_cache
    stuck   \* tlbwe is in the endless loop of rshift(0)

vars == <<tlb, cache, stuck>>

----------------------------------------------------------------------------
(* Slots and the order in which every search visits them. *)

Slots4K  == {0} \X (0..(NSets - 1)) \X (0..(NWays - 1))
SlotsCam == {1} \X {0} \X (0..(NCam - 1))
Slots    == Slots4K \cup SlotsCam

Before(s, t) == \/ s[1] < t[1]
                \/ s[1] = t[1] /\ s[2] < t[2]
                \/ s[1] = t[1] /\ s[2] = t[2] /\ s[3] < t[3]

IsFirst(s, S) == s \in S /\ \A t \in S : t = s \/ Before(s, t)

\* get_entry: the set is EA & (assoc - 1) of the page number, so that only the
\* first "assoc" sets of tlb4K are ever selected.
GetEntry(tlbno, ea, esel) ==
    <<tlbno, IF tlbno = 0 THEN (ea \div MinPg) % NWays ELSE 0, esel>>

----------------------------------------------------------------------------
(* Translation. *)

\* ea & ~(ps - 1); a garbage page size of 0 masks everything away.
PageBase(ea, ps) == IF ps = 0 THEN 0 ELSE ea - (ea % ps)

\* rwx << (pr * 3)
Need(pr, rwx) == {pr} \X rwx

\* The accesses of cpu::xlate: a load, a store, and a fetch, which asks for
\* read and execute.
Rwx == {{"r"}, {"w"}, {"r", "x"}}

Request == [ea : Addrs, pr : BOOLEAN, as : Spaces, rwx : Rwx, pids : PidRegs]

\* Mutant: the key forgets the access it was checked for.
ToVirtNoAccess(q, pid, page) ==
    [pr |-> q.pr, rwx |-> {"r"}, as |-> q.as, pid |-> pid, page |-> page]

\* Mutant: the last two arguments are swapped in the key.
ToVirtSwapped(q, pid, page) ==
    [pr |-> q.pr, rwx |-> q.rwx, as |-> q.as, pid |-> page, page |-> pid]

\* to_virt: no page size is part of the key.
ToVirt(q, pid, page) ==
    [pr |-> q.pr, rwx |-> q.rwx, as |-> q.as, pid |-> pid, page |-> page]

Tried == 1..(Len(Masks) + Len(Behind))

\* ea & sm_pgmask_list[indx]
Kept(ea, m) == IF m <= Len(Masks) THEN PageBase(ea, Masks[m]) ELSE Behind[m - Len(Masks)][ea]

KeyAt(q, pid, m) == ToVirt(q, pid, Kept(q.ea, m))

\* The first mask under which the cache knows the address, in the order of the list.
FastHit(q, pid, m) ==
    /\ KeyAt(q, pid, m) \in LruKeys(cache)
    /\ \A l \in 1..(m - 1) : KeyAt(q, pid, l) \notin LruKeys(cache)

FastMiss(q, pid) == \A m \in Tried : KeyAt(q, pid, m) \notin LruKeys(cache)

\* FIND_TLB_MATCH up to the permission test.
Matches(q, pid) ==
    {s \in Slots : /\ tlb[s].valid
                   /\ tlb[s].ea = PageBase(q.ea, tlb[s].ps)
                   /\ tlb[s].tid = pid
                   /\ tlb[s].ts = q.as}

Misses(q, pid) == FastMiss(q, pid) /\ Matches(q, pid) = {}

\* cpu::xlate has come to the i-th PID register: the others returned -1.
Reaches(q, i) == \A j \in 0..(i - 1) : Misses(q, q.pids[j])

\* What the fast path returns for the record c under mask m.
FastRa(q, c, m) == c.val + (q.ea - Kept(q.ea, m))

----------------------------------------------------------------------------
(* Actions. *)

BootEntry == [valid |-> TRUE, iprot |-> TRUE, tid |-> 0, ts |-> 0,
              ea |-> BootAddr, ra |-> BootAddr, ps |-> MinPg,
              permis |-> {FALSE} \X {"r", "w", "x"}, le |-> FALSE]

Init == /\ tlb \in [Slots -> Garbage \cup {BootEntry}
                                     \cup {[g EXCEPT !.ps = MinPg] : g \in Garbage}]
        /\ \A s \in Slots4K : tlb[s].ps = MinPg /\ ~tlb[s].valid
        /\ \A s \in SlotsCam : IF s[3] = 0 THEN tlb[s] = BootEntry ELSE tlb[s] \in Garbage
        /\ cache = <<>>
        /\ stuck = FALSE

\* xlate, first loop: the cached record answers and becomes the most recent.
XlateFast(q, i) ==
    /\ ~stuck
    /\ Reaches(q, i)
    /\ \E m \in Tried :
          /\ FastHit(q, q.pids[i], m)
          /\ \E k \in DOMAIN cache :
                /\ cache[k].key = KeyAt(q, q.pids[i], m)
                /\ cache' = LruTouchAt(cache, k)
    /\ UNCHANGED <<tlb, stuck>>

\* xlate, second part: the first match permits the access and is cached.
XlateSlow(q, i) ==
    /\ ~stuck
    /\ Reaches(q, i)
    /\ FastMiss(q, q.pids[i])
    /\ \E s \in Slots :
          /\ IsFirst(s, Matches(q, q.pids[i]))
          /\ Need(q.pr, q.rwx) \subseteq tlb[s].permis
          /\ cache' = LruInsert(cache,
                          [key  |-> ToVirt(q, q.pids[i], PageBase(q.ea, tlb[s].ps)),
                           val  |-> tlb[s].ra,
                           info |-> tlb[s].le], Capacity)
    /\ UNCHANGED <<tlb, stuck>>

\* The first match forbids the access: ISI or DSI, whatever the next PIDs hold.
XlateDenied(q, i) ==
    /\ ~stuck
    /\ Reaches(q, i)
    /\ FastMiss(q, q.pids[i])
    /\ \E s \in Slots : /\ IsFirst(s, Matches(q, q.pids[i]))
                        /\ ~(Need(q.pr, q.rwx) \subseteq tlb[s].permis)
    /\ UNCHANGED vars

\* No PID register gives a hit: ITLB or DTLB miss.
XlateMiss(q) ==
    /\ ~stuck
    /\ Reaches(q, 3)
    /\ UNCHANGED vars

\* The fields tlbwe has written when it comes to rshift(psize), and all of them.
HeadWritten(e, mas) ==
    [e EXCEPT !.valid = mas.valid, !.iprot = mas.iprot, !.tid = mas.tid,
              !.ts = mas.ts, !.ea = mas.epn * MinPg]

Written(e, mas) ==
    [HeadWritten(e, mas) EXCEPT !.le = mas.le, !.ra = mas.rpn * MinPg,
                                !.permis = mas.permis, !.ps = PageSize[mas.tsize]]

MasSlot(mas) == GetEntry(mas.tlbsel, mas.epn * MinPg, mas.esel)

\* Mutant: tlbwe forgets to flush m_tlb_cache.
TlbweNoFlush(mas) ==
    /\ ~stuck
    /\ MasSlot(mas) \in Slots
    /\ PageSize[mas.tsize] # 0
    /\ tlb' = [tlb EXCEPT ![MasSlot(mas)] = Written(@, mas)]
    /\ UNCHANGED <<cache, stuck>>

Tlbwe(mas) ==
    /\ ~stuck
    /\ MasSlot(mas) \in Slots
    /\ PageSize[mas.tsize] # 0
    /\ tlb' = [tlb EXCEPT ![MasSlot(mas)] = Written(@, mas)]
    /\ cache' = <<>>
    /\ UNCHANGED stuck

\* get_entry refuses the way or the set (sim_except) before anything is written.
TlbweRefused(mas) ==
    /\ ~stuck
    /\ MasSlot(mas) \notin Slots
    /\ UNCHANGED vars

\* A page size that wrapped to 0: rshift shifts 0 until a bit is set.
TlbweHangs(mas) ==
    /\ ~stuck
    /\ MasSlot(mas) \in Slots
    /\ PageSize[mas.tsize] = 0
    /\ tlb' = [tlb EXCEPT ![MasSlot(mas)] = HeadWritten(@, mas)]
    /\ stuck' = TRUE
    /\ UNCHANGED cache

Spin == stuck /\ UNCHANGED vars

Invalidate(e) == [e EXCEPT !.valid = FALSE]

\* Mutant: INV_ALL does not look at IPROT.
TlbivaxAllUnprotected(tlbsel) ==
    /\ ~stuck
    /\ tlb' = [s \in Slots |-> IF s[1] = tlbsel THEN Invalidate(tlb[s]) ELSE tlb[s]]
    /\ cache' = <<>>
    /\ UNCHANGED stuck

\* tlbivax with INV_ALL: every entry of tlb4K, the unprotected ones of tlbCam.
TlbivaxAll(tlbsel) ==
    /\ ~stuck
    /\ tlb' = [s \in Slots |->
                  IF s[1] = tlbsel /\ ~(tlbsel = 1 /\ tlb[s].iprot)
                    THEN Invalidate(tlb[s]) ELSE tlb[s]]
    /\ cache' = <<>>
    /\ UNCHANGED stuck

\* The entries the by-address form of tlbivax looks for: neither valid nor tid nor
\* ts is tested, and the array selector is not used.
IvaxMatches(ea) ==
    {s \in Slots : /\ tlb[s].ea = PageBase(ea, tlb[s].ps)
                   /\ s \in SlotsCam => ~tlb[s].iprot}

\* tlbivax by address: the first such entry, and no other, is invalidated.
TlbivaxEa(ea) ==
    /\ ~stuck
    /\ \/ /\ IvaxMatches(ea) = {}
          /\ UNCHANGED tlb
       \/ \E s \in Slots : /\ IsFirst(s, IvaxMatches(ea))
                           /\ tlb' = [tlb EXCEPT ![s] = Invalidate(@)]
    /\ cache' = <<>>
    /\ UNCHANGED stuck

Next == \/ \E q \in Request : \E i \in 0..2 :
              XlateFast(q, i) \/ XlateSlow(q, i) \/ XlateDenied(q, i)
        \/ \E q \in Request : XlateMiss(q)
        \/ \E mas \in MasValues : Tlbwe(mas) \/ TlbweRefused(mas) \/ TlbweHangs(mas)
        \/ \E tlbsel \in {0, 1} : TlbivaxAll(tlbsel)
        \/ \E ea \in Addrs : TlbivaxEa(ea)
        \/ Spin

Spec == Init /\ [][Next]_vars

----------------------------------------------------------------------------
(* Properties. *)

CacheKey    == [pr : BOOLEAN, rwx : Rwx, as : Spaces, pid : Pids, page : Nat]
CacheRecord == [key : CacheKey, val : Nat, info : BOOLEAN]

\* The variables have the types of the members of class tlb.
TypeOK == /\ tlb \in [Slots -> Entry]
          /\ cache \in Seq(CacheRecord)
          /\ stuck \in BOOLEAN

\* m_tlb_cache stays a map within its capacity: no key twice, whichever order of
\* lookups, inserts and evictions xlate went through.
CacheIsMap == /\ Len(cache) <= Capacity
              /\ \A j, k \in DOMAIN cache : cache[j].key = cache[k].key => j = k

\* The record c is what xlate caches for the entry e.
Backs(e, c) == /\ e.valid
               /\ e.ea = c.key.page
               /\ e.tid = c.key.pid
               /\ e.ts = c.key.as
               /\ Need(c.key.pr, c.key.rwx) \subseteq e.permis
               /\ e.ra = c.val
               /\ e.le = c.info

\* No stale translation: whatever tlbwe and tlbivax did since a record was cached,
\* an entry valid now maps the same page, for the same PID and space, to the same
\* real page, and permits the access the record was cached for.
CacheBacked == ~stuck => \A k \in DOMAIN cache : \E s \in Slots : Backs(tlb[s], cache[k])

\* A fast answer found under a listed mask no larger than the page of the entry behind it
\* is an answer the slow search could give: that entry matches the request, permits it and
\* maps it to the same real address. (A larger mask goes wrong, see XlateInPage; a word
\* behind the list may go wrong too, and nothing is said of it.)
FastTranslationRight ==
    ~stuck => \A q \in Request : \A pid \in Pids : \A m \in DOMAIN Masks : \A k \in DOMAIN cache :
        FastHit(q, pid, m) /\ cache[k].key = KeyAt(q, pid, m) =>
            \E s \in Slots :
                /\ Backs(tlb[s], cache[k])
                /\ Masks[m] <= tlb[s].ps =>
                      /\ s \in Matches(q, pid)
                      /\ Need(q.pr, q.rwx) \subseteq tlb[s].permis
                      /\ FastRa(q, cache[k], m) = tlb[s].ra + (q.ea - tlb[s].ea)

\* A translation never costs the cache its most recently used record, however full
\* it is (with room for two, at least).
RecentSurvives ==
    [][ Capacity > 1 /\ cache # <<>> /\ tlb' = tlb /\ cache' # <<>> =>
            Last(cache).key \in LruKeys(cache')]_vars

\* An invalidation, by address or of a whole array, leaves every protected entry of
\* tlbCam in force: the boot page stays mapped until a tlbwe takes its slot.
IprotSurvives ==
    [][ (\E n \in {0, 1} : TlbivaxAll(n)) \/ (\E ea \in Addrs : TlbivaxEa(ea)) =>
            \A s \in SlotsCam : tlb[s].iprot => tlb'[s] = tlb[s]]_vars

\* The header of xlate: it "will translate effective address to a corresponding real
\* address", so an address xlate finds in its cache lies in a page some entry maps.
XlateInPage ==
    ~stuck => \A q \in Request : \A i \in 0..2 : \A m \in Tried :
        Reaches(q, i) /\ FastHit(q, q.pids[i], m) => Matches(q, q.pids[i]) # {}

=============================================================================
