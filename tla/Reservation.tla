---------------------------- MODULE Reservation ----------------------------
(***************************************************************************)
(* lwarx and stwcx. on the cores of one machine (cpu_ppc_instr.cc) over    *)
(* set_resv, check_resv and clear_resv (cpu_ppc.cpp). Every core runs in a *)
(* thread of its own and sm_resv_map is shared: the comments ask for a     *)
(* mutex, the code takes none, so a step here is one access to the map.    *)
(*                                                                         *)
(* A pair of the map is two bytes, "first" and "second", read and written  *)
(* in that order. The tree of the std::map itself is taken as consistent:  *)
(* an insertion is one step. Both instructions use a size of 4, so         *)
(* m_resv_size never tells two reservations apart; an uninitialised one    *)
(* that differs is the case set = FALSE. Translation faults leave the      *)
(* instruction before it touches any of this, and are left out, as are     *)
(* plain loads and stores, which neither read nor write reservations.      *)
(***************************************************************************)
EXTENDS Naturals, FiniteSets

CONSTANTS
    NCpus,      \* N_CPUS
    Words,      \* physical addresses of the words the guests reserve
    Granules,   \* cache lines, m_cache_line_size bytes each
    GranuleOf,  \* the line of a word
    MaxUpdates  \* bound: a stwcx. begins only below this many updates of its word

ASSUME CpuAssumption == NCpus \in Nat \ {0}

ASSUME WordAssumption == /\ GranuleOf \in [Words -> Granules]
                         /\ MaxUpdates \in Nat

Cpus == 0..(NCpus - 1)

VARIABLES
    resv,     \* per core: m_resv_set and m_resv_addr
    map,      \* sm_resv_map: per line, present?, first and second
    pc,       \* per core: the next access of the instruction it executes
    ea,       \* per core: the word that instruction names
    loaded,   \* per core: the number of updates its last lwarx saw
    updates,  \* per word: the conditional stores it has taken
    eq,       \* per core: CR0[EQ], what the guest's branch after stwcx. tests
    hist,     \* per core: what happened to its reservation (auxiliary)
    crowded   \* the cores that were between check and store of a word with another one,
              \* or reserved it while another one was (auxiliary)

vars == <<resv, map, pc, ea, loaded, updates, eq, hist, crowded>>

\* What a core's reservation has gone through: "reserved" since a lwarx and until a
\* stwcx. of its own, "taken" when another core has reserved the line since, "cleared"
\* when another core has cleared the line since. A core is "booting" until its first
\* lwarx or stwcx., while m_resv_set and m_resv_addr are uninitialised.
History == [booting : BOOLEAN, reserved : BOOLEAN, taken : BOOLEAN, cleared : BOOLEAN]

\* operator[] of std::map on a key it does not have inserts the pair (false, 0).
Present(p) == [p EXCEPT !.present = TRUE]

\* The other cores that believe to hold a reservation on line g.
OthersOn(c, g) == {d \in Cpus \ {c} : GranuleOf[resv[d].addr] = g}

\* The other cores that have passed the check for the word of c and have yet to store.
InWindow(c) == {d \in Cpus \ {c} : pc[d] = "store" /\ ea[d] = ea[c]}

Init ==
    /\ resv \in [Cpus -> [set : BOOLEAN, addr : Words]]
    /\ map = [g \in Granules |-> [present |-> FALSE, first |-> FALSE, second |-> 0]]
    /\ pc = [c \in Cpus |-> "idle"]
    /\ ea \in [Cpus -> Words]
    /\ loaded = [c \in Cpus |-> 0]
    /\ updates = [w \in Words |-> 0]
    /\ eq \in [Cpus -> BOOLEAN]
    /\ hist = [c \in Cpus |-> [booting |-> TRUE, reserved |-> FALSE,
                               taken |-> FALSE, cleared |-> FALSE]]
    /\ crowded = {}

\* The core comes to an instruction; nothing else of it has happened yet.
Begin(c, w, first) ==
    /\ pc[c] = "idle"
    /\ pc' = [pc EXCEPT ![c] = first]
    /\ ea' = [ea EXCEPT ![c] = w]
    /\ UNCHANGED <<resv, map, loaded, updates, hist, eq, crowded>>

----------------------------------------------------------------------------
(* lwarx *)

\* Mutant: set_resv does not mark the line as reserved.
SetFirstUnmarked(c) ==
    /\ pc[c] = "lwarx"
    /\ resv' = [resv EXCEPT ![c] = [set |-> TRUE, addr |-> ea[c]]]
    /\ map' = [map EXCEPT ![GranuleOf[ea[c]]] = Present(@)]
    /\ hist' = [hist EXCEPT ![c] = [booting |-> FALSE, reserved |-> TRUE,
                                    taken |-> FALSE, cleared |-> FALSE]]
    /\ pc' = [pc EXCEPT ![c] = "second"]
    /\ UNCHANGED <<ea, loaded, updates, eq, crowded>>

\* set_resv: the core's own fields, then the first byte of the pair.
SetFirst(c) ==
    /\ pc[c] = "lwarx"
    /\ resv' = [resv EXCEPT ![c] = [set |-> TRUE, addr |-> ea[c]]]
    /\ map' = [map EXCEPT ![GranuleOf[ea[c]]] = [Present(@) EXCEPT !.first = TRUE]]
    /\ hist' = [hist EXCEPT ![c] = [booting |-> FALSE, reserved |-> TRUE,
                                    taken |-> FALSE, cleared |-> FALSE]]
    /\ pc' = [pc EXCEPT ![c] = "second"]
    /\ UNCHANGED <<ea, loaded, updates, eq, crowded>>

\* Mutant: the cores are numbered from 1.
SetSecondFromOne(c) ==
    /\ pc[c] = "second"
    /\ map' = [map EXCEPT ![GranuleOf[ea[c]]].second = c + 1]
    /\ pc' = [pc EXCEPT ![c] = "load"]
    /\ UNCHANGED <<resv, ea, loaded, updates, hist, eq, crowded>>

\* set_resv: the second byte, the number of the core.
SetSecond(c) ==
    /\ pc[c] = "second"
    /\ map' = [map EXCEPT ![GranuleOf[ea[c]]].second = c]
    /\ hist' = [d \in Cpus |->
                   IF d = c THEN [hist[c] EXCEPT !.taken = FALSE]
                   ELSE IF d \in OthersOn(c, GranuleOf[ea[c]])
                     THEN [hist[d] EXCEPT !.taken = TRUE] ELSE hist[d]]
    /\ crowded' = IF InWindow(c) = {} THEN crowded \ {c} ELSE crowded \cup {c}
    /\ pc' = [pc EXCEPT ![c] = "load"]
    /\ UNCHANGED <<resv, ea, loaded, updates, eq>>

\* LOAD32 after the reservation is set.
Load(c) ==
    /\ pc[c] = "load"
    /\ loaded' = [loaded EXCEPT ![c] = updates[ea[c]]]
    /\ pc' = [pc EXCEPT ![c] = "idle"]
    /\ UNCHANGED <<resv, map, ea, updates, hist, eq, crowded>>

----------------------------------------------------------------------------
(* stwcx. *)

\* update_crF keeps the low four bits of its value, LT, GT, EQ and SO. SO is taken as 0.
CrField(val) == val % 16
EqBit(field) == (field \div 2) % 2 = 1

\* The outcome of a test of check_resv: on to the next access, or on to clear_resv with
\* CR0 of a failed store.
Tested(c, ok, next) ==
    /\ pc' = [pc EXCEPT ![c] = IF ok THEN next ELSE "clear"]
    /\ eq' = IF ok THEN eq ELSE [eq EXCEPT ![c] = EqBit(CrField(0))]
    /\ UNCHANGED <<resv, map, ea, loaded, updates, hist>>

\* Mutant: check_resv does not look at m_resv_set.
CheckFirstAnySet(c) ==
    LET p == map[GranuleOf[ea[c]]] IN
    /\ pc[c] = "stwcx"
    /\ Tested(c, p.present /\ resv[c].addr = ea[c] /\ p.first, "owner")
    /\ UNCHANGED crowded

\* check_resv: the line is in the map, the core's own fields agree, and "first" is set.
CheckFirst(c) ==
    LET p == map[GranuleOf[ea[c]]] IN
    /\ pc[c] = "stwcx"
    /\ Tested(c, p.present /\ resv[c].addr = ea[c] /\ resv[c].set /\ p.first, "owner")
    /\ UNCHANGED crowded

\* Mutant: check_resv does not look at the owner of the line.
CheckSecondAnyOwner(c) ==
    /\ pc[c] = "owner"
    /\ Tested(c, TRUE, "store")
    /\ crowded' = crowded \cup InWindow(c)

\* check_resv: "second" is this core.
CheckSecond(c) ==
    /\ pc[c] = "owner"
    /\ Tested(c, map[GranuleOf[ea[c]]].second = c, "store")
    /\ crowded' = IF pc'[c] = "store" THEN crowded \cup InWindow(c) ELSE crowded

\* STORE32 and CR0 of a stwcx. that passed the check: update_crF gets 0x20.
Store(c) ==
    /\ pc[c] = "store"
    /\ updates' = [updates EXCEPT ![ea[c]] = @ + 1]
    /\ pc' = [pc EXCEPT ![c] = "clear"]
    /\ eq' = [eq EXCEPT ![c] = EqBit(CrField(32))]
    /\ UNCHANGED <<resv, map, ea, loaded, hist, crowded>>

\* clear_resv, after a stwcx. of either outcome: it ignores its argument and clears the
\* line of m_resv_addr, whichever core holds that line by now.
Clear(c) ==
    LET g == GranuleOf[resv[c].addr] IN
    /\ pc[c] = "clear"
    /\ resv' = [resv EXCEPT ![c].set = FALSE]
    /\ map' = [map EXCEPT ![g] = [Present(@) EXCEPT !.first = FALSE]]
    /\ hist' = [d \in Cpus |->
                   IF d = c THEN [hist[c] EXCEPT !.booting = FALSE, !.reserved = FALSE]
                   ELSE IF d \in OthersOn(c, g)
                     THEN [hist[d] EXCEPT !.cleared = TRUE] ELSE hist[d]]
    /\ pc' = [pc EXCEPT ![c] = "idle"]
    /\ UNCHANGED <<ea, loaded, updates, eq, crowded>>

Lwarx(c) == \/ \E w \in Words : Begin(c, w, "lwarx")
            \/ SetFirst(c)
            \/ SetSecond(c)
            \/ Load(c)

Stwcx(c) == \/ \E w \in Words : updates[w] < MaxUpdates /\ Begin(c, w, "stwcx")
            \/ CheckFirst(c)
            \/ CheckSecond(c)
            \/ Store(c)
            \/ Clear(c)

Next == \E c \in Cpus : Lwarx(c) \/ Stwcx(c)

Spec == Init /\ [][Next]_vars

----------------------------------------------------------------------------
(* Properties. *)

\* The variables have the types of the members of class cpu.
TypeOK ==
    /\ resv \in [Cpus -> [set : BOOLEAN, addr : Words]]
    /\ map \in [Granules -> [present : BOOLEAN, first : BOOLEAN, second : Cpus]]
    /\ pc \in [Cpus -> {"idle", "lwarx", "second", "load", "stwcx", "owner", "store", "clear"}]
    /\ ea \in [Cpus -> Words]
    /\ loaded \in [Cpus -> Nat]
    /\ updates \in [Words -> Nat]
    /\ eq \in [Cpus -> BOOLEAN]
    /\ hist \in [Cpus -> History]
    /\ crowded \subseteq Cpus

\* One lwarx licenses one stwcx.: a core that has executed either before stores only
\* with a reservation of its own lwarx of that very word, made since its last stwcx.,
\* however the bytes of the map were torn by the others.
StoreNeedsReservation ==
    \A c \in Cpus : pc[c] = "store" /\ ~hist[c].booting =>
        hist[c].reserved /\ resv[c] = [set |-> TRUE, addr |-> ea[c]]

\* The latest reservation of a line wins: a stwcx. does not pass the check when another
\* core has reserved the line since.
LatestReservationWins ==
    [][\A c \in Cpus : pc[c] = "owner" /\ pc'[c] = "store" => ~hist[c].taken]_vars

\* A reservation is lost for a reason only: a stwcx. to the reserved word fails the check
\* only when another core has reserved or cleared the line since the lwarx.
LossHasCause ==
    [][\A c \in Cpus : (/\ pc[c] \in {"stwcx", "owner"}
                        /\ pc'[c] = "clear"
                        /\ hist[c].reserved
                        /\ resv[c].addr = ea[c])
                       => hist[c].taken \/ hist[c].cleared]_vars

\* Without a lock an update can be lost, but in one place only: a word that has changed
\* since the lwarx is overwritten only by a core that met another one between check and
\* store of that word (cpu_ppc_instr.cc:2103-2104).
LostInWindowOnly ==
    \A c \in Cpus : pc[c] = "store" /\ ~hist[c].booting /\ c \notin crowded =>
        loaded[c] = updates[ea[c]]

=============================================================================
