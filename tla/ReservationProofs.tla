------------------------- MODULE ReservationProofs -------------------------
(***************************************************************************)
(* What lwarx and stwcx. guarantee although the map is shared without a    *)
(* lock, for any number of cores, words and lines: the reservation of a    *)
(* core is bound to the bytes of the pair only through what the other      *)
(* cores have done to the line since, which is what hist records.          *)
(***************************************************************************)
EXTENDS Reservation, TLAPS

\* The pair of the line core c has reserved.
PairOf(c) == map[GranuleOf[resv[c].addr]]

\* The own fields of a core in the middle of an instruction, and after its first one.
OwnFields(c) ==
    /\ pc[c] \in {"second", "load", "owner", "store"} => resv[c].set /\ resv[c].addr = ea[c]
    /\ hist[c].booting => ~hist[c].reserved
    /\ ~hist[c].booting => (hist[c].reserved <=> resv[c].set)

\* The shared bytes as far as a core can rely on them.
SharedBytes(c) ==
    /\ hist[c].reserved => PairOf(c).present
    /\ hist[c].reserved /\ ~hist[c].cleared => PairOf(c).first
    /\ hist[c].taken => PairOf(c).second # c
    /\ hist[c].reserved /\ ~hist[c].taken /\ pc[c] # "second" => PairOf(c).second = c

Inv == TypeOK /\ \A c \in Cpus : OwnFields(c) /\ SharedBytes(c)

\* The initial states satisfy the invariant.
LEMMA InvInit == Init => Inv
  <1> SUFFICES ASSUME Init PROVE Inv
    OBVIOUS
  <1>1. 0 \in Cpus
    BY CpuAssumption DEF Cpus
  <1>2. TypeOK
    BY <1>1 DEF Init, TypeOK, History
  <1>3. \A c \in Cpus : OwnFields(c) /\ SharedBytes(c)
    BY DEF Init, OwnFields, SharedBytes
  <1> QED BY <1>2, <1>3 DEF Inv

\* The types, written out for one core and its line.
LEMMA CoreTypes ==
    ASSUME TypeOK, NEW c \in Cpus
    PROVE  /\ resv[c] \in [set : BOOLEAN, addr : Words]
           /\ ea[c] \in Words
           /\ hist[c] \in History
           /\ GranuleOf[ea[c]] \in Granules
           /\ GranuleOf[resv[c].addr] \in Granules
           /\ PairOf(c) \in [present : BOOLEAN, first : BOOLEAN, second : Cpus]
  BY WordAssumption DEF TypeOK, PairOf

\* Coming to an instruction changes nothing a reservation depends on.
LEMMA BeginKeeps ==
    ASSUME Inv, NEW a \in Cpus, NEW w \in Words, NEW first \in {"lwarx", "stwcx"},
           Begin(a, w, first)
    PROVE  Inv'
  <1>1. TypeOK'
    BY DEF Inv, TypeOK, Begin
  <1>2. ASSUME NEW c \in Cpus
        PROVE  (OwnFields(c) /\ SharedBytes(c))'
    <2>1. OwnFields(c) /\ SharedBytes(c) /\ UNCHANGED <<resv, map, hist>>
      BY DEF Inv, Begin
    <2>2. /\ c # a => pc'[c] = pc[c] /\ ea'[c] = ea[c]
          /\ c = a => pc[c] = "idle" /\ pc'[c] \in {"lwarx", "stwcx"}
      BY DEF Inv, TypeOK, Begin
    <2> QED BY <2>1, <2>2 DEF OwnFields, SharedBytes, PairOf
  <1> QED BY <1>1, <1>2 DEF Inv

\* The first half of set_resv.
LEMMA SetFirstKeeps ==
    ASSUME Inv, NEW a \in Cpus, SetFirst(a)
    PROVE  Inv'
  <1> DEFINE g == GranuleOf[ea[a]]
  <1>1. /\ g \in Granules
        /\ resv' = [resv EXCEPT ![a] = [set |-> TRUE, addr |-> ea[a]]]
        /\ map' = [map EXCEPT ![g] = [Present(@) EXCEPT !.first = TRUE]]
        /\ hist' = [hist EXCEPT ![a] = [booting |-> FALSE, reserved |-> TRUE,
                                        taken |-> FALSE, cleared |-> FALSE]]
        /\ pc' = [pc EXCEPT ![a] = "second"]
        /\ UNCHANGED <<ea, loaded, updates, eq, crowded>>
    BY CoreTypes DEF Inv, SetFirst
  <1> HIDE DEF g
  <1>2. \A h \in Granules : /\ map'[h] \in [present : BOOLEAN, first : BOOLEAN, second : Cpus]
                            /\ map'[h].second = map[h].second
                            /\ map[h].present => map'[h].present
                            /\ map[h].first => map'[h].first
                            /\ h = g => map'[h].present /\ map'[h].first
    BY <1>1 DEF Inv, TypeOK, Present
  <1>3. TypeOK'
    <2>1. map' \in [Granules -> [present : BOOLEAN, first : BOOLEAN, second : Cpus]]
      BY <1>1, <1>2 DEF Inv, TypeOK
    <2> QED BY <1>1, <2>1 DEF Inv, TypeOK, History
  <1>4. OwnFields(a)' /\ SharedBytes(a)'
    <2>1. /\ resv'[a].set /\ resv'[a].addr = ea[a]
          /\ ~hist'[a].booting /\ hist'[a].reserved /\ ~hist'[a].taken
          /\ pc'[a] = "second"
          /\ ea'[a] = ea[a]
      BY <1>1 DEF Inv, TypeOK
    <2>2. PairOf(a)' = map'[g]
      BY <2>1 DEF PairOf, g
    <2> QED BY <1>1, <1>2, <2>1, <2>2 DEF OwnFields, SharedBytes
  <1>5. ASSUME NEW c \in Cpus, c # a
        PROVE  (OwnFields(c) /\ SharedBytes(c))'
    <2>1. /\ OwnFields(c) /\ SharedBytes(c)
          /\ resv'[c] = resv[c] /\ hist'[c] = hist[c] /\ pc'[c] = pc[c] /\ ea'[c] = ea[c]
      BY <1>1, <1>5 DEF Inv, TypeOK
    <2>2. /\ PairOf(c)'.second = PairOf(c).second
          /\ PairOf(c).present => PairOf(c)'.present
          /\ PairOf(c).first => PairOf(c)'.first
      BY <1>2, <2>1, CoreTypes DEF Inv, PairOf
    <2> QED BY <2>1, <2>2 DEF OwnFields, SharedBytes
  <1> QED BY <1>3, <1>4, <1>5 DEF Inv

\* The second half of set_resv: the others on the line learn that it is taken.
LEMMA SetSecondKeeps ==
    ASSUME Inv, NEW a \in Cpus, SetSecond(a)
    PROVE  Inv'
  <1> DEFINE g == GranuleOf[ea[a]]
  <1>1. /\ g \in Granules
        /\ map' = [map EXCEPT ![g].second = a]
        /\ pc' = [pc EXCEPT ![a] = "load"]
        /\ pc[a] = "second"
        /\ UNCHANGED <<resv, ea, loaded, updates, eq>>
    BY CoreTypes DEF Inv, SetSecond
  <1>2. \A d \in Cpus :
            hist'[d] = IF d = a THEN [hist[a] EXCEPT !.taken = FALSE]
                       ELSE IF d \in OthersOn(a, g)
                         THEN [hist[d] EXCEPT !.taken = TRUE] ELSE hist[d]
    BY DEF SetSecond
  <1>3. DOMAIN hist' = Cpus /\ hist' = [d \in Cpus |-> hist'[d]]
    BY DEF SetSecond
  <1>4. \A h \in Granules : /\ map'[h] \in [present : BOOLEAN, first : BOOLEAN, second : Cpus]
                            /\ map'[h].present = map[h].present
                            /\ map'[h].first = map[h].first
                            /\ map'[h].second = IF h = g THEN a ELSE map[h].second
    BY <1>1 DEF Inv, TypeOK
  <1>5. ASSUME NEW d \in Cpus
        PROVE  hist'[d] \in History
    <2>1. hist[d] \in History
      BY DEF Inv, TypeOK
    <2>2. CASE d = a
      BY <1>2, <2>1, <2>2 DEF History
    <2>3. CASE d # a
      BY <1>2, <2>1, <2>3 DEF History
    <2> QED BY <2>2, <2>3
  <1>6. TypeOK'
    <2>1. map' \in [Granules -> [present : BOOLEAN, first : BOOLEAN, second : Cpus]]
      BY <1>1, <1>4 DEF Inv, TypeOK
    <2>2. hist' \in [Cpus -> History]
      BY <1>3, <1>5
    <2>3. crowded' \subseteq Cpus
      BY DEF SetSecond, InWindow, Inv, TypeOK
    <2> QED BY <1>1, <2>1, <2>2, <2>3 DEF Inv, TypeOK
  <1>7. OwnFields(a)' /\ SharedBytes(a)'
    <2>1. resv[a].set /\ resv[a].addr = ea[a] /\ OwnFields(a) /\ SharedBytes(a)
      BY <1>1 DEF Inv, OwnFields
    <2>2. /\ resv'[a] = resv[a] /\ ea'[a] = ea[a] /\ pc'[a] = "load"
          /\ hist'[a].booting = hist[a].booting
          /\ hist'[a].reserved = hist[a].reserved
          /\ hist'[a].cleared = hist[a].cleared
          /\ ~hist'[a].taken
      BY <1>1, <1>2 DEF Inv, TypeOK, History
    <2>3. PairOf(a) = map[g] /\ PairOf(a)' = map'[g]
      BY <1>1, <2>1, <2>2 DEF PairOf, g
    <2> QED BY <1>1, <1>4, <2>1, <2>2, <2>3 DEF OwnFields, SharedBytes
  <1> HIDE DEF g
  <1>8. ASSUME NEW c \in Cpus, c # a
        PROVE  (OwnFields(c) /\ SharedBytes(c))'
    <2>1. /\ OwnFields(c) /\ SharedBytes(c)
          /\ resv'[c] = resv[c] /\ pc'[c] = pc[c] /\ ea'[c] = ea[c]
      BY <1>1, <1>8 DEF Inv, TypeOK
    <2>2. /\ hist'[c].booting = hist[c].booting
          /\ hist'[c].reserved = hist[c].reserved
          /\ hist'[c].cleared = hist[c].cleared
      BY <1>2, <1>8 DEF Inv, TypeOK, History
    <2>3. GranuleOf[resv[c].addr] \in Granules
      BY CoreTypes DEF Inv
    <2>4. CASE GranuleOf[resv[c].addr] = g
      <3>1. hist'[c].taken /\ hist[c] \in History
        BY <1>2, <1>8, <2>4 DEF OthersOn, Inv, TypeOK, History
      <3>2. PairOf(c)' = map'[g] /\ PairOf(c) = map[g]
        BY <2>1, <2>4 DEF PairOf
      <3>3. PairOf(c)'.second # c
        BY <1>1, <1>4, <1>8, <3>2
      <3> QED BY <1>1, <1>4, <2>1, <2>2, <3>1, <3>2, <3>3 DEF OwnFields, SharedBytes
    <2>5. CASE GranuleOf[resv[c].addr] # g
      <3>1. hist'[c] = hist[c]
        BY <1>2, <1>8, <2>5 DEF OthersOn
      <3>2. PairOf(c)'.second = PairOf(c).second /\ PairOf(c)'.first = PairOf(c).first
            /\ PairOf(c)'.present = PairOf(c).present
        BY <1>4, <2>1, <2>3, <2>5 DEF PairOf
      <3> QED BY <2>1, <3>1, <3>2 DEF OwnFields, SharedBytes
    <2> QED BY <2>4, <2>5
  <1> QED BY <1>6, <1>7, <1>8 DEF Inv

\* Steps that only move a core on: the load, the check and the store.
LEMMA QuietKeeps ==
    ASSUME Inv, NEW a \in Cpus, Load(a) \/ CheckFirst(a) \/ CheckSecond(a) \/ Store(a)
    PROVE  Inv'
  <1>1. UNCHANGED <<resv, map, ea, hist>>
    BY DEF Load, CheckFirst, CheckSecond, Tested, Store
  <1>2. loaded' \in [Cpus -> Nat] /\ updates' \in [Words -> Nat] /\ eq' \in [Cpus -> BOOLEAN]
    <2>1. /\ loaded \in [Cpus -> Nat]
          /\ updates \in [Words -> Nat]
          /\ ea[a] \in Words
          /\ eq \in [Cpus -> BOOLEAN]
          /\ \A n \in {0, 32} : EqBit(CrField(n)) \in BOOLEAN
      BY DEF Inv, TypeOK, EqBit
    <2>2. CASE Load(a)
      BY <2>1, <2>2 DEF Load
    <2>3. CASE CheckFirst(a) \/ CheckSecond(a)
      BY <2>1, <2>3 DEF CheckFirst, CheckSecond, Tested
    <2>4. CASE Store(a)
      BY <2>1, <2>4 DEF Store
    <2> QED BY <2>2, <2>3, <2>4
  <1>3. /\ pc' \in [Cpus -> {"idle", "lwarx", "second", "load", "stwcx", "owner", "store", "clear"}]
        /\ \A c \in Cpus : c # a => pc'[c] = pc[c]
        /\ pc[a] # "second"
        /\ pc'[a] \in {"idle", "clear", "owner", "store"}
        /\ pc'[a] = "owner" => resv[a].addr = ea[a] /\ resv[a].set
        /\ pc'[a] = "store" => pc[a] = "owner"
    <2>1. pc \in [Cpus -> {"idle", "lwarx", "second", "load", "stwcx", "owner", "store", "clear"}]
      BY DEF Inv, TypeOK
    <2>2. CASE Load(a)
      BY <2>1, <2>2 DEF Load
    <2>3. CASE CheckFirst(a)
      BY <2>1, <2>3 DEF CheckFirst, Tested
    <2>4. CASE CheckSecond(a)
      BY <2>1, <2>4 DEF CheckSecond, Tested
    <2>5. CASE Store(a)
      BY <2>1, <2>5 DEF Store
    <2> QED BY <2>2, <2>3, <2>4, <2>5
  <1>4. TypeOK'
    <2>1. crowded' \subseteq Cpus
      BY DEF Load, CheckFirst, CheckSecond, Store, InWindow, Inv, TypeOK
    <2> QED BY <1>1, <1>2, <1>3, <2>1 DEF Inv, TypeOK
  <1>5. ASSUME NEW c \in Cpus
        PROVE  (OwnFields(c) /\ SharedBytes(c))'
    <2>1. OwnFields(c) /\ SharedBytes(c)
      BY DEF Inv
    <2> QED BY <1>1, <1>3, <2>1 DEF OwnFields, SharedBytes, PairOf
  <1> QED BY <1>4, <1>5 DEF Inv

\* clear_resv: the others on the line learn that it is cleared.
LEMMA ClearKeeps ==
    ASSUME Inv, NEW a \in Cpus, Clear(a)
    PROVE  Inv'
  <1> DEFINE g == GranuleOf[resv[a].addr]
  <1>1. /\ g \in Granules
        /\ resv' = [resv EXCEPT ![a].set = FALSE]
        /\ map' = [map EXCEPT ![g] = [Present(@) EXCEPT !.first = FALSE]]
        /\ pc' = [pc EXCEPT ![a] = "idle"]
        /\ UNCHANGED <<ea, loaded, updates, eq, crowded>>
    BY CoreTypes DEF Inv, Clear
  <1>2. \A d \in Cpus :
            hist'[d] = IF d = a THEN [hist[a] EXCEPT !.booting = FALSE, !.reserved = FALSE]
                       ELSE IF d \in OthersOn(a, g)
                         THEN [hist[d] EXCEPT !.cleared = TRUE] ELSE hist[d]
    BY DEF Clear
  <1>3. DOMAIN hist' = Cpus /\ hist' = [d \in Cpus |-> hist'[d]]
    BY DEF Clear
  <1>4. \A h \in Granules : /\ map'[h] \in [present : BOOLEAN, first : BOOLEAN, second : Cpus]
                            /\ map[h].present => map'[h].present
                            /\ h # g => map'[h].first = map[h].first
                            /\ map'[h].second = map[h].second
    BY <1>1 DEF Inv, TypeOK, Present
  <1>5. ASSUME NEW d \in Cpus
        PROVE  hist'[d] \in History
    <2>1. hist[d] \in History
      BY DEF Inv, TypeOK
    <2>2. CASE d = a
      BY <1>2, <2>1, <2>2 DEF History
    <2>3. CASE d # a
      BY <1>2, <2>1, <2>3 DEF History
    <2> QED BY <2>2, <2>3
  <1>6. TypeOK'
    <2>1. map' \in [Granules -> [present : BOOLEAN, first : BOOLEAN, second : Cpus]]
      BY <1>1, <1>4 DEF Inv, TypeOK
    <2>2. hist' \in [Cpus -> History]
      BY <1>3, <1>5
    <2>3. resv' \in [Cpus -> [set : BOOLEAN, addr : Words]]
      BY <1>1 DEF Inv, TypeOK
    <2> QED BY <1>1, <2>1, <2>2, <2>3 DEF Inv, TypeOK
  <1>7. OwnFields(a)' /\ SharedBytes(a)'
    <2>1. SharedBytes(a)
      BY DEF Inv
    <2>2. /\ ~resv'[a].set /\ resv'[a].addr = resv[a].addr /\ pc'[a] = "idle"
          /\ ~hist'[a].booting
          /\ ~hist'[a].reserved
          /\ hist'[a].taken = hist[a].taken
      <3>1. hist[a] \in History /\ resv[a] \in [set : BOOLEAN, addr : Words]
        BY DEF Inv, TypeOK
      <3>2. hist'[a] = [hist[a] EXCEPT !.booting = FALSE, !.reserved = FALSE]
        BY <1>2
      <3>3. resv'[a] = [resv[a] EXCEPT !.set = FALSE] /\ pc'[a] = "idle"
        BY <1>1 DEF Inv, TypeOK
      <3> HIDE DEF g
      <3> QED BY <3>1, <3>2, <3>3 DEF History
    <2>3. PairOf(a) = map[g] /\ PairOf(a)' = map'[g]
      BY <2>2 DEF PairOf
    <2> HIDE DEF g
    <2> QED BY <1>1, <1>4, <2>1, <2>2, <2>3 DEF OwnFields, SharedBytes
  <1> HIDE DEF g
  <1>8. ASSUME NEW c \in Cpus, c # a
        PROVE  (OwnFields(c) /\ SharedBytes(c))'
    <2>1. /\ OwnFields(c) /\ SharedBytes(c)
          /\ resv'[c] = resv[c] /\ pc'[c] = pc[c] /\ ea'[c] = ea[c]
      BY <1>1, <1>8 DEF Inv, TypeOK
    <2>2. /\ hist'[c].booting = hist[c].booting
          /\ hist'[c].reserved = hist[c].reserved
          /\ hist'[c].taken = hist[c].taken
      BY <1>2, <1>8 DEF Inv, TypeOK, History
    <2>3. GranuleOf[resv[c].addr] \in Granules
      BY CoreTypes DEF Inv
    <2>4. PairOf(c)'.second = PairOf(c).second /\ (PairOf(c).present => PairOf(c)'.present)
      BY <1>4, <2>1, <2>3 DEF PairOf
    <2>5. CASE GranuleOf[resv[c].addr] = g
      <3>1. c \in OthersOn(a, g)
        BY <1>8, <2>5 DEF OthersOn
      <3>2. hist'[c] = [hist[c] EXCEPT !.cleared = TRUE]
        BY <1>2, <1>8, <3>1
      <3>3. hist[c] \in History
        BY DEF Inv, TypeOK
      <3>4. hist'[c].cleared
        BY <3>2, <3>3 DEF History
      <3> QED BY <2>1, <2>2, <2>4, <3>4 DEF OwnFields, SharedBytes
    <2>6. CASE GranuleOf[resv[c].addr] # g
      <3>1. hist'[c] = hist[c]
        BY <1>2, <1>8, <2>6 DEF OthersOn
      <3>2. PairOf(c)'.first = PairOf(c).first
        BY <1>4, <2>1, <2>3, <2>6 DEF PairOf
      <3> QED BY <2>1, <2>4, <3>1, <3>2 DEF OwnFields, SharedBytes
    <2> QED BY <2>5, <2>6
  <1> QED BY <1>6, <1>7, <1>8 DEF Inv

\* Every access to the map keeps the invariant.
LEMMA InvStep == Inv /\ [Next]_vars => Inv'
  <1> SUFFICES ASSUME Inv, [Next]_vars PROVE Inv'
    OBVIOUS
  <1>1. ASSUME NEW a \in Cpus, Lwarx(a)
        PROVE  Inv'
    BY <1>1, BeginKeeps, SetFirstKeeps, SetSecondKeeps, QuietKeeps DEF Lwarx
  <1>2. ASSUME NEW a \in Cpus, Stwcx(a)
        PROVE  Inv'
    BY <1>2, BeginKeeps, QuietKeeps, ClearKeeps DEF Stwcx
  <1>3. CASE UNCHANGED vars
    BY <1>3 DEF vars, Inv, TypeOK, OwnFields, SharedBytes, PairOf
  <1> QED BY <1>1, <1>2, <1>3 DEF Next

\* The invariant holds in every state of every behaviour.
THEOREM ReservationInvariance == Spec => []Inv
  BY InvInit, InvStep, PTL DEF Spec

\* The variables keep their types.
THEOREM ReservationTypes == Spec => []TypeOK
  <1>1. Inv => TypeOK
    BY DEF Inv
  <1> QED BY <1>1, ReservationInvariance, PTL

\* No core stores without a reservation of its own for that word.
THEOREM StoresAreReserved == Spec => []StoreNeedsReservation
  <1>1. Inv => StoreNeedsReservation
    <2> SUFFICES ASSUME Inv, NEW c \in Cpus, pc[c] = "store", ~hist[c].booting
                 PROVE  hist[c].reserved /\ resv[c] = [set |-> TRUE, addr |-> ea[c]]
      BY DEF StoreNeedsReservation
    <2>1. resv[c].set /\ resv[c].addr = ea[c] /\ hist[c].reserved
      BY DEF Inv, OwnFields
    <2>2. resv[c] \in [set : BOOLEAN, addr : Words]
      BY CoreTypes DEF Inv
    <2> QED BY <2>1, <2>2
  <1> QED BY <1>1, ReservationInvariance, PTL

\* A core whose line another core has reserved since does not pass the check.
THEOREM LatestWins == Spec => LatestReservationWins
  <1>1. ASSUME Inv, Next, NEW c \in Cpus, pc[c] = "owner", pc'[c] = "store"
        PROVE  ~hist[c].taken
    <2>1. PICK a \in Cpus : Lwarx(a) \/ Stwcx(a)
      BY <1>1 DEF Next
    <2>2. a = c
      BY <1>1, <2>1 DEF Inv, TypeOK, Lwarx, Stwcx, Begin, SetFirst, SetSecond, Load,
                        CheckFirst, CheckSecond, Tested, Store, Clear
    <2>3. CheckSecond(c)
      BY <1>1, <2>1, <2>2 DEF Inv, TypeOK, Lwarx, Stwcx, Begin, SetFirst, SetSecond, Load,
                              CheckFirst, CheckSecond, Tested, Store, Clear
    <2>4. map[GranuleOf[ea[c]]].second = c
      BY <1>1, <2>3 DEF Inv, TypeOK, CheckSecond, Tested
    <2>5. resv[c].addr = ea[c] /\ (hist[c].taken => PairOf(c).second # c)
      BY <1>1 DEF Inv, OwnFields, SharedBytes
    <2> QED BY <2>4, <2>5 DEF PairOf
  <1>2. Inv /\ [Next]_vars =>
            [\A c \in Cpus : pc[c] = "owner" /\ pc'[c] = "store" => ~hist[c].taken]_vars
    BY <1>1
  <1> QED BY <1>2, ReservationInvariance, PTL DEF Spec, LatestReservationWins

\* A core fails the check for the reserved word only when another core interfered.
THEOREM LossesHaveCauses == Spec => LossHasCause
  <1>1. ASSUME Inv, Next, NEW c \in Cpus,
               pc[c] \in {"stwcx", "owner"}, pc'[c] = "clear",
               hist[c].reserved, resv[c].addr = ea[c]
        PROVE  hist[c].taken \/ hist[c].cleared
    <2>1. PICK a \in Cpus : Lwarx(a) \/ Stwcx(a)
      BY <1>1 DEF Next
    <2>2. a = c
      BY <1>1, <2>1 DEF Inv, TypeOK, Lwarx, Stwcx, Begin, SetFirst, SetSecond, Load,
                        CheckFirst, CheckSecond, Tested, Store, Clear
    <2>3. CheckFirst(c) \/ CheckSecond(c)
      BY <1>1, <2>1, <2>2 DEF Inv, TypeOK, Lwarx, Stwcx, Begin, SetFirst, SetSecond, Load,
                              CheckFirst, CheckSecond, Tested, Store, Clear
    <2>4. /\ resv[c].set
          /\ PairOf(c).present
          /\ ~hist[c].cleared => PairOf(c).first
          /\ ~hist[c].taken => PairOf(c).second = c
      BY <1>1 DEF Inv, OwnFields, SharedBytes
    <2>5. PairOf(c) = map[GranuleOf[ea[c]]]
      BY <1>1 DEF PairOf
    <2>6. CASE CheckFirst(c)
      BY <1>1, <2>4, <2>5, <2>6 DEF CheckFirst, Tested, Inv, TypeOK
    <2>7. CASE CheckSecond(c)
      BY <1>1, <2>4, <2>5, <2>7 DEF CheckSecond, Tested, Inv, TypeOK
    <2> QED BY <2>3, <2>6, <2>7
  <1>2. Inv /\ [Next]_vars =>
            [\A c \in Cpus : (/\ pc[c] \in {"stwcx", "owner"}
                              /\ pc'[c] = "clear"
                              /\ hist[c].reserved
                              /\ resv[c].addr = ea[c])
                             => hist[c].taken \/ hist[c].cleared]_vars
    BY <1>1
  <1> QED BY <1>2, ReservationInvariance, PTL DEF Spec, LossHasCause

\* What the value a core has loaded is worth: as long as the core may still store and has
\* met no other one, nobody is about to store to its word and nobody has.
Worth(c) ==
    (/\ hist[c].reserved /\ c \notin crowded
     /\ pc[c] \notin {"second", "clear"}
     /\ hist[c].taken => pc[c] = "store")
    => /\ \A d \in Cpus \ {c} : pc[d] = "store" => ea[d] # resv[c].addr
       /\ pc[c] # "load" => loaded[c] = updates[resv[c].addr]

\* Loaded values keep their worth through every step: the core that comes to store either
\* has taken the line, or meets the other one there.
LEMMA WorthStep ==
    ASSUME Inv, Inv', [Next]_vars, \A c \in Cpus : Worth(c)
    PROVE  \A c \in Cpus : Worth(c)'
  <1> SUFFICES ASSUME NEW c \in Cpus PROVE Worth(c)'
    OBVIOUS
  <1> USE DEF Inv, TypeOK
  <1>1. CASE UNCHANGED vars
    BY <1>1 DEF vars, Worth
  <1>2. ASSUME NEW a \in Cpus, NEW w \in Words, NEW first \in {"lwarx", "stwcx"},
               Begin(a, w, first)
        PROVE  Worth(c)'
    BY <1>2 DEF Begin, Worth
  <1>3. ASSUME NEW a \in Cpus, SetFirst(a)
        PROVE  Worth(c)'
    <2>1. CASE c = a
      BY <1>3, <2>1 DEF SetFirst, Worth
    <2>2. CASE c # a
      BY <1>3, <2>2 DEF SetFirst, Worth
    <2> QED BY <2>1, <2>2
  <1>4. ASSUME NEW a \in Cpus, SetSecond(a)
        PROVE  Worth(c)'
    <2>1. CASE c = a
      BY <1>4, <2>1 DEF SetSecond, Worth, InWindow, OwnFields
    <2>2. CASE c # a
      <3>1. /\ hist'[c].reserved = hist[c].reserved
            /\ hist[c].taken => hist'[c].taken
            /\ pc'[c] = pc[c] /\ (c \in crowded' <=> c \in crowded)
        BY <1>4, <2>2 DEF SetSecond, History
      <3>2. \A d \in Cpus : pc'[d] = "store" => pc[d] = "store"
        BY <1>4 DEF SetSecond
      <3>3. UNCHANGED <<resv, ea, loaded, updates>>
        BY <1>4 DEF SetSecond
      <3> QED BY <3>1, <3>2, <3>3 DEF Worth
    <2> QED BY <2>1, <2>2
  <1>5. ASSUME NEW a \in Cpus, Load(a)
        PROVE  Worth(c)'
    <2>1. resv[a].addr = ea[a]
      BY <1>5 DEF Load, OwnFields
    <2>2. UNCHANGED <<resv, ea, hist, updates, crowded>>
      BY <1>5 DEF Load
    <2>3. \A d \in Cpus : pc'[d] = "store" <=> pc[d] = "store"
      BY <1>5 DEF Load
    <2>4. CASE c = a
      BY <1>5, <2>1, <2>2, <2>3, <2>4 DEF Load, Worth
    <2>5. CASE c # a
      BY <1>5, <2>2, <2>3, <2>5 DEF Load, Worth
    <2> QED BY <2>4, <2>5
  <1>6. ASSUME NEW a \in Cpus, CheckFirst(a)
        PROVE  Worth(c)'
    BY <1>6 DEF CheckFirst, Tested, Worth
  <1>7. ASSUME NEW a \in Cpus, CheckSecond(a)
        PROVE  Worth(c)'
    <2>1. /\ UNCHANGED <<resv, map, ea, loaded, updates, hist>>
          /\ \A d \in Cpus \ {a} : pc'[d] = pc[d]
          /\ pc[a] = "owner" /\ pc'[a] \in {"store", "clear"}
          /\ pc'[a] = "store" => /\ map[GranuleOf[ea[a]]].second = a
                                 /\ crowded' = crowded \cup InWindow(a)
          /\ crowded \subseteq crowded'
      BY <1>7 DEF CheckSecond, Tested
    <2>2. CASE pc'[a] = "clear"
      BY <2>1, <2>2 DEF Worth
    <2>3. CASE pc'[a] = "store"
      <3>1. CASE c = a
        <4>1. hist[a].taken => FALSE
          BY <2>1, <2>3 DEF OwnFields, SharedBytes, PairOf
        <4> QED BY <2>1, <2>3, <3>1, <4>1 DEF Worth
      <3>2. CASE c # a /\ ea[a] # resv[c].addr
        BY <2>1, <3>2 DEF Worth
      <3>3. CASE c # a /\ ea[a] = resv[c].addr
        <4>1. CASE pc[c] = "store"
          <5>1. c \in InWindow(a)
            BY <3>3, <4>1 DEF InWindow, OwnFields
          <5> QED BY <2>1, <2>3, <5>1 DEF Worth
        <4>2. CASE pc[c] # "store"
          <5>1. hist[c].reserved /\ ~hist[c].taken => pc[c] = "second"
            BY <2>1, <2>3, <3>3 DEF SharedBytes, PairOf
          <5> QED BY <2>1, <3>3, <4>2, <5>1 DEF Worth
        <4> QED BY <4>1, <4>2
      <3> QED BY <3>1, <3>2, <3>3
    <2> QED BY <2>1, <2>2, <2>3
  <1>8. ASSUME NEW a \in Cpus, Store(a)
        PROVE  Worth(c)'
    <2>1. CASE c = a
      BY <1>8, <2>1 DEF Store, Worth
    <2>2. CASE c # a
      BY <1>8, <2>2 DEF Store, Worth
    <2> QED BY <2>1, <2>2
  <1>9. ASSUME NEW a \in Cpus, Clear(a)
        PROVE  Worth(c)'
    <2>1. /\ UNCHANGED <<ea, loaded, updates, crowded>>
          /\ pc' = [pc EXCEPT ![a] = "idle"]
      BY <1>9 DEF Clear
    <2>2. CASE c = a
      <3>1. ~hist'[a].reserved
        <4>1. hist[a] \in History
          OBVIOUS
        <4>2. hist'[a] = [hist[a] EXCEPT !.booting = FALSE, !.reserved = FALSE]
          BY <1>9 DEF Clear
        <4> QED BY <4>1, <4>2 DEF History
      <3> QED BY <2>2, <3>1 DEF Worth
    <2>3. CASE c # a
      <3>1. /\ hist'[c].reserved = hist[c].reserved /\ hist'[c].taken = hist[c].taken
            /\ resv'[c] = resv[c]
        BY <1>9, <2>3 DEF Clear, History
      <3>2. pc'[c] = pc[c] /\ \A d \in Cpus : pc'[d] = "store" => pc[d] = "store"
        BY <2>1, <2>3
      <3>3. /\ ea' = ea /\ loaded' = loaded /\ updates' = updates /\ crowded' = crowded
        BY <2>1
      <3>4. Worth(c)
        OBVIOUS
      <3> DEFINE Before == /\ hist[c].reserved /\ c \notin crowded
                           /\ pc[c] \notin {"second", "clear"}
                           /\ hist[c].taken => pc[c] = "store"
      <3>5. CASE ~Before
        BY <3>1, <3>2, <3>3, <3>5 DEF Worth
      <3>6. CASE Before
        <4>1. /\ \A d \in Cpus \ {c} : pc[d] = "store" => ea[d] # resv[c].addr
              /\ pc[c] # "load" => loaded[c] = updates[resv[c].addr]
          BY <3>4, <3>6 DEF Worth
        <4> HIDE DEF Before
        <4>2. \A d \in Cpus \ {c} : pc'[d] = "store" => ea'[d] # resv'[c].addr
          BY <3>1, <3>2, <3>3, <4>1
        <4>3. pc'[c] # "load" => loaded'[c] = updates'[resv'[c].addr]
          BY <3>1, <3>2, <3>3, <4>1
        <4> QED BY <4>2, <4>3 DEF Worth
      <3> QED BY <3>5, <3>6
    <2> QED BY <2>2, <2>3
  <1> QED BY <1>1, <1>2, <1>3, <1>4, <1>5, <1>6, <1>7, <1>8, <1>9 DEF Next, Lwarx, Stwcx

\* A word that has changed since the lwarx is overwritten only by a core that met another
\* one between the check and the store of that word.
THEOREM LostUpdates == Spec => []LostInWindowOnly
  <1>1. Init => \A c \in Cpus : Worth(c)
    BY DEF Init, Worth
  <1>2. Inv /\ (\A c \in Cpus : Worth(c)) => LostInWindowOnly
    BY DEF Inv, TypeOK, OwnFields, Worth, LostInWindowOnly
  <1>3. Inv /\ Inv' /\ (\A c \in Cpus : Worth(c)) /\ [Next]_vars => \A c \in Cpus : Worth(c)'
    BY WorthStep
  <1> DEFINE AllWorth == \A c \in Cpus : Worth(c)
  <1>4. /\ Init => AllWorth
        /\ Inv /\ AllWorth => LostInWindowOnly
        /\ Inv /\ Inv' /\ AllWorth /\ [Next]_vars => AllWorth'
    BY <1>1, <1>2, <1>3
  <1> HIDE DEF AllWorth
  <1> QED BY <1>4, ReservationInvariance, PTL DEF Spec

=============================================================================
