------------------------------ MODULE TlbProofs ------------------------------
(***************************************************************************)
(* The invariants of Tlb for every size of the arrays and of the cache,    *)
(* every page size table, every list of masks and every set of addresses.  *)
(*                                                                         *)
(* CacheBacked is not inductive enough for FastTranslationRight: that an   *)
(* entry answers for an address needs its page to be aligned, and tlbwe    *)
(* never checks EPN against TSIZE. What makes it true is that a record is  *)
(* only ever made for an entry that matched, and only an aligned one can.  *)
(***************************************************************************)
EXTENDS Tlb, TLAPS, SequenceTheorems

---------------------------------------------------------------------------
(* What the operators of LruCache do to the records of a cache *)

\* A touched cache holds the same records at permuted positions: its length is the
\* same, and every record of the result stands somewhere in the argument.
LEMMA TouchKeeps ==
    ASSUME NEW R, NEW c \in Seq(R), NEW i \in DOMAIN c
    PROVE  /\ LruTouchAt(c, i) \in Seq(R)
           /\ Len(LruTouchAt(c, i)) = Len(c)
           /\ \A j \in 1..Len(c) : LruTouchAt(c, i)[j] =
                IF j < i THEN c[j] ELSE IF j < Len(c) THEN c[j + 1] ELSE c[i]
  <1>1. /\ Len(c) \in Nat
        /\ i \in 1..Len(c)
        /\ \A j \in 1..Len(c) : c[j] \in R
    BY LenProperties, ElementOfSeq
  <1> DEFINE a == SubSeq(c, 1, i - 1)
             b == SubSeq(c, i + 1, Len(c))
  <1>2. /\ a \in Seq(R)
        /\ Len(a) = i - 1
        /\ \A j \in 1..(i - 1) : a[j] = c[j]
    <2>1. 1 \in Int /\ i - 1 \in Int /\ \A j \in 1..(i - 1) : c[j] \in R
      BY <1>1
    <2>2. /\ a \in Seq(R)
          /\ Len(a) = IF 1 <= i - 1 THEN (i - 1) - 1 + 1 ELSE 0
          /\ \A j \in 1..((i - 1) - 1 + 1) : a[j] = c[1 + j - 1]
      BY <2>1, SubSeqProperties
    <2> QED BY <1>1, <2>2
  <1>3. /\ b \in Seq(R)
        /\ Len(b) = Len(c) - i
        /\ \A j \in 1..(Len(c) - i) : b[j] = c[i + j]
    <2>1. i + 1 \in Int /\ Len(c) \in Int /\ \A j \in (i + 1)..Len(c) : c[j] \in R
      BY <1>1
    <2>2. /\ b \in Seq(R)
          /\ Len(b) = IF i + 1 <= Len(c) THEN Len(c) - (i + 1) + 1 ELSE 0
          /\ \A j \in 1..(Len(c) - (i + 1) + 1) : b[j] = c[(i + 1) + j - 1]
      BY <2>1, SubSeqProperties
    <2> QED BY <1>1, <2>2
  <1> HIDE DEF a, b
  <1>4. /\ a \o b \in Seq(R)
        /\ Len(a \o b) = Len(c) - 1
        /\ \A j \in 1..(Len(c) - 1) : (a \o b)[j] = IF j < i THEN c[j] ELSE c[j + 1]
    <2>1. /\ a \o b \in Seq(R)
          /\ Len(a \o b) = Len(a) + Len(b)
          /\ \A j \in 1..(Len(a) + Len(b)) :
                (a \o b)[j] = IF j <= Len(a) THEN a[j] ELSE b[j - Len(a)]
      BY <1>2, <1>3, ConcatProperties
    <2>2. Len(a) + Len(b) = Len(c) - 1
      BY <1>1, <1>2, <1>3
    <2>3. ASSUME NEW j \in 1..(Len(c) - 1)
          PROVE  (a \o b)[j] = IF j < i THEN c[j] ELSE c[j + 1]
      <3>1. CASE j < i
        <4>1. j <= Len(a) /\ j \in 1..(i - 1) /\ j \in 1..(Len(a) + Len(b))
          BY <1>1, <1>2, <2>2, <3>1
        <4>2. (a \o b)[j] = a[j] /\ a[j] = c[j]
          BY <1>2, <2>1, <4>1
        <4> QED BY <3>1, <4>2
      <3>2. CASE ~(j < i)
        <4>1. /\ ~(j <= Len(a))
              /\ j \in 1..(Len(a) + Len(b))
              /\ j - Len(a) \in 1..(Len(c) - i)
              /\ i + (j - Len(a)) = j + 1
          BY <1>1, <1>2, <2>2, <3>2
        <4>2. (a \o b)[j] = b[j - Len(a)]
          BY <2>1, <4>1
        <4>3. b[j - Len(a)] = c[j + 1]
          BY <1>3, <4>1
        <4> QED BY <3>2, <4>2, <4>3
      <3> QED BY <3>1, <3>2
    <2> QED BY <2>1, <2>2, <2>3
  <1>5. LruTouchAt(c, i) = Append(a \o b, c[i])
    BY DEF LruTouchAt, RemoveAt, a, b
  <1> DEFINE ab == a \o b
  <1> HIDE DEF ab
  <1>6. ab \in Seq(R) /\ Len(ab) = Len(c) - 1 /\ c[i] \in R
    BY <1>1, <1>4 DEF ab
  <1>7. /\ Append(ab, c[i]) \in Seq(R)
        /\ Len(Append(ab, c[i])) = Len(c)
        /\ \A j \in 1..(Len(c) - 1) : Append(ab, c[i])[j] = ab[j]
        /\ Append(ab, c[i])[Len(c)] = c[i]
    BY <1>1, <1>6
  <1>8. LruTouchAt(c, i) = Append(ab, c[i])
    BY <1>5 DEF ab
  <1>9. \A j \in 1..(Len(c) - 1) : ab[j] = IF j < i THEN c[j] ELSE c[j + 1]
    BY <1>4 DEF ab
  <1>10. ASSUME NEW j \in 1..Len(c)
         PROVE  LruTouchAt(c, i)[j] =
                  IF j < i THEN c[j] ELSE IF j < Len(c) THEN c[j + 1] ELSE c[i]
    <2>1. CASE j < Len(c)
      BY <1>1, <1>7, <1>8, <1>9, <2>1
    <2>2. CASE j = Len(c)
      BY <1>1, <1>7, <1>8, <2>2
    <2> QED BY <1>1, <2>1, <2>2
  <1> QED BY <1>7, <1>8, <1>10

\* Making room leaves fewer records than the capacity: all of them, or all but the
\* oldest, at their places.
LEMMA RoomKeeps ==
    ASSUME NEW R, NEW c \in Seq(R), NEW n \in Nat \ {0}, Len(c) <= n
    PROVE  /\ LruRoom(c, n) \in Seq(R)
           /\ Len(LruRoom(c, n)) < n
           /\ \/ LruRoom(c, n) = c
              \/ /\ Len(c) = n
                 /\ Len(LruRoom(c, n)) = Len(c) - 1
                 /\ \A j \in 1..(Len(c) - 1) : LruRoom(c, n)[j] = c[j + 1]
  <1>1. Len(c) \in Nat
    BY LenProperties
  <1>2. CASE Len(c) = n
    <2>1. c # <<>>
      BY <1>2, EmptySeq
    <2>2. /\ Tail(c) \in Seq(R)
          /\ Len(Tail(c)) = Len(c) - 1
          /\ \A j \in 1..Len(Tail(c)) : Tail(c)[j] = c[j + 1]
      BY <2>1, HeadTailProperties
    <2>3. LruRoom(c, n) = Tail(c)
      BY <1>2 DEF LruRoom
    <2> QED BY <1>1, <1>2, <2>2, <2>3
  <1>3. CASE Len(c) # n
    <2>1. LruRoom(c, n) = c
      BY <1>3 DEF LruRoom
    <2> QED BY <1>1, <1>3, <2>1
  <1> QED BY <1>2, <1>3

\* An insertion returns what making room left, or that with the new record, under a
\* key that was not there, as the most recent one.
LEMMA InsertKeeps ==
    ASSUME NEW R, NEW c \in Seq(R), NEW r \in R, NEW n \in Nat \ {0}, Len(c) <= n
    PROVE  /\ LruInsert(c, r, n) \in Seq(R)
           /\ Len(LruInsert(c, r, n)) <= n
           /\ \/ LruInsert(c, r, n) = LruRoom(c, n)
              \/ /\ Len(LruInsert(c, r, n)) = Len(LruRoom(c, n)) + 1
                 /\ \A j \in 1..Len(LruRoom(c, n)) :
                       /\ LruInsert(c, r, n)[j] = LruRoom(c, n)[j]
                       /\ LruRoom(c, n)[j].key # r.key
                 /\ LruInsert(c, r, n)[Len(LruRoom(c, n)) + 1] = r
  <1> DEFINE room == LruRoom(c, n)
  <1>1. room \in Seq(R) /\ Len(room) \in Nat /\ Len(room) < n /\ DOMAIN room = 1..Len(room)
    BY RoomKeeps, LenProperties
  <1>2. ~(Len(c) > n)
    BY LenProperties
  <1>3. CASE r.key \in LruKeys(room)
    <2>1. LruInsert(c, r, n) = room
      BY <1>2, <1>3 DEF LruInsert
    <2> QED BY <1>1, <2>1
  <1>4. CASE r.key \notin LruKeys(room)
    <2>1. LruInsert(c, r, n) = Append(room, r)
      BY <1>2, <1>4 DEF LruInsert
    <2>2. \A j \in 1..Len(room) : room[j].key # r.key
      BY <1>1, <1>4 DEF LruKeys
    <2> HIDE DEF room
    <2>3. /\ Append(room, r) \in Seq(R)
          /\ Len(Append(room, r)) = Len(room) + 1
          /\ \A j \in 1..Len(room) : Append(room, r)[j] = room[j]
          /\ Append(room, r)[Len(room) + 1] = r
      BY <1>1
    <2>4. Len(room) + 1 <= n
      BY <1>1
    <2> QED BY <2>1, <2>2, <2>3, <2>4 DEF room
  <1> QED BY <1>3, <1>4

\* The keys of the records are pairwise distinct: the cache is a map.
Distinct(c) == \A j, k \in DOMAIN c : c[j].key = c[k].key => j = k

\* A touch neither makes up a record nor repeats a key.
LEMMA TouchRecords ==
    ASSUME NEW R, NEW c \in Seq(R), NEW i \in DOMAIN c
    PROVE  /\ \A j \in DOMAIN LruTouchAt(c, i) : \E k \in DOMAIN c : LruTouchAt(c, i)[j] = c[k]
           /\ Distinct(c) => Distinct(LruTouchAt(c, i))
  <1> DEFINE t == LruTouchAt(c, i)
             n == Len(c)
             src(j) == IF j < i THEN j ELSE IF j < n THEN j + 1 ELSE i
  <1>1. n \in Nat /\ DOMAIN c = 1..n /\ DOMAIN t = 1..n /\ i \in 1..n
    BY TouchKeeps, LenProperties
  <1>2. \A j \in 1..n : t[j] = c[src(j)]
    BY TouchKeeps
  <1> HIDE DEF t, n
  <1>3. \A j \in 1..n : src(j) \in 1..n
    BY <1>1
  <1>4. \A j, k \in 1..n : src(j) = src(k) => j = k
    <2> SUFFICES ASSUME NEW j \in 1..n, NEW k \in 1..n, src(j) = src(k)
                 PROVE  j = k
      OBVIOUS
    <2>1. CASE j < i
      BY <1>1, <2>1
    <2>2. CASE ~(j < i) /\ j < n
      <3>1. src(j) = j + 1
        BY <2>2
      <3>2. k < i => src(k) = k
        OBVIOUS
      <3>3. ~(k < i) /\ k < n => src(k) = k + 1
        OBVIOUS
      <3>4. ~(k < i) /\ ~(k < n) => src(k) = i
        OBVIOUS
      <3> HIDE DEF src
      <3> QED BY <1>1, <2>2, <3>1, <3>2, <3>3, <3>4
    <2>3. CASE ~(j < i) /\ ~(j < n)
      BY <1>1, <2>3
    <2> QED BY <2>1, <2>2, <2>3
  <1> HIDE DEF src
  <1>5. Distinct(c) => Distinct(t)
    BY <1>1, <1>2, <1>3, <1>4 DEF Distinct
  <1>6. \A j \in DOMAIN t : \E k \in DOMAIN c : t[j] = c[k]
    BY <1>1, <1>2, <1>3
  <1> QED BY <1>5, <1>6 DEF t

\* Making room neither makes up a record nor repeats a key.
LEMMA RoomRecords ==
    ASSUME NEW R, NEW c \in Seq(R), NEW n \in Nat \ {0}, Len(c) <= n
    PROVE  /\ \A j \in DOMAIN LruRoom(c, n) : \E k \in DOMAIN c : LruRoom(c, n)[j] = c[k]
           /\ Distinct(c) => Distinct(LruRoom(c, n))
  <1> DEFINE room == LruRoom(c, n)
  <1>1. /\ Len(c) \in Nat
        /\ DOMAIN c = 1..Len(c)
        /\ DOMAIN room = 1..Len(room)
        /\ \/ room = c
           \/ Len(room) = Len(c) - 1 /\ \A j \in 1..(Len(c) - 1) : room[j] = c[j + 1]
    BY RoomKeeps, LenProperties
  <1> HIDE DEF room
  <1>2. CASE room = c
    BY <1>2 DEF room
  <1>3. CASE /\ Len(room) = Len(c) - 1
             /\ \A j \in 1..(Len(c) - 1) : room[j] = c[j + 1]
    <2>1. Len(c) \in Nat /\ DOMAIN c = 1..Len(c) /\ DOMAIN room = 1..(Len(c) - 1)
      BY <1>1, <1>3
    <2>2. /\ \A j \in 1..(Len(c) - 1) : j + 1 \in 1..Len(c)
          /\ \A j, k \in 1..(Len(c) - 1) : j + 1 = k + 1 => j = k
      BY <2>1
    <2>3. ASSUME Distinct(c)
          PROVE  Distinct(room)
      <3> SUFFICES ASSUME NEW j \in 1..(Len(c) - 1), NEW k \in 1..(Len(c) - 1),
                          room[j].key = room[k].key
                   PROVE  j = k
        BY <2>1 DEF Distinct
      <3>1. c[j + 1].key = c[k + 1].key
        BY <1>3
      <3>2. j + 1 = k + 1
        BY <2>1, <2>2, <2>3, <3>1 DEF Distinct
      <3> QED BY <2>2, <3>2
    <2>4. \A j \in DOMAIN room : \E k \in DOMAIN c : room[j] = c[k]
      BY <1>3, <2>1, <2>2
    <2> QED BY <2>3, <2>4 DEF room
  <1> QED BY <1>1, <1>2, <1>3

\* An insertion makes up no record but the new one and repeats no key.
LEMMA InsertRecords ==
    ASSUME NEW R, NEW c \in Seq(R), NEW r \in R, NEW n \in Nat \ {0}, Len(c) <= n
    PROVE  /\ \A j \in DOMAIN LruInsert(c, r, n) :
                 \/ LruInsert(c, r, n)[j] = r
                 \/ \E k \in DOMAIN c : LruInsert(c, r, n)[j] = c[k]
           /\ Distinct(c) => Distinct(LruInsert(c, r, n))
  <1> DEFINE room == LruRoom(c, n)
             x    == LruInsert(c, r, n)
  <1>1. /\ room \in Seq(R)
        /\ Len(room) \in Nat
        /\ DOMAIN room = 1..Len(room)
        /\ \A j \in DOMAIN room : \E k \in DOMAIN c : room[j] = c[k]
        /\ Distinct(c) => Distinct(room)
    BY RoomKeeps, RoomRecords, LenProperties
  <1>2. /\ DOMAIN x = 1..Len(x)
        /\ \/ x = room
           \/ /\ Len(x) = Len(room) + 1
              /\ \A j \in 1..Len(room) : x[j] = room[j] /\ room[j].key # r.key
              /\ x[Len(room) + 1] = r
    BY InsertKeeps, LenProperties
  <1> HIDE DEF room, x
  <1>3. CASE x = room
    BY <1>1, <1>3 DEF x
  <1>4. CASE /\ Len(x) = Len(room) + 1
             /\ \A j \in 1..Len(room) : x[j] = room[j] /\ room[j].key # r.key
             /\ x[Len(room) + 1] = r
    <2>1. DOMAIN x = 1..(Len(room) + 1)
      BY <1>2, <1>4
    <2>2. \A j \in DOMAIN x : x[j] = r \/ \E k \in DOMAIN c : x[j] = c[k]
      BY <1>1, <1>4, <2>1
    <2>3. ASSUME Distinct(room), NEW j \in DOMAIN x, NEW k \in DOMAIN x, x[j].key = x[k].key
          PROVE  j = k
      <3>1. CASE j \in 1..Len(room) /\ k \in 1..Len(room)
        BY <1>1, <1>4, <2>3, <3>1 DEF Distinct
      <3>2. CASE j = Len(room) + 1 \/ k = Len(room) + 1
        BY <1>1, <1>4, <2>1, <2>3, <3>2
      <3> QED BY <1>1, <2>1, <3>1, <3>2
    <2>4. Distinct(c) => Distinct(x)
      BY <1>1, <2>3 DEF Distinct
    <2> QED BY <2>2, <2>4 DEF x
  <1> QED BY <1>2, <1>3, <1>4

\* With room for two records or more, neither operation loses the most recent one.
LEMMA MostRecentStays ==
    ASSUME NEW R, NEW c \in Seq(R), c # <<>>,
           NEW r \in R, NEW n \in Nat \ {0}, Len(c) <= n, n > 1
    PROVE  c[Len(c)].key \in LruKeys(LruInsert(c, r, n))
  <1> DEFINE room == LruRoom(c, n)
             x    == LruInsert(c, r, n)
             z    == Len(room)
  <1>1. Len(c) \in Nat \ {0} /\ Len(c) \in 1..Len(c)
    BY EmptySeq, LenProperties
  <1>2. z \in Nat \ {0} /\ room[z] = c[Len(c)] /\ room \in Seq(R)
    <2>1. CASE room = c
      BY <1>1, <2>1
    <2>2. CASE /\ Len(c) = n
               /\ z = Len(c) - 1
               /\ \A j \in 1..(Len(c) - 1) : room[j] = c[j + 1]
      BY <1>1, <2>2, RoomKeeps
    <2> QED BY RoomKeeps, <2>1, <2>2
  <1>3. /\ DOMAIN x = 1..Len(x)
        /\ \/ x = room
           \/ Len(x) = z + 1 /\ \A j \in 1..z : x[j] = room[j]
    BY InsertKeeps, LenProperties
  <1> HIDE DEF room, x
  <1> HIDE DEF z
  <1>4. z \in DOMAIN x /\ x[z] = c[Len(c)]
    <2>1. CASE x = room
      BY <1>2, <1>3, <2>1, LenProperties DEF z
    <2>2. CASE Len(x) = z + 1 /\ \A j \in 1..z : x[j] = room[j]
      <3>1. z \in 1..z /\ z \in 1..(z + 1)
        BY <1>2
      <3> QED BY <1>2, <1>3, <2>2, <3>1
    <2> QED BY <1>3, <2>1, <2>2
  <1> QED BY <1>4 DEF LruKeys, x

\* A touch loses no record at all.
LEMMA TouchLosesNothing ==
    ASSUME NEW R, NEW c \in Seq(R), NEW i \in DOMAIN c
    PROVE  LruKeys(LruTouchAt(c, i)) = LruKeys(c)
  <1> DEFINE t == LruTouchAt(c, i)
  <1>1. /\ Len(c) \in Nat
        /\ DOMAIN c = 1..Len(c)
        /\ DOMAIN t = 1..Len(c)
        /\ i \in 1..Len(c)
        /\ \A j \in 1..Len(c) :
              t[j] = IF j < i THEN c[j] ELSE IF j < Len(c) THEN c[j + 1] ELSE c[i]
    BY TouchKeeps, LenProperties
  <1> HIDE DEF t
  <1>2. \A j \in 1..Len(c) : \E k \in 1..Len(c) : t[j] = c[k]
    BY TouchRecords, <1>1 DEF t
  <1>3. ASSUME NEW k \in 1..Len(c)
        PROVE  \E j \in 1..Len(c) : t[j] = c[k]
    <2>1. CASE k < i
      BY <1>1, <2>1
    <2>2. CASE k = i
      <3>1. t[Len(c)] = c[i] /\ Len(c) \in 1..Len(c)
        BY <1>1
      <3> QED BY <2>2, <3>1
    <2>3. CASE k > i
      <3>1. t[k - 1] = c[k] /\ k - 1 \in 1..Len(c)
        BY <1>1, <2>3
      <3> QED BY <3>1
    <2> QED BY <1>1, <2>1, <2>2, <2>3
  <1>4. LruKeys(t) = {t[j].key : j \in 1..Len(c)} /\ LruKeys(c) = {c[j].key : j \in 1..Len(c)}
    BY <1>1 DEF LruKeys
  <1>5. LruKeys(t) \subseteq LruKeys(c)
    BY <1>2, <1>4
  <1>6. LruKeys(c) \subseteq LruKeys(t)
    BY <1>3, <1>4
  <1> QED BY <1>5, <1>6 DEF t

---------------------------------------------------------------------------
(* The invariants of Tlb *)

\* A valid entry has a page size, or the tlbwe that wrote it never came back.
ValidSized == ~stuck => \A s \in Slots : tlb[s].valid => tlb[s].ps # 0

\* The entry behind a cached record is aligned to its page size.
CacheAligned ==
    ~stuck => \A k \in DOMAIN cache : \E s \in Slots :
                  Backs(tlb[s], cache[k]) /\ PageBase(tlb[s].ea, tlb[s].ps) = tlb[s].ea

Inv == TypeOK /\ CacheIsMap /\ ValidSized /\ CacheAligned

----------------------------------------------------------------------------
(* Page arithmetic. *)

\* The base of a page is a multiple of its size, at most a page below the address.
LEMMA PageBaseBounds ==
    ASSUME NEW ea \in Nat, NEW ps \in Nat
    PROVE  /\ PageBase(ea, ps) \in Nat
           /\ ps # 0 => PageBase(ea, ps) <= ea /\ ea < PageBase(ea, ps) + ps
  <1>1. CASE ps = 0
    BY <1>1 DEF PageBase
  <1>2. CASE ps # 0
    <2>1. ea = ps * (ea \div ps) + (ea % ps) /\ ea % ps \in 0..(ps - 1) /\ ea \div ps \in Nat
      BY <1>2
    <2> DEFINE d == ps * (ea \div ps)
    <2>2. d \in Nat
      BY <2>1
    <2>3. ea - (ea % ps) = d
      BY <2>1
    <2> QED BY <1>2, <2>1, <2>2, <2>3 DEF PageBase
  <1> QED BY <1>1, <1>2

\* An aligned page is the page of every address in it.
LEMMA PageBaseInside ==
    ASSUME NEW ea \in Nat, NEW ps \in Nat, ps # 0, NEW base \in Nat,
           PageBase(base, ps) = base, base <= ea, ea < base + ps
    PROVE  PageBase(ea, ps) = base
  <1>1. base % ps = 0
    BY DEF PageBase
  <1>2. base = ps * (base \div ps) /\ base \div ps \in Nat
    BY <1>1
  <1>3. \A d \in Nat, r \in 0..(ps - 1) : (ps * d + r) % ps = r
    OBVIOUS
  <1>4. ea = ps * (base \div ps) + (ea - base) /\ ea - base \in 0..(ps - 1)
    BY <1>2
  <1>5. ea % ps = ea - base
    BY <1>2, <1>3, <1>4
  <1> QED BY <1>5 DEF PageBase

\* The base of a page is aligned.
LEMMA PageBaseAligned ==
    ASSUME NEW ea \in Nat, NEW ps \in Nat
    PROVE  PageBase(PageBase(ea, ps), ps) = PageBase(ea, ps)
  <1>1. CASE ps = 0
    BY <1>1 DEF PageBase
  <1>2. CASE ps # 0
    <2>1. ea = ps * (ea \div ps) + (ea % ps) /\ ea % ps \in Nat /\ ea \div ps \in Nat
      BY <1>2
    <2>2. ea - (ea % ps) = ps * (ea \div ps)
      BY <2>1
    <2>3. \A d \in Nat : (ps * d) % ps = 0
      BY <1>2
    <2>4. (ea - (ea % ps)) % ps = 0
      BY <2>1, <2>2, <2>3
    <2> QED BY <1>2, <2>1, <2>4 DEF PageBase
  <1> QED BY <1>1, <1>2

----------------------------------------------------------------------------
(* The inductive invariant. *)

\* What the constants promise of a request, an operand and a table entry.
LEMMA InputTypes ==
    /\ \A q \in Request : /\ q.ea \in Nat /\ q.pr \in BOOLEAN /\ q.as \in Spaces /\ q.rwx \in Rwx
                          /\ \A i \in 0..2 : q.pids[i] \in Pids
    /\ \A mas \in MasValues : mas \in MasOperand /\ PageSize[mas.tsize] \in Nat
    /\ \A ea \in Addrs : ea \in Nat
    /\ \A m \in DOMAIN Masks : Masks[m] \in Nat /\ Masks[m] # 0
  <1>1. \A q \in Request : /\ q.ea \in Nat /\ q.pr \in BOOLEAN /\ q.as \in Spaces
                            /\ q.rwx \in Rwx /\ \A i \in 0..2 : q.pids[i] \in Pids
    BY InputAssumption DEF Request
  <1>2. \A mas \in MasValues : mas \in MasOperand /\ PageSize[mas.tsize] \in Nat
    BY InputAssumption, TableAssumption DEF MasOperand
  <1>3. \A ea \in Addrs : ea \in Nat
    BY InputAssumption
  <1>4. \A m \in DOMAIN Masks : Masks[m] \in Nat \ {0}
    BY TableAssumption, ElementOfSeq, LenProperties
  <1> QED BY <1>1, <1>2, <1>3, <1>4

\* The initial states satisfy the invariant.
LEMMA InvInit == Init => Inv
  <1> SUFFICES ASSUME Init PROVE Inv
    OBVIOUS
  <1>1. BootEntry \in Entry /\ BootEntry.ps # 0
    BY ArrayAssumption, InputAssumption DEF BootEntry, Entry, Perms, Spaces
  <1>2. \A g \in Garbage : /\ g \in Entry
                           /\ [g EXCEPT !.ps = MinPg] \in Entry
                           /\ ~g.valid
    BY ArrayAssumption, InputAssumption DEF Entry
  <1>3. cache = <<>> /\ stuck = FALSE /\ DOMAIN cache = {}
    BY DEF Init
  <1>4. TypeOK
    <2> DEFINE held == Garbage \cup {BootEntry} \cup {[g EXCEPT !.ps = MinPg] : g \in Garbage}
    <2>1. tlb \in [Slots -> held]
      BY DEF Init
    <2>2. held \subseteq Entry
      BY <1>1, <1>2
    <2> HIDE DEF held
    <2>3. tlb \in [Slots -> Entry]
      BY <2>1, <2>2
    <2>4. cache \in Seq(CacheRecord) /\ stuck \in BOOLEAN
      BY <1>3, EmptySeq
    <2> QED BY <2>3, <2>4 DEF TypeOK
  <1>5. CacheIsMap
    BY <1>3, ArrayAssumption DEF CacheIsMap
  <1>6. ValidSized
    BY <1>1, <1>2 DEF ValidSized, Init, Slots
  <1>7. CacheAligned
    BY <1>3 DEF CacheAligned
  <1> QED BY <1>4, <1>5, <1>6, <1>7 DEF Inv

\* A step that leaves the arrays alone and caches only records it held before keeps
\* every record backed.
LEMMA OldRecordsBacked ==
    ASSUME CacheAligned, UNCHANGED <<tlb, stuck>>,
           \A j \in DOMAIN cache' : \E k \in DOMAIN cache : cache'[j] = cache[k]
    PROVE  CacheAligned'
  BY DEF CacheAligned, Backs

\* The fast path of xlate keeps the invariant: it only reorders the records.
LEMMA FastKeepsInv ==
    ASSUME Inv, NEW q \in Request, NEW i \in 0..2, XlateFast(q, i)
    PROVE  Inv'
  <1>1. PICK k \in DOMAIN cache : cache' = LruTouchAt(cache, k)
    BY DEF XlateFast
  <1>2. cache \in Seq(CacheRecord) /\ Len(cache) <= Capacity /\ Distinct(cache)
    BY DEF Inv, TypeOK, CacheIsMap, Distinct
  <1>3. UNCHANGED <<tlb, stuck>>
    BY DEF XlateFast
  <1>4. /\ cache' \in Seq(CacheRecord)
        /\ Len(cache') = Len(cache)
        /\ \A j \in DOMAIN cache' : \E l \in DOMAIN cache : cache'[j] = cache[l]
        /\ Distinct(cache')
    BY <1>1, <1>2, TouchKeeps, TouchRecords
  <1>5. TypeOK' /\ CacheIsMap'
    BY <1>2, <1>3, <1>4 DEF Inv, TypeOK, CacheIsMap, Distinct
  <1>6. ValidSized'
    BY <1>3 DEF Inv, ValidSized
  <1>7. CacheAligned'
    BY <1>3, <1>4, OldRecordsBacked DEF Inv
  <1> QED BY <1>5, <1>6, <1>7 DEF Inv

\* What xlate caches for a matching entry that permits the access is backed by it.
LEMMA NewRecordBacked ==
    ASSUME TypeOK, NEW q \in Request, NEW pid \in Pids, NEW s \in Matches(q, pid),
           Need(q.pr, q.rwx) \subseteq tlb[s].permis,
           NEW r, r = [key  |-> ToVirt(q, pid, PageBase(q.ea, tlb[s].ps)),
                       val  |-> tlb[s].ra,
                       info |-> tlb[s].le]
    PROVE  /\ r \in CacheRecord
           /\ s \in Slots
           /\ Backs(tlb[s], r)
           /\ PageBase(tlb[s].ea, tlb[s].ps) = tlb[s].ea
  <1>1. /\ s \in Slots
        /\ tlb[s] \in Entry
        /\ tlb[s].valid
        /\ tlb[s].ea = PageBase(q.ea, tlb[s].ps)
        /\ tlb[s].tid = pid
        /\ tlb[s].ts = q.as
    BY DEF Matches, TypeOK
  <1>2. tlb[s].ra \in Nat /\ tlb[s].ps \in Nat /\ tlb[s].le \in BOOLEAN
    BY <1>1 DEF Entry
  <1>3. q.ea \in Nat /\ q.pr \in BOOLEAN /\ q.as \in Spaces /\ q.rwx \in Rwx
    BY InputTypes
  <1>4. PageBase(q.ea, tlb[s].ps) \in Nat
    BY <1>2, <1>3, PageBaseBounds
  <1>5. r \in CacheRecord
    BY <1>2, <1>3, <1>4 DEF CacheRecord, CacheKey, ToVirt
  <1>6. Backs(tlb[s], r)
    BY <1>1 DEF Backs, ToVirt
  <1>7. PageBase(tlb[s].ea, tlb[s].ps) = tlb[s].ea
    BY <1>1, <1>2, <1>3, PageBaseAligned
  <1> QED BY <1>1, <1>5, <1>6, <1>7

\* The slow path of xlate keeps the invariant.
LEMMA SlowKeepsInv ==
    ASSUME Inv, NEW q \in Request, NEW i \in 0..2, XlateSlow(q, i)
    PROVE  Inv'
  <1>1. PICK s \in Slots :
            /\ IsFirst(s, Matches(q, q.pids[i]))
            /\ Need(q.pr, q.rwx) \subseteq tlb[s].permis
            /\ cache' = LruInsert(cache,
                            [key  |-> ToVirt(q, q.pids[i], PageBase(q.ea, tlb[s].ps)),
                             val  |-> tlb[s].ra,
                             info |-> tlb[s].le], Capacity)
    BY DEF XlateSlow
  <1> DEFINE r == [key  |-> ToVirt(q, q.pids[i], PageBase(q.ea, tlb[s].ps)),
                   val  |-> tlb[s].ra,
                   info |-> tlb[s].le]
  <1>2. UNCHANGED <<tlb, stuck>>
    BY DEF XlateSlow
  <1>3. s \in Matches(q, q.pids[i]) /\ q.pids[i] \in Pids
    BY <1>1, InputTypes DEF IsFirst
  <1>4. /\ r \in CacheRecord
        /\ Backs(tlb[s], r)
        /\ PageBase(tlb[s].ea, tlb[s].ps) = tlb[s].ea
    BY <1>1, <1>3, NewRecordBacked DEF Inv
  <1> HIDE DEF r
  <1>5. cache' = LruInsert(cache, r, Capacity)
    BY <1>1 DEF r
  <1>6. cache \in Seq(CacheRecord) /\ Len(cache) <= Capacity /\ Distinct(cache)
    BY DEF Inv, TypeOK, CacheIsMap, Distinct
  <1>7. Capacity \in Nat \ {0}
    BY ArrayAssumption
  <1>8. /\ cache' \in Seq(CacheRecord)
        /\ Len(cache') <= Capacity
        /\ \A j \in DOMAIN cache' : cache'[j] = r \/ \E k \in DOMAIN cache : cache'[j] = cache[k]
        /\ Distinct(cache')
    BY <1>4, <1>5, <1>6, <1>7, InsertKeeps, InsertRecords
  <1>9. TypeOK' /\ CacheIsMap'
    BY <1>2, <1>8 DEF Inv, TypeOK, CacheIsMap, Distinct
  <1>10. ValidSized'
    BY <1>2 DEF Inv, ValidSized
  <1>11. CacheAligned'
    <2> SUFFICES ASSUME ~stuck, NEW j \in DOMAIN cache'
                 PROVE  \E t \in Slots : /\ Backs(tlb[t], cache'[j])
                                         /\ PageBase(tlb[t].ea, tlb[t].ps) = tlb[t].ea
      BY <1>2 DEF CacheAligned, Backs
    <2>1. CASE cache'[j] = r
      BY <1>4, <2>1
    <2>2. CASE \E k \in DOMAIN cache : cache'[j] = cache[k]
      BY <2>2 DEF Inv, CacheAligned
    <2> QED BY <1>8, <2>1, <2>2
  <1> QED BY <1>9, <1>10, <1>11 DEF Inv

\* What tlbwe writes has the type of an entry.
LEMMA WrittenTypes ==
    ASSUME NEW e \in Entry, NEW mas \in MasValues
    PROVE  /\ HeadWritten(e, mas) \in Entry
           /\ Written(e, mas) \in Entry
           /\ Written(e, mas).ps = PageSize[mas.tsize]
  <1>1. /\ mas.valid \in BOOLEAN /\ mas.iprot \in BOOLEAN /\ mas.tid \in Pids
        /\ mas.ts \in Spaces /\ mas.epn \in Nat /\ mas.rpn \in Nat
        /\ mas.permis \in SUBSET Perms /\ mas.le \in BOOLEAN
        /\ PageSize[mas.tsize] \in Nat
    BY InputTypes DEF MasOperand
  <1>2. mas.epn * MinPg \in Nat /\ mas.rpn * MinPg \in Nat
    BY <1>1, ArrayAssumption
  <1>3. HeadWritten(e, mas) \in Entry
    BY <1>1, <1>2 DEF HeadWritten, Entry
  <1> DEFINE h == HeadWritten(e, mas)
  <1>4. Written(e, mas) = [h EXCEPT !.le = mas.le, !.ra = mas.rpn * MinPg,
                                    !.permis = mas.permis, !.ps = PageSize[mas.tsize]]
    BY DEF Written
  <1> HIDE DEF h
  <1>5. h \in Entry
    BY <1>3 DEF h
  <1>6. Written(e, mas) \in Entry /\ Written(e, mas).ps = PageSize[mas.tsize]
    BY <1>1, <1>2, <1>4, <1>5 DEF Entry
  <1> QED BY <1>3, <1>6

\* An action that only marks entries invalid and flushes the cache keeps the invariant.
LEMMA FlushKeepsInv ==
    ASSUME Inv, cache' = <<>>, UNCHANGED stuck,
           tlb' \in [Slots -> Entry],
           \A s \in Slots : tlb'[s].ps = tlb[s].ps /\ (tlb'[s].valid => tlb[s].valid)
    PROVE  Inv'
  <1>1. cache' \in Seq(CacheRecord) /\ Len(cache') = 0 /\ DOMAIN cache' = {}
    BY EmptySeq
  <1>2. TypeOK'
    BY <1>1 DEF Inv, TypeOK
  <1>3. CacheIsMap'
    BY <1>1, ArrayAssumption DEF CacheIsMap
  <1>4. ValidSized'
    BY DEF Inv, ValidSized
  <1>5. CacheAligned'
    BY <1>1 DEF CacheAligned
  <1> QED BY <1>2, <1>3, <1>4, <1>5 DEF Inv

\* Marking an entry invalid changes nothing else of it.
LEMMA InvalidateEntry ==
    ASSUME NEW e \in Entry
    PROVE  Invalidate(e) \in Entry /\ Invalidate(e).ps = e.ps /\ ~Invalidate(e).valid
  BY DEF Invalidate, Entry

\* tlbivax of a whole array keeps the invariant.
LEMMA AllKeepsInv ==
    ASSUME Inv, NEW tlbsel \in {0, 1}, TlbivaxAll(tlbsel)
    PROVE  Inv'
  <1>1. tlb \in [Slots -> Entry]
    BY DEF Inv, TypeOK
  <1>2. /\ cache' = <<>>
        /\ UNCHANGED stuck
        /\ DOMAIN tlb' = Slots
        /\ tlb' = [s \in Slots |-> tlb'[s]]
        /\ \A s \in Slots : tlb'[s] = Invalidate(tlb[s]) \/ tlb'[s] = tlb[s]
    BY DEF TlbivaxAll
  <1>3. \A s \in Slots : /\ tlb'[s] \in Entry
                         /\ tlb'[s].ps = tlb[s].ps
                         /\ tlb'[s].valid => tlb[s].valid
    BY <1>1, <1>2, InvalidateEntry
  <1>4. tlb' \in [Slots -> Entry]
    BY <1>2, <1>3
  <1> QED BY <1>2, <1>3, <1>4, FlushKeepsInv

\* tlbivax by address keeps the invariant.
LEMMA EaKeepsInv ==
    ASSUME Inv, NEW ea \in Addrs, TlbivaxEa(ea)
    PROVE  Inv'
  <1>1. tlb \in [Slots -> Entry]
    BY DEF Inv, TypeOK
  <1>2. cache' = <<>> /\ UNCHANGED stuck
    BY DEF TlbivaxEa
  <1>3. CASE UNCHANGED tlb
    BY <1>1, <1>2, <1>3, FlushKeepsInv
  <1>4. CASE \E s \in Slots : tlb' = [tlb EXCEPT ![s] = Invalidate(@)]
    <2>1. PICK s \in Slots : tlb' = [tlb EXCEPT ![s] = Invalidate(@)]
      BY <1>4
    <2>2. tlb' \in [Slots -> Entry]
      BY <1>1, <2>1, InvalidateEntry
    <2>3. \A t \in Slots : tlb'[t] = Invalidate(tlb[t]) \/ tlb'[t] = tlb[t]
      BY <1>1, <2>1
    <2>4. \A t \in Slots : tlb'[t].ps = tlb[t].ps /\ (tlb'[t].valid => tlb[t].valid)
      BY <1>1, <2>3, InvalidateEntry
    <2> QED BY <1>2, <2>2, <2>4, FlushKeepsInv
  <1> QED BY <1>3, <1>4 DEF TlbivaxEa

\* A tlbwe that comes back keeps the invariant: it flushes the cache.
LEMMA TlbweKeepsInv ==
    ASSUME Inv, NEW mas \in MasValues, Tlbwe(mas)
    PROVE  Inv'
  <1> DEFINE z == MasSlot(mas)
  <1>1. /\ tlb \in [Slots -> Entry]
        /\ z \in Slots
        /\ PageSize[mas.tsize] # 0
        /\ tlb' = [tlb EXCEPT ![z] = Written(@, mas)]
        /\ cache' = <<>>
        /\ UNCHANGED stuck
    BY DEF Inv, TypeOK, Tlbwe
  <1> HIDE DEF z
  <1>2. /\ tlb' \in [Slots -> Entry]
        /\ tlb'[z].ps # 0
        /\ \A s \in Slots : s # z => tlb'[s] = tlb[s]
    <2>1. tlb'[z] = Written(tlb[z], mas) /\ tlb[z] \in Entry
      BY <1>1
    <2>2. tlb'[z] \in Entry /\ tlb'[z].ps = PageSize[mas.tsize]
      BY <2>1, WrittenTypes
    <2> QED BY <1>1, <2>2
  <1>3. cache' \in Seq(CacheRecord) /\ Len(cache') = 0 /\ DOMAIN cache' = {}
    BY <1>1, EmptySeq
  <1>4. TypeOK'
    BY <1>1, <1>2, <1>3 DEF Inv, TypeOK
  <1>5. CacheIsMap'
    BY <1>3, ArrayAssumption DEF CacheIsMap
  <1>6. ValidSized'
    BY <1>1, <1>2 DEF Inv, ValidSized
  <1>7. CacheAligned'
    BY <1>3 DEF CacheAligned
  <1> QED BY <1>4, <1>5, <1>6, <1>7 DEF Inv

\* A tlbwe that never comes back keeps it too: nothing reads the half-written entry.
LEMMA HangsKeepsInv ==
    ASSUME Inv, NEW mas \in MasValues, TlbweHangs(mas)
    PROVE  Inv'
  <1> DEFINE z == MasSlot(mas)
  <1>1. /\ tlb \in [Slots -> Entry]
        /\ z \in Slots
        /\ tlb' = [tlb EXCEPT ![z] = HeadWritten(@, mas)]
        /\ stuck' = TRUE
        /\ UNCHANGED cache
    BY DEF Inv, TypeOK, TlbweHangs
  <1> HIDE DEF z
  <1>2. /\ tlb' \in [Slots -> Entry]
        /\ \A s \in Slots : s # z => tlb'[s] = tlb[s]
    <2>1. HeadWritten(tlb[z], mas) \in Entry
      BY <1>1, WrittenTypes
    <2> QED BY <1>1, <2>1
  <1>3. TypeOK' /\ CacheIsMap' /\ ValidSized' /\ CacheAligned'
    BY <1>1, <1>2 DEF Inv, TypeOK, CacheIsMap, ValidSized, CacheAligned
  <1> QED BY <1>3 DEF Inv

\* A step that changes no variable keeps the invariant.
LEMMA StutterKeepsInv ==
    ASSUME Inv, UNCHANGED vars
    PROVE  Inv'
  BY DEF vars, Inv, TypeOK, CacheIsMap, ValidSized, CacheAligned, Backs

\* Every step of the MMU keeps the invariant.
LEMMA InvStep == Inv /\ [Next]_vars => Inv'
  <1> SUFFICES ASSUME Inv, [Next]_vars PROVE Inv'
    OBVIOUS
  <1>1. CASE \E q \in Request : \E i \in 0..2 :
                XlateFast(q, i) \/ XlateSlow(q, i) \/ XlateDenied(q, i)
    <2>1. PICK q \in Request, i \in 0..2 :
              XlateFast(q, i) \/ XlateSlow(q, i) \/ XlateDenied(q, i)
      BY <1>1
    <2>2. CASE XlateFast(q, i)
      BY <2>2, FastKeepsInv
    <2>3. CASE XlateSlow(q, i)
      BY <2>3, SlowKeepsInv
    <2>4. CASE XlateDenied(q, i)
      BY <2>4, StutterKeepsInv DEF XlateDenied
    <2> QED BY <2>1, <2>2, <2>3, <2>4
  <1>2. CASE \E q \in Request : XlateMiss(q)
    BY <1>2, StutterKeepsInv DEF XlateMiss
  <1>3. CASE \E mas \in MasValues : Tlbwe(mas) \/ TlbweRefused(mas) \/ TlbweHangs(mas)
    <2>1. PICK mas \in MasValues : Tlbwe(mas) \/ TlbweRefused(mas) \/ TlbweHangs(mas)
      BY <1>3
    <2>2. CASE Tlbwe(mas)
      BY <2>2, TlbweKeepsInv
    <2>3. CASE TlbweRefused(mas)
      BY <2>3, StutterKeepsInv DEF TlbweRefused
    <2>4. CASE TlbweHangs(mas)
      BY <2>4, HangsKeepsInv
    <2> QED BY <2>1, <2>2, <2>3, <2>4
  <1>4. CASE \E tlbsel \in {0, 1} : TlbivaxAll(tlbsel)
    BY <1>4, AllKeepsInv
  <1>5. CASE \E ea \in Addrs : TlbivaxEa(ea)
    BY <1>5, EaKeepsInv
  <1>6. CASE Spin \/ UNCHANGED vars
    BY <1>6, StutterKeepsInv DEF Spin
  <1> QED BY <1>1, <1>2, <1>3, <1>4, <1>5, <1>6 DEF Next

\* The invariant holds in every state of every behaviour of the MMU.
THEOREM Invariance == Spec => []Inv
  BY InvInit, InvStep, PTL DEF Spec

\* The variables keep their types.
THEOREM TypeCorrect == Spec => []TypeOK
  <1>1. Inv => TypeOK
    BY DEF Inv
  <1> QED BY <1>1, Invariance, PTL

\* m_tlb_cache stays a map within its capacity.
THEOREM CacheStaysMap == Spec => []CacheIsMap
  <1>1. Inv => CacheIsMap
    BY DEF Inv
  <1> QED BY <1>1, Invariance, PTL

\* No translation in m_tlb_cache is stale.
THEOREM CacheStaysBacked == Spec => []CacheBacked
  <1>1. Inv => CacheBacked
    BY DEF Inv, CacheAligned, CacheBacked
  <1> QED BY <1>1, Invariance, PTL

\* A fast answer under a mask no larger than the page of the entry behind the record
\* is an answer of the slow search.
LEMMA FastAgrees == Inv => FastTranslationRight
  <1> SUFFICES ASSUME Inv, ~stuck, NEW q \in Request, NEW pid \in Pids,
                      NEW m \in DOMAIN Masks, NEW k \in DOMAIN cache,
                      cache[k].key = KeyAt(q, pid, m)
               PROVE  \E s \in Slots :
                          /\ Backs(tlb[s], cache[k])
                          /\ Masks[m] <= tlb[s].ps =>
                                /\ s \in Matches(q, pid)
                                /\ Need(q.pr, q.rwx) \subseteq tlb[s].permis
                                /\ FastRa(q, cache[k], m) = tlb[s].ra + (q.ea - tlb[s].ea)
    BY DEF FastTranslationRight
  <1>1. PICK s \in Slots : /\ Backs(tlb[s], cache[k])
                           /\ PageBase(tlb[s].ea, tlb[s].ps) = tlb[s].ea
    BY DEF Inv, CacheAligned
  <1> DEFINE page == PageBase(q.ea, Masks[m])
  <1>2. /\ cache[k].key.pr = q.pr
        /\ cache[k].key.rwx = q.rwx
        /\ cache[k].key.as = q.as
        /\ cache[k].key.pid = pid
        /\ cache[k].key.page = page
    <2>1. m <= Len(Masks)
      BY TableAssumption, LenProperties
    <2> QED BY <2>1 DEF KeyAt, Kept, ToVirt
  <1>3. /\ tlb[s].valid
        /\ tlb[s].ea = page
        /\ tlb[s].tid = pid
        /\ tlb[s].ts = q.as
        /\ Need(q.pr, q.rwx) \subseteq tlb[s].permis
        /\ tlb[s].ra = cache[k].val
    BY <1>1, <1>2 DEF Backs
  <1>4. tlb[s].ps \in Nat /\ tlb[s].ps # 0 /\ tlb[s].ra \in Nat
    BY <1>3 DEF Inv, TypeOK, Entry, ValidSized
  <1>5. q.ea \in Nat /\ Masks[m] \in Nat /\ Masks[m] # 0
    BY InputTypes
  <1>6. page \in Nat /\ page <= q.ea /\ q.ea < page + Masks[m]
    BY <1>5, PageBaseBounds
  <1>7. Kept(q.ea, m) = page
    BY TableAssumption, LenProperties DEF Kept
  <1> HIDE DEF page
  <1>8. ASSUME Masks[m] <= tlb[s].ps
        PROVE  PageBase(q.ea, tlb[s].ps) = page
    <2>1. q.ea < page + tlb[s].ps
      BY <1>4, <1>5, <1>6, <1>8
    <2>2. PageBase(page, tlb[s].ps) = page
      BY <1>1, <1>3
    <2> QED BY <1>4, <1>5, <1>6, <2>1, <2>2, PageBaseInside
  <1>9. FastRa(q, cache[k], m) = tlb[s].ra + (q.ea - tlb[s].ea)
    BY <1>3, <1>4, <1>5, <1>6, <1>7 DEF FastRa
  <1> QED BY <1>1, <1>3, <1>8, <1>9 DEF Matches

\* Under that condition the fast path of xlate is right in every reachable state.
THEOREM FastStaysRight == Spec => []FastTranslationRight
  BY Invariance, FastAgrees, PTL

\* A translation never evicts the most recently used record.
THEOREM RecentStays == Spec => RecentSurvives
  <1>1. ASSUME Inv, Next, Capacity > 1, cache # <<>>, tlb' = tlb, cache' # <<>>
        PROVE  Last(cache).key \in LruKeys(cache')
    <2>1. /\ cache \in Seq(CacheRecord)
          /\ Len(cache) <= Capacity
          /\ Last(cache) = cache[Len(cache)]
          /\ Len(cache) \in DOMAIN cache
          /\ Capacity \in Nat \ {0}
      BY <1>1, ArrayAssumption, EmptySeq, LenProperties DEF Inv, TypeOK, CacheIsMap, Last
    <2>2. Last(cache).key \in LruKeys(cache)
      BY <2>1 DEF LruKeys
    <2>3. ASSUME NEW q \in Request, NEW i \in 0..2, XlateFast(q, i)
          PROVE  Last(cache).key \in LruKeys(cache')
      <3>1. PICK k \in DOMAIN cache : cache' = LruTouchAt(cache, k)
        BY <2>3 DEF XlateFast
      <3> QED BY <2>1, <2>2, <3>1, TouchLosesNothing
    <2>4. ASSUME NEW q \in Request, NEW i \in 0..2, XlateSlow(q, i)
          PROVE  Last(cache).key \in LruKeys(cache')
      <3>1. PICK s \in Slots :
                /\ IsFirst(s, Matches(q, q.pids[i]))
                /\ Need(q.pr, q.rwx) \subseteq tlb[s].permis
                /\ cache' = LruInsert(cache,
                                [key  |-> ToVirt(q, q.pids[i], PageBase(q.ea, tlb[s].ps)),
                                 val  |-> tlb[s].ra,
                                 info |-> tlb[s].le], Capacity)
        BY <2>4 DEF XlateSlow
      <3> DEFINE r == [key  |-> ToVirt(q, q.pids[i], PageBase(q.ea, tlb[s].ps)),
                       val  |-> tlb[s].ra,
                       info |-> tlb[s].le]
      <3>2. s \in Matches(q, q.pids[i]) /\ q.pids[i] \in Pids
        BY <3>1, InputTypes DEF IsFirst
      <3>3. r \in CacheRecord
        BY <1>1, <3>1, <3>2, NewRecordBacked DEF Inv
      <3> HIDE DEF r
      <3>4. cache' = LruInsert(cache, r, Capacity)
        BY <3>1 DEF r
      <3> QED BY <1>1, <2>1, <3>3, <3>4, MostRecentStays
    <2>5. ASSUME cache' = cache
          PROVE  Last(cache).key \in LruKeys(cache')
      BY <2>2, <2>5
    <2>6. \/ \E q \in Request : \E i \in 0..2 : XlateFast(q, i) \/ XlateSlow(q, i)
          \/ cache' = cache
      BY <1>1 DEF Next, vars, XlateDenied, XlateMiss, Tlbwe, TlbweRefused, TlbweHangs,
                  TlbivaxAll, TlbivaxEa, Spin
    <2> QED BY <2>3, <2>4, <2>5, <2>6
  <1>2. Inv /\ [Next]_vars =>
            [Capacity > 1 /\ cache # <<>> /\ tlb' = tlb /\ cache' # <<>> =>
                 Last(cache).key \in LruKeys(cache')]_vars
    BY <1>1
  <1> QED BY <1>2, Invariance, PTL DEF Spec, RecentSurvives

\* No tlbivax touches a protected entry of tlbCam.
THEOREM ProtectedStay == Spec => IprotSurvives
  <1>1. ASSUME Inv, NEW n \in {0, 1}, TlbivaxAll(n), NEW s \in SlotsCam, tlb[s].iprot
        PROVE  tlb'[s] = tlb[s]
    <2>1. s \in Slots /\ s[1] = 1
      BY DEF Slots, SlotsCam
    <2> QED BY <1>1, <2>1 DEF TlbivaxAll
  <1>2. ASSUME Inv, NEW ea \in Addrs, TlbivaxEa(ea), NEW s \in SlotsCam, tlb[s].iprot
        PROVE  tlb'[s] = tlb[s]
    <2>1. tlb \in [Slots -> Entry]
      BY <1>2 DEF Inv, TypeOK
    <2>2. CASE UNCHANGED tlb
      BY <2>2
    <2>3. CASE \E t \in Slots : /\ IsFirst(t, IvaxMatches(ea))
                                /\ tlb' = [tlb EXCEPT ![t] = Invalidate(@)]
      <3>1. PICK t \in Slots : /\ IsFirst(t, IvaxMatches(ea))
                               /\ tlb' = [tlb EXCEPT ![t] = Invalidate(@)]
        BY <2>3
      <3>2. t # s
        BY <1>2, <3>1 DEF IsFirst, IvaxMatches
      <3> QED BY <2>1, <3>1, <3>2 DEF Slots
    <2> QED BY <1>2, <2>2, <2>3 DEF TlbivaxEa
  <1>3. Inv /\ [Next]_vars =>
            [(\E n \in {0, 1} : TlbivaxAll(n)) \/ (\E ea \in Addrs : TlbivaxEa(ea)) =>
                 \A s \in SlotsCam : tlb[s].iprot => tlb'[s] = tlb[s]]_vars
    BY <1>1, <1>2
  <1> QED BY <1>3, Invariance, PTL DEF Spec, IprotSurvives

=============================================================================
