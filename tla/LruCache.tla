------------------------------ MODULE LruCache ------------------------------
(***************************************************************************)
(* The fixed-size LRU map third_party/lru/lru.hpp, as operators on values. *)
(* A cache is the sequence of its records [key, val, info], the least      *)
(* recently used first: the right view of the boost::bimap, a list_of, is  *)
(* that order, and the left view, an unordered_set_of, is its set of keys. *)
(*                                                                         *)
(* The error flag _err_code is not kept: every lookup of the translation   *)
(* code reads it with error(), which clears it, before the next lookup, so *)
(* "the flag is set" is there the same as "the key is missing".            *)
(***************************************************************************)
EXTENDS Naturals, Sequences, SequencesExt

LruKeys(c) == {c[i].key : i \in DOMAIN c}

\* operator[] on a key that is present: the record becomes the most recent one.
LruTouchAt(c, i) == Append(RemoveAt(c, i), c[i])

\* Mutant: no room is made.
LruRoomNone(c, capacity) == c

\* Mutant: room is made at the wrong end of the list.
LruRoomNewest(c, capacity) == IF Len(c) = capacity THEN Front(c) ELSE c

\* The oldest record goes when the cache is full.
LruRoom(c, capacity) == IF Len(c) = capacity THEN Tail(c) ELSE c

\* insert: room is made also when the key is there already, in which case the bimap
\* then refuses the new record.
LruInsert(c, r, capacity) ==
    IF Len(c) > capacity THEN c
    ELSE IF r.key \in LruKeys(LruRoom(c, capacity)) THEN LruRoom(c, capacity)
    ELSE Append(LruRoom(c, capacity), r)

=============================================================================
