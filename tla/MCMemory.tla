------------------------------ MODULE MCMemory ------------------------------
(***************************************************************************)
(* Memory with 2-byte pages: the default target covers pages 0 and 1, page *)
(* 2 is outside of it until a target is registered over it.                *)
(***************************************************************************)
EXTENDS Memory, TLC

Ld(buff, a, n) == [kind |-> "load", buff |-> buff, a |-> a, n |-> n, val |-> <<>>]
St(buff, a, v) == [kind |-> "store", buff |-> buff, a |-> a, n |-> Len(v), val |-> v]

MCCalls ==
    { Ld(TRUE, 1, 2), Ld(FALSE, 3, 2),
      St(FALSE, 3, <<0, 1>>), St(TRUE, 3, <<1, 0>>) }

MCCandidates ==
    { [base |-> 1, size |-> 3, prio |-> 1],     \* rounded to pages 1 and 2
      [base |-> 0, size |-> 4, prio |-> 1],     \* pages 0 and 1: ends inside the first
      [base |-> 4, size |-> 2, prio |-> 2],     \* page 2, outside of ddr0
      [base |-> 0, size |-> 6, prio |-> 1] }    \* encloses them all

MCGarbage == {[o \in 0..1 |-> o]}

MCSymmetry == Permutations(Cores)
=============================================================================
