------------------------------- MODULE MCTlb -------------------------------
(***************************************************************************)
(* Tlb on a small machine: a unit of 1K, a 4K page of 4, "32-bit" products *)
(* of width 64, so that TSIZE 3 is here what TSIZE 11 (4G) is in the code, *)
(* the size whose product wraps to 0.                                      *)
(***************************************************************************)
EXTENDS Tlb

MCTsizes   == 1..3
MCPageSize == [t \in MCTsizes |-> (4^t) % 64]

\* sm_pgmask_list: 4, 16 and the wrapped 4G.
MCMasks == <<4, 16, 64>>

\* Behind it a word that keeps scattered bits (2 and 3 of an address) and one without bits.
MCBehind == <<[a \in Addrs |-> ((a \div 4) % 4) * 4], [a \in Addrs |-> 0]>>

\* For what goes wrong without the words behind the list.
MCListOnly == <<>>

MCPidRegs == {[i \in 0..2 |-> 0], [i \in 0..2 |-> IF i = 1 THEN 1 ELSE 0]}

Mas(tlbsel, esel, valid, tid, tsize, epn, rpn, permis) ==
    [tlbsel |-> tlbsel, esel |-> esel, valid |-> valid, iprot |-> FALSE, tid |-> tid,
     ts |-> 0, tsize |-> tsize, epn |-> epn, rpn |-> rpn, permis |-> permis,
     le |-> FALSE]

SupAll  == {FALSE} \X {"r", "w", "x"}
UserRead == {TRUE, FALSE} \X {"r"}

MCMasValues ==
    { Mas(0, 0, TRUE, 0, 1, 0, 8, SupAll),      \* 4K page 0
      Mas(0, 1, TRUE, 1, 1, 0, 9, UserRead),    \* 4K page 0 of PID 1
      Mas(0, 0, TRUE, 0, 1, 3, 8, UserRead),    \* 4K page 3
      Mas(1, 1, TRUE, 0, 2, 0, 16, SupAll),     \* 16K page over pages 0 to 3
      Mas(1, 1, FALSE, 0, 1, 0, 8, SupAll),     \* an entry written invalid
      [Mas(1, 1, TRUE, 0, 1, 1, 9, UserRead)    \* a protected page of space 1
          EXCEPT !.iprot = TRUE, !.ts = 1],
      Mas(1, 1, TRUE, 0, 3, 0, 0, SupAll),      \* TSIZE of the wrapped size
      Mas(0, 2, TRUE, 0, 1, 0, 8, SupAll) }     \* a way tlb4K does not have

\* Memory the allocator hands out cleared. Its page size 0 makes an unwritten entry
\* of tlbCam match every address in the searches that do not test "valid".
MCGarbage ==
    { [valid |-> FALSE, iprot |-> FALSE, tid |-> 0, ts |-> 0, ea |-> 0, ra |-> 0,
       ps |-> 0, permis |-> {}, le |-> FALSE] }

=============================================================================
