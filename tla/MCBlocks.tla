------------------------------ MODULE MCBlocks ------------------------------
(***************************************************************************)
(* Blocks with pages of 4 instructions, buffers of 2 and blocks of 4. The  *)
(* two contexts map page 0 to different frames, and page 1 of the kernel   *)
(* is page 0 of the user. Both have a miss or a page that must not be      *)
(* executed within the reach of a block. Address 0 has the same slot of    *)
(* the hash table in both, the others have not.                            *)
(***************************************************************************)
EXTENDS Blocks, TLC

Both == {"user", "kernel"}

MCMap ==
    [c \in Both |-> [p \in 0..2 |->
        CASE p = 0 -> IF c = "user" THEN "f" ELSE "g"
          [] p = 1 -> IF c = "user" THEN Missing ELSE "f"
          [] p = 2 -> IF c = "user" THEN Missing ELSE NoExec]]

MCInterrupted == [c \in Both |-> "kernel"]

MCHash == [k \in (0..11) \X {"f", "g"} \X Both |-> IF k[1] # 0 /\ k[3] = "user" THEN 1 ELSE 0]

\* A branch at the end of page 0 and none in page 1, one at the start of each, and one
\* behind an instruction without a handler.
MCCodes ==
    {[w \in 0..11 |-> CASE w \in k.br -> "br" [] w \in k.nil -> "nil" [] OTHER -> "op"] :
        k \in {[br |-> {3}, nil |-> {}], [br |-> {1, 4}, nil |-> {}], [br |-> {3, 7}, nil |-> {1, 5}]}}
=============================================================================
