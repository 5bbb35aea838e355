------------------------------- MODULE Blocks -------------------------------
(***************************************************************************)
(* The basic block cache of a core in threaded mode (basic_block.cpp), the *)
(* loop of run_basic_blocks_b around it, and the hash tables of superstl.h *)
(* it keeps its blocks and its page lists in.                              *)
(*                                                                         *)
(* The page lists are keyed by uint64_t. superstl.h has a key manager for  *)
(* W64, unsigned long long; on x86_64 Linux uint64_t is unsigned long, so  *)
(* the general one is chosen, whose equal says no: a list is never found.  *)
(* translate gives each block a list of its own, invalidate removes its    *)
(* block from the list at NULL, and invalidate_page and get_page_bb_count  *)
(* find nothing and change nothing; they are left out, and so is what the  *)
(* code would do with a list it found (a 32-bit host has the other).       *)
(*                                                                         *)
(* A block is translated from the bytes at its effective address, which    *)
(* read_buff translates for its faults only; the code of the guest does    *)
(* not change here. invalidate has no caller yet but flush; here the       *)
(* thread of the core may call it whenever a block runs or none does.      *)
(* reclaim compares lastused with its average, both always 0, and looks    *)
(* for lists without references, of which each has one: it changes         *)
(* nothing and is left out.                                                *)
(***************************************************************************)
EXTENDS Integers, Sequences, FiniteSets

CONSTANTS
    PageWords,          \* instructions in a page
    Frames,             \* physical pages
    Missing, NoExec,    \* a page without translation, and without permission to execute
    Contexts,           \* MSR, PIDs and translations in force
    Map,                \* context -> virtual page -> frame, Missing or NoExec
    Hash,               \* <<ip, frame, context>> -> slot of the hash table
    Entries,            \* where blocks may start
    Vector,             \* where exceptions go
    Interrupted,        \* context -> the one an exception leaves
    Codes,              \* word -> "br", a transfer of control; "nil", one without a
                        \* handler; "op", any other
    MAX_TRANS_INS,
    MAX_BB_INS,
    Ids,                \* addresses of basic blocks: a bound of the model
    MaxRefs,            \* bound: references to one block
    LastWord,           \* an address in a page nobody can execute: a bound of the model
    None                \* NULL

Words == 0..LastWord
Kinds == {"op", "br", "nil"}

BasicBlock == [key : [ip : Words, mfn : Frames, ctx : Contexts],
               ops : Seq([at : Words, kind : Kinds]), brtype : {"branch", "inv"},
               synthops : {"null", "ready", "torn"}, refcount : Nat]
PageLists  == [mfn : Frames, bb : Ids]

ASSUME BlocksAssumption ==
    /\ {PageWords, MAX_TRANS_INS, MAX_BB_INS, MaxRefs} \subseteq Nat \ {0}
    /\ {Missing, NoExec} \cap Frames = {}
    /\ None \notin Ids /\ None \notin BasicBlock

ASSUME SpaceAssumption ==
    /\ LastWord \in Nat /\ Entries \cup {Vector} \subseteq Words
    /\ \A c \in Contexts : Map[c][LastWord \div PageWords] \notin Frames
    /\ Interrupted \in [Contexts -> Contexts]
    /\ DOMAIN Hash = Words \X Frames \X Contexts
    /\ Codes \subseteq [Words -> Kinds]

VARIABLES
    code,       \* the instruction of each word
    block,      \* id -> the basic block there, or None
    sets,       \* m_bb_cache: slot -> list of ids, the first the head
    pages,      \* m_bb_page_cache: its lists, each of one block, the first the head
    pc, ctx,
    run,        \* the block that runs, or None
    state       \* "up"; "ended", the thread by an error; "crashed", the process; "gone"

vars == <<code, block, sets, pages, pc, ctx, run, state>>

Page(w)   == w \div PageWords
HashSlots == {Hash[k] : k \in DOMAIN Hash}
LeastOf(S) == CHOOSE n \in S : \A m \in S : n <= m

Init ==
    /\ code \in Codes
    /\ block = [b \in Ids |-> None]
    /\ sets = [s \in HashSlots |-> <<>>]
    /\ pages = <<>>
    /\ pc \in Entries /\ ctx \in Contexts
    /\ run = None
    /\ state = "up"

---------------------------------------------------------------------------
(* SelfHashtable *)

\* Keys of blocks are compared by ip alone, within the slot of the whole key.
Slot(key) == Hash[<<key.ip, key.mfn, key.ctx>>]

Get(key) ==
    LET found == {i \in DOMAIN sets[Slot(key)] : block[sets[Slot(key)][i]].key.ip = key.ip}
    IN  IF found = {} THEN None ELSE sets[Slot(key)][LeastOf(found)]

\* Mutant: the slot of an address, whatever the rest of the key.
AddByAddress(b, key) ==
    LET s == CHOOSE s \in HashSlots : \E f \in Frames, c \in Contexts : Hash[<<key.ip, f, c>>] = s
    IN  sets' = [sets EXCEPT ![s] = <<b>> \o @]

Add(b, key) == sets' = [sets EXCEPT ![Slot(key)] = <<b>> \o @]

Cached == UNION {{sets[s][i] : i \in DOMAIN sets[s]} : s \in DOMAIN sets}

\* The lists found by their frame: HashtableKeyManager<uint64_t>::equal.
KeysEqual(mfn, f) == FALSE
PageList(f) == {i \in DOMAIN pages : KeysEqual(pages[i].mfn, f)}

---------------------------------------------------------------------------
(* basic_block_decoder *)

Key == [ip |-> pc, mfn |-> Map[ctx][Page(pc)], ctx |-> ctx]

\* read_buff: a miss ends it, a page that must not be executed is a fatal error.
Unreadable == {w \in pc..(pc + MAX_BB_INS - 1) : Map[ctx][Page(w)] \notin Frames}
ValidCount == IF Unreadable = {} THEN MAX_BB_INS ELSE LeastOf(Unreadable) - pc
ReadFatal  == Unreadable # {} /\ Map[ctx][Page(LeastOf(Unreadable))] = NoExec

\* Mutant: the buffer is not emptied.
FlushKeeps(d) ==
    [d EXCEPT !.ops = SubSeq(@ \o d.buff, 1,
                             IF Len(@) + Len(d.buff) < MAX_BB_INS
                             THEN Len(@) + Len(d.buff) ELSE MAX_BB_INS)]

Flush(d) ==
    [d EXCEPT !.ops = SubSeq(@ \o d.buff, 1,
                             IF Len(@) + Len(d.buff) < MAX_BB_INS
                             THEN Len(@) + Len(d.buff) ELSE MAX_BB_INS),
              !.buff = <<>>]

\* An instruction goes to the buffer, which is emptied when it is full and after a branch.
Decode(d, w) ==
    LET e == IF Len(d.buff) = MAX_TRANS_INS THEN Flush(d) ELSE d
        f == [e EXCEPT !.buff = Append(@, [at |-> w, kind |-> code[w]])]
    IN  IF d.done THEN d
        ELSE IF code[w] = "br" THEN [Flush(f) EXCEPT !.done = TRUE] ELSE f

Decoding[n \in 0..ValidCount] ==
    IF n = 0 THEN [ops |-> <<>>, buff |-> <<>>, done |-> FALSE]
             ELSE Decode(Decoding[n - 1], pc + n - 1)

\* Instructions that are still in the buffer at the end are lost.
Decoded == Decoding[ValidCount]

NewBlock ==
    [key |-> Key, ops |-> Decoded.ops, brtype |-> IF Decoded.done THEN "branch" ELSE "inv",
     synthops |-> "null", refcount |-> 0]

---------------------------------------------------------------------------
(* run_basic_blocks_b *)

Idle == state = "up" /\ run = None

\* The handlers are looked up when the block runs first, all of them; get_opc_impl raises
\* out_of_range for an instruction that has none, the rest stays uninitialised.
Unprepared(b) == b.synthops = "null" /\ \E i \in DOMAIN b.ops : b.ops[i].kind = "nil"

Prepared(b) ==
    [b EXCEPT !.synthops = IF @ # "null" THEN @ ELSE IF Unprepared(b) THEN "torn" ELSE "ready"]

\* Mutant: the reference is taken once the handlers are there.
HeldOncePrepared(b) ==
    [Prepared(b) EXCEPT !.refcount = IF Unprepared(b) THEN @ ELSE @ + 1]

Held(b) == [Prepared(b) EXCEPT !.refcount = @ + 1]

\* basic_block::run is called on block b. An error of the preparation ends the thread; the
\* reference stays.
Enter(b, new) ==
    /\ block' = [block EXCEPT ![b] = Held(new)]
    /\ run' = IF Unprepared(new) THEN None ELSE b
    /\ state' = IF Unprepared(new) THEN "ended" ELSE state

Hit ==
    /\ Idle /\ Key.mfn \in Frames
    /\ Get(Key) # None
    /\ block[Get(Key)].refcount < MaxRefs
    /\ Enter(Get(Key), block[Get(Key)])
    /\ UNCHANGED <<code, sets, pages, pc, ctx>>

\* No list is found for the page: there is a new one for the block.
Translate ==
    /\ Idle /\ Key.mfn \in Frames
    /\ Get(Key) = None /\ ~ReadFatal
    /\ \E b \in Ids :
          /\ block[b] = None /\ \A a \in Ids : block[a] = None => b <= a
          /\ Add(b, Key)
          /\ PageList(Key.mfn) = {}
          /\ pages' = <<[mfn |-> Key.mfn, bb |-> b]>> \o pages
          /\ Enter(b, NewBlock)
    /\ UNCHANGED <<code, pc, ctx>>

\* A later page must not be executed: the error is no sim_except_ppc, the thread ends.
TranslateFatal ==
    /\ Idle /\ Key.mfn \in Frames
    /\ Get(Key) = None /\ ReadFatal
    /\ state' = "ended"
    /\ UNCHANGED <<code, block, sets, pages, pc, ctx, run>>

\* The page of PC misses or must not be executed: an exception, taken.
Fault ==
    /\ Idle /\ Key.mfn \notin Frames
    /\ pc' = Vector /\ ctx' = Interrupted[ctx]
    /\ UNCHANGED <<code, block, sets, pages, run, state>>

\* The next run() starts another thread.
Restart ==
    /\ state = "ended"
    /\ state' = "up"
    /\ UNCHANGED <<code, block, sets, pages, pc, ctx, run>>

Running == state = "up" /\ run # None

\* The instructions that may be executed: those in front of one without a handler.
Executed == {i \in DOMAIN block[run].ops : \A j \in 1..i : block[run].ops[j].kind # "nil"}

\* One of them throws: nothing undoes the reference. Before it the context may change.
Throw ==
    /\ Running /\ Executed # {}
    /\ run' = None
    /\ pc' = Vector /\ \E c \in Contexts : ctx' = Interrupted[c]
    /\ UNCHANGED <<code, block, sets, pages, state>>

\* What it throws is no sim_except_ppc: the thread ends at the instruction.
ThrowFatal ==
    /\ Running /\ Executed # {}
    /\ run' = None /\ state' = "ended"
    /\ pc' \in {block[run].ops[i].at : i \in Executed} /\ ctx' \in Contexts
    /\ UNCHANGED <<code, block, sets, pages>>

\* Mutant: the reference is dropped and the block released as well.
LetGoTwice(b) == [b EXCEPT !.refcount = @ - 2]

LetGo(b) == [b EXCEPT !.refcount = @ - 1]

\* A block without instructions leaves PC where it is. Where any other goes on is Flow's
\* subject: to its target, behind the block, or where NIP was before an exception.
Finish ==
    /\ Running /\ block[run].synthops = "ready"
    /\ block' = [block EXCEPT ![run] = LetGo(@)]
    /\ run' = None
    /\ LET ops == block[run].ops IN
       IF ops = <<>> THEN UNCHANGED <<pc, ctx>>
       ELSE /\ ctx' \in Contexts
            /\ pc' \in Entries \cup {ops[Len(ops)].at + 1}
    /\ UNCHANGED <<code, sets, pages, state>>

\* A block whose preparation failed is not prepared again: it calls what the memory of the
\* handlers happened to hold. Anything may follow, and the model ends.
CallWild ==
    /\ Running /\ block[run].synthops = "torn"
    /\ state' = "crashed"
    /\ UNCHANGED <<code, block, sets, pages, pc, ctx, run>>

---------------------------------------------------------------------------
(* Invalidation *)

Refuses(b) == block[b].refcount # 0

\* The count of the list at NULL is decremented: the process ends before the block leaves
\* the table.
Broken(b) == ~Refuses(b) /\ PageList(block[b].key.mfn) = {}

\* invalidate(bip), of the block that Get finds.
Invalidate(key) ==
    /\ state = "up"
    /\ Get(key) # None /\ Broken(Get(key))
    /\ state' = "crashed"
    /\ UNCHANGED <<code, block, sets, pages, pc, ctx, run>>

\* The destructor flushes: every block is invalidated, then the lists are deleted. Blocks
\* in use stay behind.
Destroy ==
    /\ state \in {"up", "ended"} /\ run = None
    /\ IF \E b \in Cached : Broken(b)
       THEN state' = "crashed" /\ UNCHANGED pages
       ELSE state' = "gone" /\ pages' = <<>>
    /\ UNCHANGED <<code, block, sets, pc, ctx, run>>

Next ==
    \/ Hit \/ Translate \/ TranslateFatal \/ Fault \/ Restart
    \/ Throw \/ ThrowFatal \/ Finish \/ CallWild
    \/ \E key \in {block[b].key : b \in Cached} : Invalidate(key)
    \/ Destroy

Spec == Init /\ [][Next]_vars

---------------------------------------------------------------------------
(* Properties *)

\* Every variable has its type: no reference is dropped that was not taken, and no block
\* is longer than the buffer allows.
TypeOK ==
    /\ code \in Codes
    /\ block \in [Ids -> BasicBlock \cup {None}]
    /\ \A b \in Ids : block[b] # None =>
          Len(block[b].ops) <= MAX_BB_INS /\ block[b].refcount <= MaxRefs
    /\ sets \in [HashSlots -> Seq(Ids)]
    /\ pages \in Seq(PageLists)
    /\ pc \in Words /\ ctx \in Contexts
    /\ run \in Ids \cup {None}
    /\ state \in {"up", "ended", "crashed", "gone"}

\* However contexts, exceptions and threads follow each other, nothing is translated twice
\* and nothing is lost: every block is in the table, once, where its own key is looked up;
\* that look-up finds it, no block in front of it; and while the cache lives one list has
\* it, under its frame (translate adds what Get did not find, basic_block.cpp:396-422).
TranslatedOnce ==
    /\ \A b \in Ids : block[b] # None <=> b \in Cached
    /\ \A b \in Cached :
          /\ \E i \in DOMAIN sets[Slot(block[b].key)] : \A s \in DOMAIN sets :
                {j \in DOMAIN sets[s] : sets[s][j] = b} =
                    IF s = Slot(block[b].key) THEN {i} ELSE {}
          /\ Get(block[b].key) = b
          /\ state # "gone" => \E i \in DOMAIN pages :
                /\ pages[i].mfn = block[b].key.mfn
                /\ {j \in DOMAIN pages : pages[j].bb = b} = {i}

\* A block is basic, however its instructions went through the buffer: consecutive from its
\* ip on, none twice and none left out, a transfer of control only at the end, which is
\* what its type says.
BlocksAreBasic ==
    \A b \in Cached :
        LET ops == block[b].ops IN
        /\ \A i \in DOMAIN ops :
              /\ ops[i] = [at |-> block[b].key.ip + i - 1, kind |-> code[ops[i].at]]
              /\ i < Len(ops) => ops[i].kind # "br"
        /\ block[b].brtype = "branch" <=> ops # <<>> /\ ops[Len(ops)].kind = "br"

\* What an invalidation does not refuse is at rest: it does not run, and no exception left
\* it half prepared, in this thread or in one before (the reference of run() is taken
\* first and lost with every exception, basic_block.cpp:171).
TakenIsAtRest ==
    \A b \in Cached : ~Refuses(b) => b # run /\ block[b].synthops = "ready"

\* "flush all caches" (basic_block.cpp:521): afterwards no block is cached but those in use.
FlushEmptiesCaches ==
    [][Destroy => state' = "gone" /\ \A b \in Cached' : block'[b].refcount # 0]_vars
=============================================================================
