# Verification of ppcsimbooke

ppcsimbooke simulates machines of Freescale e500v2 (PowerPC BookE) cores. It is a
C++ library driven from python (`sim/src/ppcsimbooke.cpp`): the host program builds a
machine, registers memory, loads a guest, sets breakpoints and runs, steps or stops the
cores, each of which executes in a thread of its own. This directory holds TLA+ models
of it, the TLC runs that check them and proofs of their main theorems. Paths below are
relative to `src/sim/src/`.

## 1. Inventory

| component | state | operations | who calls it | modelled by |
|---|---|---|---|---|
| MMU `tlb` (`tlb_booke.cpp/.h`) | `tlb4K[set][way]`, `tlbCam[]`, the translation cache `m_tlb_cache` | `tlbwe`, `tlbre`, `tlbse`, `tlbive`, `xlate` | the core for every fetch, load and store (`cpu::xlate` over PID0 to PID2); guest instructions for the rest | `Tlb` |
| LRU map `lru_cache` (`third_party/lru/lru.hpp`) | a hash of records, a list of keys in order of use, a sticky error flag | `operator[]`, `insert`, `clear` | the MMU | `LruCache` |
| Reservations (`cpu_ppc.cpp:1074-1111`) | per core `m_resv_set/addr/size`; for all cores `sm_resv_map` | `set_resv`, `check_resv`, `clear_resv` | `lwarx` and `stwcx.` on any core's thread | `Reservation` |
| Run control (`cpu_ppc.cpp`, `machine.cpp`) | per core `m_cpu_mode`, PC; for all cores `sim_except_ptr` | `run`, `run_b`, `step`, `halt`, `stop`, the machine's loops over a mask of cores | host, and the threads `run` creates | `RunControl` |
| Breakpoints `breakpt_mngr` (`bm.cpp`) | addresses with a number and a hit count, enable flag, last hit; for all cores `m_bk_num` | add, delete, delete by number, delete all, enable, disable, `check_pc` | host; `run_curr_instr` and `run_b` on the thread | `RunControl` |
| Physical memory (`memory.cpp/.h`) | list of targets with priorities, a page hash per target, a cache of pages over all, `mem_tgt_modified` | `register_memory_target`, `read/write 8..64`, buffers, dumps, files | every core's thread; host | `Memory` |
| Exceptions and instruction flow (`cpu_ppc.cpp:380-1052`) | PC, NIP, MSR, save registers, DEAR, ESR, the instruction cache | `get_instr`, `run_curr_instr`, `ppc_exception`, `check_for_dbg_events`, `rfi` and kin | the thread; `step` | `Flow`, `GuestCode` |
| Basic blocks (`basic_block.cpp/.h`) | the cache of translated blocks, their reference counts and handlers, lists of blocks meant to be one per page | `decode`, `translate`, `run`, invalidate, reclaim, flush | `run_basic_blocks_b`, the threaded execution mode | `Blocks` |
| Containers (`superstl.h`) | a hash table of linked lists, lists of chunks of slots | get, add, remove, clear, iterators | the basic block cache | `Blocks` |
| Instruction semantics (`cpu_ppc_instr.cc`) | the register file | some 400 bodies | the handler table of `run_curr_instr` | `Integer`, `Spe`, `GuestCode` |
| CR, XER, SPEFSCR (`globals.cpp`), utilities (`utils.h`) | registers | update and compute functions | instruction semantics, MMU | `Integer`, `Spe`, `Bits`, `HostWords` |
| Disassembler, coverage, logging, bindings, FPU helpers | - | - | see PROJECT.json for why each is in or out | |

**How they interact.** A thread loops in `run_b`: `get_instr` translates PC and reads
memory, `check_pc` looks for a breakpoint, the handler executes, which may translate,
access memory, touch reservations or throw. Three kinds of exceptions cross the layers:
`sim_except_ppc` becomes a guest interrupt in `run_b` (and is dropped by `step`),
`SIM_EXCEPT_SBKPT` and all others end the thread and are kept in `sim_except_ptr`. Host
and threads share `m_cpu_mode`, the breakpoint manager, `sim_except_ptr`,
`sm_resv_map` and the memory; no mutex exists in the program, only comments asking for
one (`cpu_ppc.cpp:184,191,1082`); of reservations on several cores `cpu_ppc.h:213-215` says
that they are not supported yet.

**What is hard.** Interleavings of host and threads, and of cores on shared maps; caches
in front of searches (translations, instructions, pages, blocks) that must be flushed at
the right moments; one step of several failing by a C++ exception with state half
changed, and the instruction executed again; sequences of host calls in an order nobody
tried; wrap-around and off-by-one in page sizes, masks, sets, carries and saturation. The
list, line by line, is `hazards` in PROJECT.json.

**What makes each correct.** MMU: a fast answer is what the slow search would say, no
stale record, protected entries survive invalidation. Reservations: a store needs the
core's own latest reservation, none is lost without a cause, and an update is overwritten
only where the missing lock lets two cores in. Run control: the mode tells
the truth, breakpoints are hit and passed exactly when they should be, stopping stops,
an exception reaches the caller it belongs to. Memory: a flat store of bytes, whatever
targets, pages and caches do behind it. Flow: a program does not notice misses and
interrupts. Instructions: the idioms that combine several of them compute what they are
for. Blocks: a block is what the guest's code is there, is translated once, and
is taken only when nobody runs it or will run it half prepared.

## 2. Modules and code

`MCx` instantiates `x` for TLC, `xProofs` proves about it. Definitions keep the names of
the source where TLA+ allows.

### `LruCache` and `Tlb`

`LruCache` has no state: a cache is a sequence of records, most recent last, and
`LruTouchAt`, `LruRoom`, `LruInsert` are what `operator[]` and `insert` do to it.

| `Tlb` | code |
|---|---|
| `tlb[slot]`, a function of <<array, set, way>> | `tlb4K`, `tlbCam` |
| `cache`, `stuck` | `m_tlb_cache`; the endless loop of `rshift(0)` |
| `XlateFast`, `XlateSlow`, `XlateDenied` at the i-th PID, `XlateMiss` | `tlb::xlate` (tlb_booke.cpp:502-582) as `cpu::xlate` (cpu_ppc.cpp:247-287) calls it, once for each PID until one answers |
| `Tlbwe`, `TlbweRefused`, `TlbweHangs` | `tlb::tlbwe`: done, refused by `get_entry`, caught by a page size of 0 with the entry half written and the cache not yet flushed |
| `TlbivaxAll`, `TlbivaxEa` | the branches of `tlb::tlbive` |

What the code does is kept where it is odd: `get_entry` selects a set by `assoc - 1`
(tlb_booke.cpp:103), the key of the cache has no page size (`ToVirt`), the loop over
masks runs over the table's size in bytes, the by-address invalidation tests neither
valid, tid nor ts and stops at its first match. The words behind the table may be any bit
patterns: `Behind` has them as functions of the address, and `FastTranslationRight`
speaks of hits under the masks of the table.
Initial entries hold `Garbage`: the constructor writes only some fields.
One core, hence no interleaving: the arrays are the core's own and only its thread uses
them.

### `Reservation`

One action per access to the shared map: `SetFirst`, `SetSecond`, `Load` make up
`lwarx`; `CheckFirst`, `CheckSecond`, `Store`, `Clear` make up `stwcx.`. `resv` is
`m_resv_set/m_resv_addr`, uninitialised at first; `map` is `sm_resv_map`; `eq` is the
bit the guest's retry loop tests. Data of the guest is abstracted to a count of updates
per word, and of what each core's last `lwarx` saw. `hist` is auxiliary: what has
happened to a core's reservation; so is `crowded`, the cores that met another one between
the check and the store of a word.

Two more lines contradict their comments and are modelled as they are: `clear_resv`
clears the line of the last reservation whatever line `stwcx.` names (`Clear`,
cpu_ppc.cpp:1092), and a `stwcx.` that stored leaves CR0[EQ] clear (`Store`,
cpu_ppc_instr.cc:2106), because `update_crF` keeps four bits of 0x20.

### `RunControl`

`th` are the threads `run` creates, each at a point of `run_b` between two accesses of
shared state; `host` is the host in the middle of `run` or `step`.

| action | code |
|---|---|
| `Mark`, `Resume`, `ResumeRaises`, `Reenable` | the head of `run_b`: mode, resumed instruction, breakpoints on again. An exception in the resumed instruction is outside of any `try` and ends the process |
| `Instr`, `InstrFaults`, `InstrHits`, `InstrFails` | an instruction of a pass and how it may end |
| `Poll`, `Catch`, `Exit` | the test of `m_cpu_mode` after each pass; `catch(...)`; `loop_exit_0` |
| `Run`, `RunRaises`, `RunReturns` | `cpu::run` |
| `Step` ... `StepEnds` | `cpu::step`, the resumed instruction and the loop, each exit from it |
| `halt`, `stop`, `enable_breakpoints`, ..., `delete_all` | the same |

What a guest instruction computes is left open: PC becomes any address, or an exception
is raised. `past` and `fresh` are auxiliary and feed the properties. Breakpoints are
changed only while no thread of the core lives: otherwise a `std::map` is searched while
it changes, which has no defined outcome. `exec_mode` is interpretive, its default.

### `Memory`, which implements `ByteStore`

`ByteStore` is what physical memory promises: a byte keeps the value last stored to it,
except that calls of two cores that overlap may lose bytes, and that a scalar store over
the end of a page loses what lies behind the end. The promise is one between two
registrations: `ByteStore` lets a registration take the value of any byte back, since
memory.h:86-88 speaks of pages that are located again. `Memory` is the code, one access to
shared state per action:

| action | code |
|---|---|
| `Register` | `register_memory_target`, with the test for overlap as it is |
| `FindCached`, `FindFails`, `FindTarget`, `Allocate`, `CachePage`, `ReturnPage` | `paddr_to_hostpage` |
| `FindAmbiguous` | `select_mem_tgt` meets two targets of one priority: `sim_except_fatal` is not in its throw specification and ends the process (`down`) |
| `Begin`, `Read`, `Write` | a scalar access (one look-up, for the first byte) or a buffer access (one look-up per page) |

`mem_tgt_modified` is 0 throughout: nothing sets it, so there is no variable. A new host page has
`Garbage`: it is not cleared. `alone`, `twice` and `spilt` are auxiliary; they name the
pages two cores allocated and the bytes that a scalar store put behind the end of a page.
The refinement mapping `MemBar` reads a byte through whatever host page its page has.

### `HostWords`, `Bits`, `Integer`, `Spe`

A state is a short program about to execute, one instruction per step. `HostWords` has
the casts and word arithmetic of the host at a width of `HB` bits per halfword (16 in the
code), and assumes of powers of two that the first is 1 and each is twice the one before
(`WidthAssumption`); `Bits` has `utils.h`: the bitwise operators, masks, rotation, and the
x86 operations with the flags they return. `Integer` has the integer instructions and the registers of `globals.cpp` they
update, `Spe` the vector instructions, the accumulator and SPEFSCR. An action stands for
a family of handlers with one shape (`Add` for all of `add` to `addzeo.`), its
instruction's fields (`rc`, `oe`, `t`, `s`) for the members of it. Registers are 64 bits
wide and their upper halves matter: several handlers sign-extend where others do not.
Undefined values (the upper half a 32-bit division reads from an uninitialised `edx`,
`DivHigh`; a shift of the host by its whole width) are inputs; so are the results of the
host's floating-point unit (`FpWords`).

### `GuestCode`, `Flow`, which implements `GuestProgram`

`GuestCode` is what an instruction does to registers and memory: the accesses it makes,
in their order (`Accesses`), its effect when it ends after the first n of them (`After`),
where it goes (`Successor`) and what it raises (`Raises`). `Flow` is the core around it:

| action | code |
|---|---|
| `FetchFaults` | `get_instr`, a miss or protection fault on PC |
| `DebugHalts`; `DebugTaken` within the others | `check_for_dbg_events` |
| `Instruction`, `InstructionRaises`, `InstructionFaults`, `Return`, `tlbwe` | `run_curr_instr` and the handler |
| `Thrown`: `Taken`, or dropped | `catch` in `run_b`, and in `step` |
| `Interrupt`, `Checkstop` | `ppc_exception` for EI, CR and MC, between two instructions |

`GuestProgram` executes the same instructions one after the other and knows no
interrupts. Flow implements it through `Program`: PC and MSR of the program are those
saved by the outermost interrupt in progress. Its three deviations are in the abstract
specification because the code has them: a multiple access may be done in part and begun
again, an instruction that is not the program's to execute ends it, and a watched
instruction executes in the mode of the debug interrupt, whose handler never runs, since
NIP overwrites the vector (`StepWatched`).

### `Blocks`

The basic block cache, the hash tables it uses, and `run_basic_blocks_b` around it.

| action | code |
|---|---|
| `Hit`, `Translate`, `TranslateFatal` | `translate`; `Decoded` is its decoder: fill the buffer, flush it when full and at a branch, lose what is left in it |
| `Enter`, within the first two | the head of `basic_block::run`: the reference, then the look-up of the handlers, which an instruction without one ends (`Unprepared`); the block is "torn" from then on |
| `Finish`, `Throw`, `ThrowFatal` | the ways out of a block; only the first drops the reference |
| `CallWild` | a torn block runs again and calls what its memory held: the model ends |
| `Fault`, `Restart` | PC cannot be translated; the next `run()` |
| `Invalidate`, `Destroy` | `invalidate` and the destructor's `flush` |

`sets` is the hash table of blocks, slot by slot. `pages` is the one of lists: its key is
`uint64_t`, which on x86_64 Linux is not the `unsigned long long` that superstl.h:1806 has
a key manager for, and the general one (line 1800) finds nothing (`KeysEqual`). So each
block gets a list of its own, `invalidate` goes on with the list at NULL (`Broken`), and
`invalidate_page` and `get_page_bb_count` return before they touch anything. What lies
behind a list that is found, the chunks and their iterator, the release of a block whose
handlers are deleted twice (basic_block.cpp:160,138), is not reached and not modelled.
`invalidate` has no caller but the destructor; the model lets the core's thread call it at
any moment. `reclaim` changes nothing (every age is 0, every list has a reference) and is
left out.

## 3. Runs

| run | expects | shows |
|---|---|---|
| `tlb` | pass | `CacheIsMap`, `CacheBacked` (no stale translation), `FastTranslationRight`, `RecentSurvives`, `IprotSurvives` |
| `tlb_alias` | violation of `XlateInPage` | a record of a small page answers, under a larger mask, for an address no entry maps |
| `reservation` | pass | `StoreNeedsReservation`, `LatestReservationWins`, `LossHasCause`, with torn pairs and uninitialised fields, and `LostInWindowOnly`: an update is overwritten only by a core that met another one between check and store |
| `run_control` | pass | `RunningHasThread`, `DisabledForAReason`, `BreakpointsHonoured`, `BreakpointsPassed` and, under fairness, `StopEndsThreads` |
| `run_stop` | violation of `StopIsObeyed` | a `stop()` that overtakes the thread's first assignment is overwritten |
| `run_stale` | violation of `RaisesOwnException` | `run()` raises an exception of an earlier run, of this core or another |
| `memory` | pass | `ImplementsByteStore`, and why: one host page per page (`OneHostPage`), cached as soon as allocated (`HeldIsCached`), in the target that outranks the older ones (`HolderOutranksOlder`) |
| `execute` | pass | `MultiWordArithmetic` (two-word sums and differences, wide products, rounding division, each up to the carry that was there before), `ComparesAgree`, `ShiftsMatchReference`, `VectorAgreesWithScalar`, `SaturationClamps`, `ModuloRoundTrip`, `OverflowIsSticky` |
| `flow` | pass | `ImplementsProgram`, `RestartIsIdempotent`, `LoadsAndStoresAgree` and, under fairness, `DemandPagingEnds` |
| `flow_isr` | violation of `SequentialFlow` | the first instruction of an interrupt handler, if it is no branch, is followed by the instruction behind the interrupted one |
| `blocks` | pass | `TranslatedOnce`, `BlocksAreBasic`, and `TakenIsAtRest`: the count is 0 only of blocks that neither run nor were left half prepared |
| `blocks_flush` | violation of `FlushEmptiesCaches` | the destructor's flush ends the process as soon as a block is cached |

The five violations are findings: each contradicts a comment of the code, quoted in
PROJECT.json.

**Disagreements found that no run is about.** The models have what the code does, and no
property of a passing run asserts it.

- tlb_booke.cpp:100-101 says that the EPN selects the set; line 103 masks it by the
  associativity, so that 4 of 128 sets are used.
- memory.h:86-88 says that pages are located again once targets are modified; nothing sets
  `mem_tgt_modified`, and a page stays with its first target.
- memory.cpp:46,193 and memory.h:43 want no overlapping targets; the test misses a new target
  that encloses an old one, or ends where it ends. Two of one priority then end the process
  at the first access to both.
- globals.cpp:519,525 say "clear XER[CA]" and clear all but it: a carry, once set, stays until
  `mcrxr`. `MultiWordArithmetic` states its results with that carry.
- basic_block.h:26-27 says that a block is identified by its context; only the address is
  compared within a slot of the hash table.
- basic_block.cpp:464 says that all blocks of a page are invalidated; `invalidate_page`
  always returns false.
- cpu_ppc_instr.cc:2106 says that the ZERO bit is set; the mask drops it.
- cpu_ppc.cpp:1082 says that a mutex is needed; `LostInWindowOnly` says what is lost without.

**Bounds.**

- `tlb`: 4 sets of 2 ways and 2 CAM entries, a cache of 2 records, pages of 4, 16 and a
  size that wraps to 0, eight operands for `tlbwe`, three addresses, two PIDs. There are
  more sets than ways, as in the code; two records are enough to fill, evict and
  reorder; the operands overlap in pairs (a small page within a large one, two PIDs on
  one page, a protected page, an invalid one, a way that does not exist), which is what
  searches can tell apart. 64 stands for 2^32 in the table of page sizes, so TSIZE 3 is
  what TSIZE 11 is in the code. `tlb_alias` takes the mask list without the word behind
  it: the aliasing needs no out-of-bounds read.
- `reservation`: 2 cores as in `config.h`, 3 words in 2 lines (two reservations in one
  line, and in two); a `stwcx.` begins while its word has no update, so that all that
  have begun by then may store. A third core would act
  as the second does: a pair holds one owner. The proofs need no such bound.
- `run_control`, `run_stop`: 1 core. Cores share only `sim_except_ptr`, which neither run
  is about and which `run_stale` explores with 2 cores. Two slots for threads (`run`
  waits for a free one): overlap takes two. Two addresses, one of which can carry a
  breakpoint. A pass has 2 instructions instead of 100 and `step` a count of at most 2:
  the first instruction, the last, and a fault in between are distinguished.
  `CHECK_DEADLOCK FALSE` since `std::terminate` ends the process.
- `memory`: 2 cores (interchangeable, hence the symmetry), 3 pages of 2 bytes, 3 targets
  of which "ddr0" covers two pages, 4 candidates that are rejected, accepted beside,
  accepted above, and accepted although they enclose; 3 calls, loads and stores, scalar
  and buffer, over the end of a page and not. A race takes two calls, what it has done
  shows to the third. `CHECK_DEADLOCK FALSE`: the bounds end the run.
- `execute`: halfwords of 4 bits, words of 8, registers of 16: every boundary of the
  code (sign, carry, all ones, most negative times most negative, a rotate that wraps)
  is one of a word, whatever its width. Idioms begin with every carry, and with an
  instruction that shows it (`Observe`). Each instruction alone on 49 or more register
  files, and each idiom on all pairs, or quadruples, of its boundary values; exact values
  are in `MCExecute`. Programs end: `CHECK_DEADLOCK FALSE`.
- `flow`: words of 8 bits, bytes of 2, pages of 16 bytes, of which data pages have
  addresses that are negative as words, as addresses from 0x80000000 on are. Every load,
  store and cache instruction, in its forms, across the end of a page, with each page
  missing, read-only or writable; a loop with a call over demand-paged code; branches on
  both outcomes of each condition; what is forbidden in user mode; one interrupt of each
  device, one exception dropped by `step()`; a watched instruction. The handlers are the
  smallest operating system that pages on demand. A program ends, or halts for the
  debugger: `CHECK_DEADLOCK FALSE`.
- `blocks`, `blocks_flush`: pages of 4 instructions, decode buffers of 2, blocks of 4, 2
  contexts with different maps over 2 frames, a hash that separates them for some addresses
  and not for others, 3 blocks and at most 2 references each: a block may end at a branch,
  at a full buffer, at a missing page, at a page that must not be executed, hold nothing, or
  hold an instruction without a handler, first, last or in between. `CHECK_DEADLOCK FALSE`:
  the process may crash, and addresses of blocks run out.

**Fairness.** `RunControl`: weak fairness of every thread's `run_b`, nothing else: the
operating system schedules each thread, and a thread in `run_b` never waits for anything.
The host is under no obligation to call anything, so no fairness is assumed of it.
`Flow`: weak fairness of `Run`, the same thread executing the next instruction; none of
devices. The other modules state safety only.

## 4. Proofs

All for arbitrary constants under the named assumptions of the modules.

- `TlbProofs` begins with what `LruTouchAt`, `LruRoom` and `LruInsert` of `LruCache`
  preserve (keys distinct, length within capacity), which records they keep and that the
  most recent one stays. `Inv` is `TypeOK`, `CacheIsMap`, and two strengthenings.
  `CacheAligned` is `CacheBacked` with the alignment of the backing entry, without which
  `FastTranslationRight` does not follow: the page base under a small mask determines
  the base of the entry's page only if that page is aligned. `ValidSized` (a valid entry
  has a nonzero page size, unless a `tlbwe` hangs) is what makes division by it sound.
  `tlbwe` and `tlbivax` preserve it because they flush; `XlateSlow` because the record it
  inserts is backed by the entry just found. From `Inv` follow all properties of the
  run `tlb`, the action properties `RecentSurvives` and `IprotSurvives` included.
- `ReservationProofs`: `Inv` relates, for each core, its own fields to the point of the
  instruction it is at (`OwnFields`) and to the shared bytes (`SharedBytes`: as long as
  nobody has cleared the line, `first` is set; as long as nobody has taken it, `second`
  is this core; once taken, `second` is another). It is inductive for any number of
  cores; all safety properties of the run `reservation` follow, the lines of code
  interleaved byte by byte. `LostInWindowOnly` needs `Worth` on top of it: as long as a core
  may still store and has met no other one, nobody is about to store to its word and
  nobody has.
- `RunProofs`: all five invariants of the run `run_control`, for any number of cores,
  threads and addresses and any length of a pass. `Inv` adds to them `Alone` (until two
  callers have overlapped on a core, it has one thread at most, and none during a `step`),
  `HitStands` (between a hit and the next instruction the core still stands on the
  recorded breakpoint, and whoever goes on has yet to look at the record) and `Ready`
  (the counters of a pass and a step are above zero where they are decremented).
  `BreakpointsPassed` is not inductive without `HitStands`, nor `HitStands` without
  `Alone`: a second caller could run on and hit again. One lemma per action, one step of
  it per conjunct.

- `MemoryProofs`: `Inv` for any number of cores, targets and pages and calls of any
  length. A call between look-up and access has only copies of shared state, so the parts
  of `Inv` say what such a copy is still worth: `Locals` (types), `Chosen` (the target a
  core works on outranks every older one that holds the address, whatever was registered
  since; past the allocation it has the page), `AtHome` (only registered targets have
  pages, and a host page is one of the page it is found under), `OneEach` (a page has one
  host page unless it was allocated twice), `SoonCached` (a host page is cached, or the
  core that allocated it is about to cache it), `Overlapping` and `Races` (what the
  auxiliary variables say of two calls at the same time), `Targets` (targets begin and
  end at page boundaries). `OneHostPage` is not inductive without `OneEach`, nor that
  without `SoonCached` and `Races`. On `Inv` rests `MemoryIsByteStore`, the refinement:
  every action is a step of `ByteStore` or a stutter. That calls and registrations have
  their types (`RequestsAssumption`) is all it assumes of them.
- `BlocksProofs`: `Inv` for any number of blocks, pages and contexts, any hash and any
  sizes of buffers and blocks. What makes `TranslatedOnce` inductive is `Tabled` (what is in
  the table exists and is in the slot of its key, and no address is twice in a slot: it is
  the address alone that a look-up compares), `Found` (what exists is there) and `Listed`
  (what exists has one list of its own). `Basic` is `BlocksAreBasic` and that every block
  ends before the words nobody can execute; the decoder's part of it is by induction on the
  words decoded. No induction theorem can be instantiated by the provers here, so the least
  word for which the claim fails is taken and refuted (`LeastNatural`). `InUse` gives
  `TakenIsAtRest`: a block that runs, or that is half prepared, has a reference, since the
  reference is taken before the handlers are looked up and nothing but the end of that
  same run drops it.
- `FlowProofs`: `RestartIsIdempotent` for any number of registers, size of a cache line,
  program, permissions and place of the fault, by the three ways an instruction accesses
  memory. Those of a single access, and the loads, have done nothing when they fault
  (`SingleRestarts`); stores of several words write what they wrote again
  (`StoresRestart`); `lmw` loads it again from the same address, because the base register
  is not among those it has loaded (`LoadsRestart`, `BaseKept`). The invariant says that
  the core has all its registers and its memory whatever has been interrupted, and runs
  the program it was given (`CasesAssumption`: programs of instructions, with all
  registers).

  `FlowTypes` is `Typed`, the types of registers, memory, PC, NIP and what interrupts save:
  one lemma per kind of instruction (`LoadedTypes`, `StoredTypes`, `MoveTypes`,
  `BranchTypes`, ...), and `TypedStep` per action. `LoadsAgree` follows from it without a
  further invariant, by the instruction at PC. A load is a number in base 256 whose digits
  are the bytes at its addresses (`LoadNext`, by induction over them as in `Horner`), so it
  is that of its first bytes, shifted, and that of the rest (`LoadSplit`), which gives the
  vector loads (`VectorsAgree`); the digits of what is stored come back (`StoredDigits`).
  That a byte is written by one access only, the one expected, is arithmetic on distances
  around the address space (`Offsets`, `CoversWhere`): stmw never comes back to where it
  began because the address space has room for all registers (`GuestAssumption`), and dcbz
  may, since all it writes is 0.
- `HostWordsProofs`: what the proofs of `Flow` and of `Spe` share, lemmas on powers of two,
  division and remainders, halves of a register, sums over bits and numbers in any base.

- `ExecuteProofs`: all properties of `execute`, for any width of a word, any register files
  and any programs (`CasesAssumption`: registers hold register values, and the operands of
  an instruction are as wide as the fields the decoder takes them from, `IsInstruction`).
  `OverflowsStick` needs `OnRecord`: as soon as an instruction that records overflow has
  executed, its flags are in SPEFSCR, and no later instruction takes a sticky one back.
  `SaturatingSumsClamp` needs `Begun` (the registers a program has not written are those
  it started on) and, per instruction, that a sum of two signed words leaves the word
  exactly when the two bits that the code compares differ, and goes to the end of the range
  the upper one names (`SignedSumClamps`, `UnsignedSumClamps`; `FractionClamps` for the
  product of two fractions, which leaves the range only for the most negative ones).
  `ModuloSumsUndo` is a statement about two consecutive instructions: `Halfway` says what
  ACC is between them, and that the second takes back modulo the width what the first put
  in. `IdiomsCompute` and `FlagsCompare` are about up to three: `Prepared` and `Subtracted`
  say what the registers, XER and CR0 are before the last, and arithmetic says that the
  last one completes it (`TwoWordSums`: the carry is what a sum of low words has above the
  word, or the one of before; `SubtractionFlags`: of two words, less is sign and overflow differing;
  `TowardZero`: a division that rounds down lacks one exactly when the carry is set).
  `ShiftsMatch` rests on `AndField`, that a conjunction with a field of ones is a difference
  of two remainders, from which a mask (`MaskField`), a rotated word (`Rotates`,
  `BitOfRotated`) and both together are numbers. Underneath are lemmas on division,
  remainders, halves of a register and sign bits, each by induction over the width from
  `WidthAssumption` where it needs one, and `And`, that a conjunction of registers is a sum
  over their bits. `LanesAgree` goes through the word that both instructions of a pair
  promise (`Common`): `ScalarStep` and `VectorStep` say that each one writes it, whatever
  the rest of its register gets, and `FirstDone` that it and the operands are still there
  when the second one starts. It takes the width of a word to be a power of two
  (`AmountAssumption`: the amount of a shift is a field of bits). The lemmas under it are
  that the field which `sign_exts_f` cuts out of a register is a shift of its word
  (`ExtendedField`), whatever the count of the other lane (`FieldIsInteger`), and that
  bitwise operations of registers and of their words agree (`LowBitwise`).

  `ExecuteTypes` is `TypeOK`; the invariant `TypeInv` adds that the programs are of
  instructions. One lemma per handler says that what it writes has its width
  (`IntegerTyped`, `SpeTyped`), from what the casts, masks, products and saturated sums
  return for any operands (`HostTypes`, `MaskTypes`, `SumTypes`, `HalfProducts`,
  `WritesLanes`, ...). Many handlers build a register by hand, so the proof has to know
  that the unsigned quotient of a divide that does not fault is a word (`DivideTyped`),
  that each lane gets a word (`LanesTyped`) and ACC a double word (`WholeSumTypes`), that
  the amount of an immediate shift is not negative, and that the kind of a guarded multiply
  is one of three. Of the host it assumes that its registers are words (`HostAssumption`),
  and that the immediate of evsplati, of 5 bits, fits in one (`AmountAssumption`).

**Only model-checked.** `StopEndsThreads` and `DemandPagingEnds` are liveness under
fairness, which is beyond the prover. Of `flow`: the part of `TypeOK` beyond `Typed`,
that PC and the save registers stay in the code, a property of each program.
`ImplementsProgram` depends on the operating system that is part of each program (what its
handlers save, map and return to) and on the bound of one interrupt of each device; it is
checked for the handlers in `MCFlow`. The violations are counterexamples of finite
instances and need no proof.

## 5. Not modelled

The list with reasons is in PROJECT.json. In short:

- `tlbre` and `tlbse` (`tlbsx`) copy an entry into MAS registers and change no entry.
- Interrupt classes nobody raises and whose case in `ppc_exception` repeats another:
  alignment, decrementer, timers, SPE unavailable, floating-point. Debug events other
  than IAC1 and IAC2 come with a different status bit and the same flow.
- Breakpoint numbers, `delete_by_num` and hit counts: bookkeeping for the host's listing.
- The machine's loops over a mask of cores, which call one core after the other; a mask
  with bits beyond the cores runs past the array (machine.cpp:46).
- Results of floating-point instructions (`fpu_emul.h`): the host's FPU.
- `bbelr`, `bblels`, `mtpmr`, `mfpmr`, and the bodies of cache hints that do nothing.
- The disassembler is a pure function over a vendored table; only what it promises of the
  operands is stated (`IsInstruction`). Coverage and logging only
  write; the python bindings are tables of names whose calls are the host's actions of
  `RunControl`.

## 6. What comes next

A `Flow` whose guest is assumed to keep PC and the save registers in its code, as an
assumption on `Cases`: what remains of its `TypeOK` would follow, and `ImplementsProgram`
could be stated as a theorem about the handlers that satisfy it.
