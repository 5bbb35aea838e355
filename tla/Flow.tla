-------------------------------- MODULE Flow --------------------------------
(***************************************************************************)
(* The flow of control of one core: run_b and step of cpu_ppc.cpp around   *)
(* one instruction (get_instr, the check for debug events, the handler of  *)
(* cpu_ppc_instr.cc, an exception thrown anywhere in it), ppc_exception,   *)
(* and the returns from interrupts. NIP is advanced before an instruction  *)
(* and becomes PC after it; an exception in between changes PC only.       *)
(*                                                                         *)
(* The translations are one per page, whatever the mode; Tlb has them in   *)
(* full, Memory the accesses that cross the end of a page. The operating   *)
(* system is part of code: handlers behind the interrupt vectors that map  *)
(* a page with tlbwe and return. ppc_exception raises external, critical   *)
(* and machine check interrupts too; in the code at hand no device calls   *)
(* it, here one may between any two instructions.                          *)
(***************************************************************************)
EXTENDS GuestCode

CONSTANTS
    PageSize,
    NPages,
    Vector,         \* interrupt -> its address, from IVPR and the IVORs
    Handler,        \* class of interrupts -> addresses of its handlers
    Exit,           \* the operating system sends a program it ends here
    Cases,          \* what runs: see Init
    MaxInterrupts,  \* bound: interrupts by devices
    MaxSwallows     \* bound: exceptions in instructions that step() executes

VARIABLES
    code,       \* address -> instruction
    debug,      \* DBCR0, DBCR1, IAC1 and IAC2: [iac, us, idm, edm]
    st,         \* gpr, mem, lr, ctr, cr and msr
    pc, nip,
    save,       \* SRR0/1, CSRR0/1 and MCSRR0/1: class -> [at, msr]
    dear, esr,
    tlb,        \* page -> permissions; none at all: no entry
    halted,     \* the thread has ended (debug halt) or the process has (checkstop)
    left        \* what is left of the bounds

vars == <<code, debug, st, pc, nip, save, dear, esr, tlb, halted, left>>

Bytes       == 0..(ByteValue - 1)
Permissions == {"r", "w", "x"}
Interrupts  == {"CR", "MC", "DSI", "ISI", "EI", "PRG", "SC", "DTLB", "ITLB", "DBG"}

ASSUME VectorAssumption == \A nr \in Interrupts : Vector[nr] \in Doubles

\* Programs are made of instructions and begin with all registers and all memory.
ASSUME CasesAssumption ==
    \A c \in Cases :
        /\ \A a \in DOMAIN c.code : IsInstruction(c.code[a])
        /\ c.gprs \subseteq [0..LastReg -> Doubles]
        /\ c.mems \subseteq [Words -> Bytes]
        /\ c.ctrs \subseteq Doubles /\ c.msr \subseteq MsrBits /\ c.start \in Doubles
        /\ c.tlbs \subseteq [0..(NPages - 1) -> SUBSET Permissions]

Page(a) == a \div PageSize

Classes == {"base", "crit", "mc"}
Devices == {"EI", "CR", "MC"}

Class(nr) ==
    CASE nr \in {"CR", "DBG"} -> "crit"
      [] nr = "MC"            -> "mc"
      [] OTHER                -> "base"

Init ==
    \E c \in Cases :
        /\ code = c.code
        /\ debug = c.debug
        /\ st \in [gpr : c.gprs, mem : c.mems, lr : {0}, ctr : c.ctrs, cr : {c.cr},
                   msr : {c.msr}]
        /\ pc = c.start /\ nip = c.start
        /\ save = [k \in Classes |-> [at |-> 0, msr |-> {}]]
        /\ dear = 0 /\ esr = {}
        /\ tlb \in c.tlbs
        /\ halted = FALSE
        /\ left = [interrupts |-> [n \in Devices |-> IF n \in c.devices THEN MaxInterrupts ELSE 0],
                   swallows |-> IF c.stepping THEN MaxSwallows ELSE 0]

---------------------------------------------------------------------------
(* xlate: the exception it throws, or None *)

Fault(ea, wr, ex) ==
    LET need == IF ex THEN {"r", "x"} ELSE IF wr THEN {"w"} ELSE {"r"}
        have == tlb[Page(ea)]
    IN  CASE need \subseteq have -> None
          [] have = {} -> [nr |-> IF ex THEN "ITLB" ELSE "DTLB", sub |-> IF wr THEN "ST" ELSE "LD",
                           ea |-> ea]
          [] OTHER     -> [nr |-> IF ex THEN "ISI" ELSE "DSI", sub |-> IF wr THEN "ST" ELSE "LD",
                           ea |-> ea]

---------------------------------------------------------------------------
(* ppc_exception *)

\* CLR_DEFAULT_MSR_BITS, and the bit that masks the interrupt's own class; DBG leaves CE
\* set and CR leaves DE, though both save to CSRR0 and CSRR1.
Cleared(nr) ==
    {"SPE", "EE", "PR"} \cup CASE nr = "CR"  -> {"CE"}
                               [] nr = "MC"  -> {"ME"}
                               [] nr = "DBG" -> {"DE"}
                               [] OTHER      -> {}

\* Mutant: a store fault looks like a load's.
EsrOfNoStore(sub) ==
    CASE sub = "CL"   -> {"DLK"}
      [] sub = "ILG"  -> {"PIL"}
      [] sub = "PRV"  -> {"PPR"}
      [] sub = "TRAP" -> {"PTR"}
      [] OTHER        -> {}

EsrOf(sub) ==
    CASE sub = "ST"   -> {"ST"}
      [] sub = "CL"   -> {"DLK"}
      [] sub = "ILG"  -> {"PIL"}
      [] sub = "PRV"  -> {"PPR"}
      [] sub = "TRAP" -> {"PTR"}
      [] OTHER        -> {}

\* Mutant: NIP, which is PC by the end of an instruction, is saved.
SavedNip(v, nr, P, msr) == [v EXCEPT ![Class(nr)] = [at |-> P + 4, msr |-> msr]]

Saved(v, nr, P, msr) == [v EXCEPT ![Class(nr)] = [at |-> P, msr |-> msr]]

\* Exception e, thrown when PC is P and the rest is s and v, is taken. sim_except_ppc
\* gives its address away as an int.
Taken(e, P, s, v) ==
    /\ pc' = Vector[e.nr]
    /\ st' = [s EXCEPT !.msr = @ \ Cleared(e.nr)]
    /\ save' = Saved(v, e.nr, P, s.msr)
    /\ dear' = IF e.nr \in {"DSI", "DTLB"} THEN ExtsW(e.ea) ELSE dear
    /\ esr' = IF e.nr \in {"DSI", "ISI", "PRG", "DTLB"} THEN EsrOf(e.sub) ELSE esr

\* The catch of run_b takes it; that of step() drops it, and PC stays.
Thrown(e, P, s, v) ==
    \/ Taken(e, P, s, v) /\ UNCHANGED left
    \/ /\ left.swallows > 0
       /\ left' = [left EXCEPT !.swallows = @ - 1]
       /\ pc' = P /\ st' = s /\ save' = v
       /\ UNCHANGED <<dear, esr>>

---------------------------------------------------------------------------
(* run_curr_instr *)

\* get_instr: m_instr_cache stays empty, the assignment to m_instr_cache[PC] is one to a
\* temporary; every instruction is translated anew.
FetchFault == Fault(pc, FALSE, TRUE)

FetchFaults ==
    /\ ~halted
    /\ FetchFault # None
    /\ Thrown(FetchFault, pc, st, save)
    /\ UNCHANGED <<code, debug, nip, tlb, halted>>

Fetched == ~halted /\ FetchFault = None

\* check_for_dbg_events: IAC1 or IAC2 is PC, in the mode DBCR1[IACnUS] asks for.
DebugEvent ==
    /\ pc \in debug.iac
    /\ debug.us = 2 => "PR" \notin st.msr
    /\ debug.us = 3 => "PR" \in st.msr

DebugTaken == DebugEvent /\ debug.idm /\ "DE" \in st.msr

\* PC, registers and saved registers when the instruction is called: after the debug
\* interrupt, if one is taken, the instruction executes all the same.
P == IF DebugTaken THEN Vector["DBG"] ELSE pc
S == IF DebugTaken THEN [st EXCEPT !.msr = @ \ Cleared("DBG")] ELSE st
V == IF DebugTaken THEN Saved(save, "DBG", pc, st.msr) ELSE save

\* DBCR0[EDM]: the exception is no sim_except_ppc and ends run_b.
DebugHalts ==
    /\ Fetched
    /\ DebugEvent /\ debug.edm
    /\ pc' = P /\ st' = S /\ save' = V
    /\ halted' = TRUE
    /\ UNCHANGED <<code, debug, nip, dear, esr, tlb, left>>

\* Beyond the code at hand there is nothing to execute.
Called(ops) ==
    Fetched /\ ~(DebugEvent /\ debug.edm) /\ pc \in DOMAIN code /\ code[pc].op \in ops

Ends(s, target) ==
    /\ pc' = target /\ nip' = target
    /\ st' = s
    /\ save' = V
    /\ UNCHANGED <<code, debug, dear, esr, halted, left>>

Fails(e, s) ==
    /\ nip' = Following(nip)
    /\ Thrown(e, P, s, V)
    /\ UNCHANGED <<code, debug, tlb, halted>>

Ordinary == Accessing \cup Branches \cup Moves \cup Barriers \cup {"sc", "tw", "twi"}

AccessFault(k) ==
    LET acc == Accesses(code[pc], S.gpr, S.mem)[k] IN Fault(acc.ea, acc.wr, FALSE)

Faulting ==
    IF code[pc].op \in Accessing
    THEN {k \in 1..AllOf(code[pc], S) : AccessFault(k) # None} ELSE {}

Instruction ==
    /\ Called(Ordinary)
    /\ Raises(code[pc], S) = None
    /\ Faulting = {}
    /\ Ends(Result(code[pc], S, P), Successor(code[pc], S, Following(nip)))
    /\ UNCHANGED tlb

InstructionRaises ==
    /\ Called(Ordinary \cup Returns)
    /\ Raises(code[pc], S) # None
    /\ Fails(Raises(code[pc], S), S)

\* What was accessed before the fault stays accessed.
InstructionFaults ==
    /\ Called(Accessing)
    /\ Raises(code[pc], S) = None
    /\ \E k \in Faulting :
          /\ code[pc].op \in Unordered \/ \A j \in Faulting : k <= j
          /\ Fails(AccessFault(k), After(code[pc], k - 1, S))

ReturnClass(op) == CASE op = "rfi" -> "base" [] op = "rfci" -> "crit" [] op = "rfmci" -> "mc"

Return ==
    /\ Called(Returns)
    /\ "PR" \notin S.msr
    /\ LET from == V[ReturnClass(code[pc].op)]
       IN  Ends([S EXCEPT !.msr = from.msr], Lo(from.at) - (from.at % 4))
    /\ UNCHANGED tlb

\* A handler has loaded the MAS registers: for the page of DEAR (i = 0), writable when ESR
\* has ST, or for execution of the page of SRR0 (i = 1).
tlbwe ==
    /\ Called({"tlbwe"})
    /\ IF code[pc].i = 0
       THEN tlb' = [tlb EXCEPT ![Page(Lo(dear))] =
                        @ \cup IF "ST" \in esr THEN {"r", "w"} ELSE {"r"}]
       ELSE tlb' = [tlb EXCEPT ![Page(Lo(V["base"].at))] = @ \cup {"r", "x"}]
    /\ Ends(S, Following(nip))

---------------------------------------------------------------------------
(* Devices: between two instructions *)

Enabled(nr) ==
    CASE nr = "EI" -> "EE" \in st.msr
      [] nr = "CR" -> "CE" \in st.msr
      [] nr = "MC" -> "ME" \in st.msr

Interrupt(nr) ==
    /\ ~halted /\ left.interrupts[nr] > 0
    /\ left' = [left EXCEPT !.interrupts[nr] = @ - 1]
    /\ Enabled(nr)
    /\ Taken(Exc(nr, "none"), pc, st, save)
    /\ UNCHANGED <<code, debug, nip, tlb, halted>>

\* A machine check while MSR[ME] is 0: checkstop.
Checkstop ==
    /\ ~halted /\ left.interrupts["MC"] > 0 /\ ~Enabled("MC")
    /\ halted' = TRUE
    /\ UNCHANGED <<code, debug, st, pc, nip, save, dear, esr, tlb, left>>

Run ==
    \/ FetchFaults \/ DebugHalts
    \/ Instruction \/ InstructionRaises \/ InstructionFaults
    \/ Return \/ tlbwe

Next == Run \/ (\E nr \in Devices : Interrupt(nr)) \/ Checkstop

\* run_b goes on to the next instruction until the thread ends.
Spec == Init /\ [][Next]_vars /\ WF_vars(Run)

---------------------------------------------------------------------------
(* Properties *)

\* The registers hold register values and memory bytes, whatever is loaded, moved or saved.
Typed ==
    /\ pc \in Doubles /\ nip \in Doubles
    /\ st.gpr \in [0..LastReg -> Doubles]
    /\ st.mem \in [Words -> Bytes]
    /\ st.lr \in Doubles /\ st.ctr \in Doubles /\ st.msr \subseteq MsrBits
    /\ save \in [Classes -> [at : Doubles, msr : SUBSET MsrBits]]
    /\ dear \in Doubles /\ esr \subseteq {"ST", "DLK", "PIL", "PPR", "PTR"}
    /\ tlb \in [0..(NPages - 1) -> SUBSET Permissions]

\* Every variable has its type; the core is in its code, and so is what it can return to.
TypeOK == Typed /\ pc \in DOMAIN code /\ \A c \in Classes : save[c].at \in DOMAIN code

\* The program the core is at when the interrupts in progress have been returned from:
\* each handler returns to what its own class of registers has saved, or ends the program.
Handlers == UNION {Handler[k] : k \in Classes}
EndsIt(a) == code[a].op = "b" /\ code[a].i = Exit

Below(f) ==
    IF \E k \in Classes : f.at \in Handler[k] /\ ~EndsIt(f.at)
    THEN save[CHOOSE k \in Classes : f.at \in Handler[k]] ELSE f

Program ==
    LET f == Below(Below(Below([at |-> pc, msr |-> st.msr])))
    IN  IF f.at \in Handlers THEN [f EXCEPT !.at = Exit] ELSE f

Abstract == INSTANCE GuestProgram
    WITH DebugPc <- Vector["DBG"], watched <- debug.iac,
         pc <- Program.at, st <- [st EXCEPT !.msr = Program.msr]

\* Misses, protection faults and nested interrupts are invisible to the program: whatever
\* they do to PC, NIP, MSR and the save registers, it executes its instructions in order,
\* each once, in its own mode.
ImplementsProgram == Abstract!Spec

\* The instruction at PC may fault after any of its accesses and be executed again from
\* the start: the result is the one it has in one go. The exception is lmw with its base
\* register among those it loads before the last.
Clobbers(i) == i.op = "lmw" /\ i.a # 0 /\ i.a >= i.d /\ i.a < LastReg

RestartIsIdempotent ==
    LET i == code[pc] IN
    pc \in DOMAIN code /\ i.op \in Accessing /\ Raises(i, st) = None /\ ~Clobbers(i) =>
        \A first \in 0..(AllOf(i, st) - 1) :
            LET s == After(i, first, st)
            IN  After(i, AllOf(i, s), s) = After(i, AllOf(i, st), st)

\* The widths of access agree on the order of bytes: what a vector load puts in the
\* elements of its register is what scalar loads read at their addresses, signed or not,
\* and what a store wrote the load of its width reads back, with every other byte as it was.
LoadsAndStoresAgree ==
    LET i == code[pc]
        ea == Ea(i, st.gpr)
        after == After(i, AllOf(i, st), st)
        Hw(k) == LoadN(st.mem, ea + 2 * k, 2)
        Wd(k) == LoadN(st.mem, ea + 4 * k, 4)
        Back(r, a) == LoadN(after.mem, a, Size(i.op)) = st.gpr[r] % 2^(BB * Size(i.op))
        Others(a, n) == \A x \in Words : ToW(x - a) >= n => after.mem[x] = st.mem[x]
    IN  pc \in DOMAIN code /\ i.op \in Accessing /\ Raises(i, st) = None =>
            CASE i.op \in {"evldd", "evldh", "evldw"} ->
                    after.gpr[i.d] = PACK_2W(Wd(0), Wd(1))
              [] i.op \in {"evlwhe", "evlwhsplat"} ->
                    /\ Hi(after.gpr[i.d]) \div 2^HB = Wd(0) \div 2^HB
                    /\ Lo(after.gpr[i.d]) \div 2^HB = Wd(0) % 2^HB
              [] i.op \in {"evlwhou", "evlwhos"} ->
                    /\ Hi(after.gpr[i.d]) % 2^HB = Wd(0) \div 2^HB
                    /\ Lo(after.gpr[i.d]) % 2^HB = Wd(0) % 2^HB
                    /\ i.op = "evlwhos" => /\ Lo(ExtsH(Hw(0))) = Hi(after.gpr[i.d])
                                           /\ Lo(ExtsH(Hw(1))) = Lo(after.gpr[i.d])
              [] i.op = "lmw" ->
                    /\ \A r \in i.d..LastReg : after.gpr[r] = Wd(r - i.d)
                    /\ Others(ea, 0)
              [] i.op \in Stores ->
                    /\ i.op \in {"stb", "sth", "stw"} => Back(i.d, ea)
                    /\ Others(ea, Size(i.op))
              [] i.op = "stmw" ->
                    /\ \A r \in i.d..LastReg : Back(r, ea + 4 * (r - i.d))
                    /\ Others(ea, 4 * (LastReg + 1 - i.d))
              [] i.op = "dcbz" ->
                    /\ \A x \in Words : ToW(x - ea) < CacheLine => after.mem[x] = 0
                    /\ Others(ea, CacheLine)
              [] OTHER -> Others(ea, 0)

\* The program comes to its end: a page that is missing or protected costs a bounded
\* number of faults, handlers return. But rfi returns to sc itself, again and again.
DemandPagingEnds == <>(halted \/ pc = Exit \/ code[Program.at].op = "sc")

\* An instruction that is no branch, return or system call is followed by the next one
\* (cpu_ppc_instr.cc:352-355), unless it raises an exception.
Sequential == Accessing \cup Moves \cup Barriers \cup {"tw", "twi", "tlbwe"}

SequentialFlow ==
    [][pc' # pc /\ pc' = nip' /\ code[pc].op \in Sequential /\ pc \notin debug.iac
          => pc' = Following(pc)]_vars
=============================================================================
