------------------------------ MODULE GuestCode ------------------------------
(***************************************************************************)
(* What an instruction of cpu_ppc_instr.cc does to the registers and the   *)
(* memory of its core: loads and stores of every width, with update, byte  *)
(* reversed, multiple and vector; cache instructions; branches; traps; the *)
(* moves to and from MSR, LR and CTR. Operators on a record s of the       *)
(* program's state: gpr, mem (bytes by effective address), lr, ctr, cr     *)
(* (the bits that are set), msr (the bits that are set).                   *)
(*                                                                         *)
(* An instruction is a record: op the mnemonic without x, u and l; d, a, b *)
(* its registers, i its displacement, immediate, target or SPR; x indexed, *)
(* u with update, l with link; bo and bi of a conditional branch.          *)
(***************************************************************************)
EXTENDS HostWords, Sequences, FiniteSets

CONSTANTS
    LastReg,        \* the last general purpose register, 31 in the code
    CacheLine,      \* m_cache_line_size, a multiple of the 8 bytes dcbz writes at once
    MsrPos          \* position of the bits of the MSR that are modelled

\* MSR[CM] is 0; WE, FP, FE0, FE1, IS and DS are cleared wherever SPE is and are left out.
MsrBits == {"UCLE", "SPE", "CE", "EE", "PR", "ME", "DE"}

\* The address space has room for all registers.
ASSUME GuestAssumption ==
    /\ LastReg \in Nat /\ 4 * (LastReg + 1) <= 2^WB
    /\ CacheLine \in Nat \ {0} /\ CacheLine % 8 = 0
    /\ \A n \in MsrBits : MsrPos[n] \in 0..(DB - 1)

ByteValue == 2^BB

---------------------------------------------------------------------------
(* Memory accesses: big-endian, the pages' default *)

ScalarLoads == {"lbz", "lha", "lhz", "lwz", "lhbrx", "lwbrx"}
Stores      == {"stb", "sth", "stw", "sthbrx", "stwbrx"}

\* evst* load, as their namesakes do: nothing is stored.
VectorLoads == {"evldd", "evldh", "evldw", "evlhhesplat", "evlhhossplat", "evlhhousplat",
                "evlwhe", "evlwhos", "evlwhou", "evlwhsplat", "evlwwsplat",
                "evstdd", "evstdh", "evstdw", "evstwhe", "evstwho", "evstwwe", "evstwwo"}

TouchLoads  == {"dcbf", "dcblc", "dcbst", "dcbt", "dcbtls", "icbi", "icblc", "icbt", "icbtls"}
TouchStores == {"dcba", "dcbi", "dcbtst", "dcbtstls"}
Locks       == {"dcblc", "dcbtls", "dcbtstls", "icblc", "icbtls"}
Multiples   == {"lmw", "stmw", "dcbz"}

Accessing == ScalarLoads \cup Stores \cup VectorLoads \cup TouchLoads \cup TouchStores
                 \cup Multiples

\* The operands of an expression are loaded in no particular order.
Unordered == {"evldh", "evldw", "evlwhe"}

\* Bytes of one access, and how many accesses a load makes.
Size(op) ==
    CASE op \in {"lbz", "stb"} -> 1
      [] op \in {"lha", "lhz", "lhbrx", "sth", "sthbrx", "evldh", "evstdh", "evlhhesplat",
                 "evlhhossplat", "evlhhousplat", "evlwhe", "evlwhos", "evlwhou", "evlwhsplat",
                 "evstwhe", "evstwho"} -> 2
      [] op \in {"evldd", "evstdd", "dcbz"} -> 8
      [] OTHER -> 4

Count(op) ==
    CASE op \in {"evldh", "evstdh"} -> 4
      [] op \in {"evldw", "evstdw", "evlwhe", "evlwhos", "evlwhou", "evlwhsplat", "evstwhe",
                 "evstwho"} -> 2
      [] OTHER -> 1

\* rA = 0 is the number 0, except in the forms with update. Displacements are
\* sign-extended halfwords, but not those of the vector loads, which are unscaled too.
Ea(i, g) ==
    LET base == IF i.a # 0 \/ i.u THEN Lo(g[i.a]) ELSE 0
        disp == IF i.x THEN Lo(g[i.b]) ELSE IF i.op \in VectorLoads THEN i.i ELSE ExtsH(i.i)
        ea == ToW(base + disp)
    IN  IF i.op = "dcbz" THEN ea - (ea % CacheLine) ELSE ea

LoadN(m, ea, n) ==
    LET v[j \in 0..n] == IF j = 0 THEN 0 ELSE v[j - 1] * ByteValue + m[ToW(ea + j - 1)]
    IN  v[n]

\* SWAPB16 and SWAPB32 join the bytes with ||: 1 unless all of them are 0.
SWAPB(v) == Bit(v # 0)

StoredValue(op, v) ==
    CASE op = "sthbrx" -> SWAPB(ToH(v))
      [] op = "stwbrx" -> SWAPB(ToW(v))
      [] OTHER         -> v % 2^(BB * Size(op))

Access(ea, n, wr, val) == [ea |-> ea, n |-> n, wr |-> wr, val |-> val]

\* The accesses of an instruction, in their order.
Accesses(i, g, m) ==
    LET ea == Ea(i, g)
        n == Size(i.op)
    IN  CASE i.op = "lmw"  ->
               [k \in 1..(LastReg + 1 - i.d) |-> Access(ToW(ea + (k - 1) * n), n, FALSE, 0)]
          [] i.op = "stmw" ->
               [k \in 1..(LastReg + 1 - i.d) |->
                   Access(ToW(ea + (k - 1) * n), n, TRUE, Lo(g[i.d + k - 1]))]
          [] i.op = "dcbz" ->
               [k \in 1..(CacheLine \div n) |-> Access(ToW(ea + (k - 1) * n), n, TRUE, 0)]
          [] i.op \in TouchStores ->
               <<Access(ea, n, FALSE, 0), Access(ea, n, TRUE, LoadN(m, ea, n))>>
          [] i.op \in Stores ->
               <<Access(ea, n, TRUE, StoredValue(i.op, g[i.d]))>>
          [] i.op \in ScalarLoads \cup VectorLoads \cup TouchLoads ->
               [k \in 1..Count(i.op) |-> Access(ToW(ea + (k - 1) * n), n, FALSE, 0)]

Covers(acc, x) == acc.wr /\ ToW(x - acc.ea) < acc.n

\* Memory after the first of the accesses.
Written(accs, first, m) ==
    [x \in DOMAIN m |->
        IF \E k \in 1..first : Covers(accs[k], x)
        THEN LET acc == accs[CHOOSE k \in 1..first : Covers(accs[k], x)]
             IN  (acc.val \div 2^(BB * (acc.n - 1 - ToW(x - acc.ea)))) % ByteValue
        ELSE m[x]]

\* Mutant: the words in the order of a little-endian register.
PACK_4HWordsSwapped(h0, h1, h2, h3) == PACK_2W(h2 * 2^HB + h3, h0 * 2^HB + h1)

\* A register of four halfwords.
PACK_4H(h0, h1, h2, h3) == PACK_2W(h0 * 2^HB + h1, h2 * 2^HB + h3)

\* What a load puts into its register, of the values v it loaded.
Loaded(op, v) ==
    CASE op \in {"lbz", "lhz", "lwz", "evldd", "evstdd", "evstwwo"} -> v[1]
      [] op = "lha"                    -> ExtsH(v[1])
      [] op \in {"lhbrx", "lwbrx"}     -> SWAPB(v[1])
      [] op \in {"evldh", "evstdh"}    -> PACK_4H(v[1], v[2], v[3], v[4])
      [] op \in {"evldw", "evstdw"}    -> PACK_2W(v[1], v[2])
      [] op = "evlhhesplat"            -> PACK_4H(v[1], 0, v[1], 0)
      [] op = "evlhhossplat"           -> PACK_2W(Lo(ExtsH(v[1])), Lo(ExtsH(v[1])))
      [] op = "evlhhousplat"           -> PACK_2W(v[1], v[1])
      [] op \in {"evlwhe", "evstwhe"}  -> PACK_4H(v[1], 0, v[2], 0)
      [] op = "evlwhos"                -> PACK_2W(Lo(ExtsH(v[1])), Lo(ExtsH(v[2])))
      [] op \in {"evlwhou", "evstwho"} -> PACK_2W(v[1], v[2])
      [] op = "evlwhsplat"             -> PACK_4H(v[1], v[1], v[2], v[2])
      [] op = "evlwwsplat"             -> PACK_2W(v[1], v[1])
      [] op = "evstwwe"                -> PACK_2W(v[1], 0)

\* Mutant: the base register is updated before the access.
RegistersUpdateFirst(i, accs, first, g, m) ==
    LET v == [k \in 1..first |-> LoadN(m, accs[k].ea, accs[k].n)]
        r == CASE i.op = "lmw" -> [n \in DOMAIN g |-> IF n - i.d + 1 \in 1..first
                                                      THEN v[n - i.d + 1] ELSE g[n]]
               [] first = Len(accs) /\ i.op \in ScalarLoads \cup VectorLoads ->
                      [g EXCEPT ![i.d] = Loaded(i.op, v)]
               [] OTHER -> g
    IN  IF i.u THEN [r EXCEPT ![i.a] = Ea(i, g)] ELSE r

\* Registers after the first accesses: lmw assigns as it goes, the others at the end.
Registers(i, accs, first, g, m) ==
    LET v == [k \in 1..first |-> LoadN(m, accs[k].ea, accs[k].n)]
        all == first = Len(accs)
        r == CASE i.op = "lmw" -> [n \in DOMAIN g |-> IF n - i.d + 1 \in 1..first
                                                      THEN v[n - i.d + 1] ELSE g[n]]
               [] all /\ i.op \in ScalarLoads \cup VectorLoads ->
                      [g EXCEPT ![i.d] = Loaded(i.op, v)]
               [] OTHER -> g
    IN  IF all /\ i.u THEN [r EXCEPT ![i.a] = Ea(i, g)] ELSE r

\* The state after the first accesses of the instruction.
After(i, first, s) ==
    LET accs == Accesses(i, s.gpr, s.mem)
    IN  [s EXCEPT !.gpr = Registers(i, accs, first, s.gpr, s.mem),
                  !.mem = Written(accs, first, s.mem)]

AllOf(i, s) == Len(Accesses(i, s.gpr, s.mem))

---------------------------------------------------------------------------
(* Branches *)

Branches == {"b", "bc", "bclr", "bcctr"}

BO(i, n) == (i.bo \div 2^(4 - n)) % 2

\* bc and bclr, but not bcctr, count.
CtrAfter(i, s) ==
    IF i.op \in {"bc", "bclr"} /\ BO(i, 2) = 0 THEN ToD(s.ctr - 1) ELSE s.ctr

CtrOk(i, s) ==
    \/ i.op \notin {"bc", "bclr"}
    \/ BO(i, 2) = 1
    \/ (Lo(CtrAfter(i, s)) # 0) # (BO(i, 3) = 1)

CondOk(i, s) == i.op = "b" \/ BO(i, 0) = 1 \/ (i.bi \in s.cr) = (BO(i, 1) = 1)

\* Mutant: the low bits of LR and CTR stay.
TargetUnaligned(i, s) ==
    CASE i.op \in {"b", "bc"} -> i.i
      [] i.op = "bclr"        -> s.lr
      [] i.op = "bcctr"       -> s.ctr

Target(i, s) ==
    CASE i.op \in {"b", "bc"} -> i.i
      [] i.op = "bclr"        -> s.lr - (s.lr % 4)
      [] i.op = "bcctr"       -> s.ctr - (s.ctr % 4)

---------------------------------------------------------------------------
(* Traps and the MSR *)

\* The bits of TO are taken from the low end.
Traps(i, s) ==
    LET a == Signed(s.gpr[i.a], WB)
        b == IF i.op = "tw" THEN Signed(s.gpr[i.b], WB) ELSE Signed(i.i, HB)
        bu == IF i.op = "tw" THEN s.gpr[i.b] ELSE i.i
        TO(n) == (i.d \div 2^n) % 2 = 1
    IN  \/ a < b /\ TO(0)
        \/ a > b /\ TO(1)
        \/ a = b /\ TO(2)
        \/ s.gpr[i.a] < bu /\ TO(3)
        \/ s.gpr[i.a] > bu /\ TO(4)

Moves      == {"mtmsr", "mfmsr", "wrtee", "wrteei", "mtspr", "mfspr"}
Returns    == {"rfi", "rfci", "rfmci"}
Privileged == Returns \cup {"mtmsr", "wrtee", "wrteei"}
Barriers   == {"isync", "mbar", "msync", "tlbsync"}

IsSet(v, n) == (v \div 2^n) % 2 = 1

MsrOf(v) == {n \in MsrBits : IsSet(v, MsrPos[n])}

MsrWord(msr) ==
    LET v(n) == IF n \in msr THEN 2^MsrPos[n] ELSE 0
    IN  ToD(v("UCLE") + v("SPE") + v("CE") + v("EE") + v("PR") + v("ME") + v("DE"))

Moved(i, s) ==
    CASE i.op = "mtmsr"  -> [s EXCEPT !.msr = MsrOf(s.gpr[i.d])]
      [] i.op = "mfmsr"  -> [s EXCEPT !.gpr[i.d] = MsrWord(s.msr)]
      [] i.op = "wrtee"  -> [s EXCEPT !.msr = (@ \ {"EE"}) \cup (MsrOf(s.gpr[i.d]) \cap {"EE"})]
      [] i.op = "wrteei" -> [s EXCEPT !.msr = (@ \ {"EE"}) \cup IF i.i = 1 THEN {"EE"} ELSE {}]
      [] i.op = "mtspr"  -> IF i.i = "LR" THEN [s EXCEPT !.lr = s.gpr[i.d]]
                                          ELSE [s EXCEPT !.ctr = s.gpr[i.d]]
      [] i.op = "mfspr"  -> [s EXCEPT !.gpr[i.d] = IF i.i = "LR" THEN s.lr ELSE s.ctr]

---------------------------------------------------------------------------
(* An instruction as a whole *)

\* What the fields of an instruction are. lmw and stmw are not indexed; only scalar loads
\* and stores have a form with update.
IsInstruction(i) ==
    /\ i.op \in Accessing \cup Moves => {i.d, i.a, i.b} \subseteq 0..LastReg
    /\ i.op \in Accessing => i.x \/ i.i \in Int
    /\ i.op \in {"b", "bc"} => i.i \in Doubles
    /\ i.op \in {"lmw", "stmw"} => ~i.x
    /\ i.op \notin ScalarLoads \cup Stores => ~i.u

\* The address of the instruction behind the one at P.
Following(P) == ToD(P + 4)

None == [nr |-> "none", sub |-> "none", ea |-> 0]
Exc(nr, sub) == [None EXCEPT !.nr = nr, !.sub = sub]

\* The exception an instruction throws before it does anything.
Raises(i, s) ==
    CASE i.u /\ (i.a = 0 \/ (i.op \in ScalarLoads /\ i.d = i.a)) -> Exc("PRG", "ILG")
      [] i.op \in Locks /\ "PR" \in s.msr /\ "UCLE" \notin s.msr  -> Exc("DSI", "CL")
      [] i.op \in Privileged /\ "PR" \in s.msr                     -> Exc("PRG", "PRV")
      [] i.op = "sc"                                               -> Exc("SC", "SC")
      [] i.op \in {"tw", "twi"}                                    ->
            IF Traps(i, s) THEN Exc("PRG", "TRAP") ELSE None
      [] OTHER                                                     -> None

\* Registers and memory after the instruction, when PC is P.
Result(i, s, P) ==
    CASE i.op \in Accessing -> After(i, AllOf(i, s), s)
      [] i.op \in Branches  -> [s EXCEPT !.ctr = CtrAfter(i, s), !.lr = IF i.l THEN Following(P) ELSE @]
      [] i.op \in Moves     -> Moved(i, s)
      [] OTHER              -> s

\* Where it goes on; next is NIP after its increment.
Successor(i, s, next) ==
    IF i.op \in Branches /\ CtrOk(i, s) /\ CondOk(i, s) THEN Target(i, s) ELSE next
=============================================================================
