-------------------------------- MODULE Spe --------------------------------
(***************************************************************************)
(* The signal processing instructions of cpu_ppc_instr.cc: the two words   *)
(* of a register are lanes, the accumulator ACC is a third operand, and    *)
(* overflow is recorded in SPEFSCR. The core of Integer with the rest of   *)
(* its register file.                                                      *)
(*                                                                         *)
(* The multiply families are one op per family; the field t of the         *)
(* instruction is the kind (smf, smi, umi, ...), the field s what becomes  *)
(* of the product: "" is written, "a" is written to ACC too, "aaw" and     *)
(* "aa" are added to ACC, "anw" and "an" subtracted from it. What a name   *)
(* promises and the code does not do is modelled as the code does it.      *)
(***************************************************************************)
EXTENDS Integer

CONSTANTS
    FpWords,    \* words a host floating point operation may return
    Cases       \* the programs, each with the register files it starts on

\* operand_value_powerpc: an operand is a field of the instruction, as wide as what it
\* names: a register, a position in a word, a bit or a field of the condition register;
\* an amount of a shift is not sign-extended. The kind is part of the mnemonic.
IsInstruction(i) ==
    /\ {i.d, i.a, i.b} \subseteq Regs
    /\ i.i \in Int
    /\ i.op \in {"rlwimi", "rlwinm", "rlwnm"} => {i.mb, i.me} \subseteq 0..(WB - 1)
    /\ i.op \in {"evslwi", "evsrwis", "evsrwiu"} => i.i \in Nat
    /\ i.op \in CrOps => {i.d, i.a, i.b} \subseteq 0..(WB - 1)
    /\ i.op = "mcrf" => i.a \in CrFields
    /\ i.op \in {"evmheg", "evmhog", "evmws"} => i.t \in {"smf", "smi", "umi"}

\* A register file fills the registers, and the programs are of instructions.
ASSUME CasesAssumption ==
    \A c \in Cases :
        /\ c.gprs \subseteq [Regs -> Doubles]
        /\ \A n \in 1..Len(c.prog) : IsInstruction(c.prog[n])

\* The host's registers are words.
ASSUME HostAssumption == FpWords \subseteq Words /\ DivHigh \subseteq Words

\* The amount of a shift is a field of bits: the width of a word is a power of two. The
\* immediate of evsplati and evsplatfi, of 5 bits, fits in a word.
ASSUME AmountAssumption == 2^WB % (2 * WB) = 0 /\ WB >= 5

VARIABLES
    acc,        \* ACC
    spefscr,    \* OVH, OV, their sticky copies, and whether a floating point flag is up
    mxcsr       \* the host's sticky error flags: whether one is up

speVars == <<acc, spefscr, mxcsr>>
vars    == <<gpr, xer, cr, prog, k, down, acc, spefscr, mxcsr>>

Spefscrs == [ovh : BOOLEAN, ov : BOOLEAN, sovh : BOOLEAN, sov : BOOLEAN, fp : BOOLEAN]

---------------------------------------------------------------------------
(* The macros *)

Lanes == {0, 1}     \* the high word and the low word

W(x, l) == IF l = 0 THEN Hi(x) ELSE Lo(x)

Pack(F(_)) == PACK_2W(F(0), F(1))

SATURATE(ov, carry, ovn, ovp, value) == IF ov THEN IF carry THEN ovn ELSE ovp ELSE value

SL(w, cnt) == IF cnt > WB - 1 THEN 0 ELSE ToW(w * 2^cnt)

\* The low word in reverse order of its bits.
BITREVERSE(x) ==
    LET bit(n) == (x \div 2^n) % 2
        rev[n \in 0..WB] == IF n = 0 THEN 0 ELSE rev[n - 1] * 2 + bit(n - 1)
    IN  rev[WB]

\* Fractional products of halfwords, as a word and as a double word.
SF(a, b)  == ToW(2 * Signed(a, HB) * Signed(b, HB))
GSF(a, b) == ToD(2 * Signed(a, HB) * Signed(b, HB))

\* Mutant: the sticky bits are assigned, not accumulated.
UPDATE_SPEFSCR_OVLoose(ovh, ov) ==
    [spefscr EXCEPT !.ovh = ovh, !.ov = ov, !.sovh = ovh, !.sov = ov]

UPDATE_SPEFSCR_OV(ovh, ov) ==
    [spefscr EXCEPT !.ovh = ovh, !.ov = ov, !.sovh = @ \/ ovh, !.sov = @ \/ ov]

\* sign_exts_f: the bits x to y, sign- or zero-extended. Counts of the host's shifts
\* are modulo the width, which also gives what negative ones do.
sign_exts_f(n, x, y, sgn) ==
    LET bmask(bp) == IF bp = 0 THEN 2^DB - 1 ELSE 2^((DB - bp) % DB) - 1
        mask == IF x < y THEN bmask(x) ^^ bmask(y + 1)
                ELSE Compl(bmask(x + 1) ^^ bmask(y))
        rshft == CHOOSE r \in 0..DB : mask % 2^r = 0 /\ (mask \div 2^r) % 2 = 1
        val == (n & mask) \div 2^rshft
    IN  IF sgn /\ B_N(n, x) = 1 THEN val | Compl(2^((y - x + 1) % DB) - 1) ELSE val

---------------------------------------------------------------------------
(* The end of an instruction, and the sums the families share *)

\* REG0 and, if toAcc, ACC become value.
SpeDone(value, toAcc, fscr) ==
    /\ Complete([gpr EXCEPT ![ic.d] = value], xer, cr)
    /\ acc' = IF toAcc THEN value ELSE acc
    /\ spefscr' = fscr
    /\ UNCHANGED mxcsr

SpeCompare(crF) == Complete(gpr, xer, [cr EXCEPT ![ic.d] = crF]) /\ UNCHANGED speVars

\* LT, GT, EQ, SO of the comparisons of the lanes.
FORM_CRX(ch, cl) == 8 * Bit(ch) + 4 * Bit(cl) + 2 * Bit(ch \/ cl) + Bit(ch /\ cl)

Subtracts(s) == s \in {"anw", "an"}
Accumulates(s) == s \in {"aaw", "anw", "aa", "an"}

\* Mutant: the product is added where it is to be subtracted.
ModuloAdds(s, l, p) == IF Accumulates(s) THEN ToW(W(acc, l) + p) ELSE p

\* A word product p of lane l taken as s says, modulo the word.
Modulo(s, l, p) ==
    IF ~Accumulates(s) THEN p
    ELSE IF Subtracts(s) THEN ToW(W(acc, l) - p) ELSE ToW(W(acc, l) + p)

\* The same for the whole register.
ModuloDouble(s, p) ==
    IF ~Accumulates(s) THEN p ELSE IF Subtracts(s) THEN ToD(acc - p) ELSE ToD(acc + p)

\* Mutant: overflow is read off the wrong pair of bits.
SignedSumLate(s, l, p, ovn) ==
    LET x == IF Subtracts(s) THEN Signed(W(acc, l), WB) - Signed(p, WB)
                             ELSE Signed(W(acc, l), WB) + Signed(p, WB)
        n(bit) == B_N(ToD(x), bit) = 1
        ov == n(WB) # n(WB + 1)
    IN  [v |-> SATURATE(ov, n(WB - 1), ovn, MaxW, Lo(ToD(x))), ov |-> ov]

\* ACC and the word p as signed, saturated: overflow is bits 31 and 32 apart.
SignedSum(s, l, p, ovn) ==
    LET x == IF Subtracts(s) THEN Signed(W(acc, l), WB) - Signed(p, WB)
                             ELSE Signed(W(acc, l), WB) + Signed(p, WB)
        n(bit) == B_N(ToD(x), bit) = 1
        ov == n(WB - 1) # n(WB)
    IN  [v |-> SATURATE(ov, n(WB - 1), ovn, MaxW, Lo(ToD(x))), ov |-> ov]

\* As unsigned, saturated: overflow is bit 31.
UnsignedSum(s, l, p) ==
    LET x == IF Subtracts(s) THEN ToD(W(acc, l) - p) ELSE W(acc, l) + p
        ov == B_N(x, WB - 1) = 1
        sat == IF Subtracts(s) THEN 0 ELSE 2^WB - 1
    IN  [v |-> SATURATE(ov, FALSE, sat, sat, Lo(x)), ov |-> ov]

\* An instruction of two saturated lanes.
SpeSaturated(r) ==
    SpeDone(PACK_2W(r[0].v, r[1].v), TRUE, UPDATE_SPEFSCR_OV(r[0].ov, r[1].ov))

---------------------------------------------------------------------------
(* brinc to evextsh *)

\* The increment of a bit-reversed index in the low word.
brinc ==
    /\ Fetch({"brinc"})
    /\ LET mask == Lo(REG2)
           a    == Lo(REG1)
           d    == BITREVERSE(1 + BITREVERSE(a | Compl(mask)))
       IN  SpeDone(Hi(REG1) * 2^WB + (d & mask), FALSE, spefscr)

evabs_addiw ==
    /\ Fetch({"evabs", "evaddiw"})
    /\ LET v(l) == LET w == W(REG1, l)
                   IN  IF ic.op = "evabs" THEN IF Signed(w, WB) > 0 THEN w ELSE ToW(-w)
                       ELSE ToW(w + ic.i)
       IN  SpeDone(Pack(v), FALSE, spefscr)

\* evaddusiaaw adds in 32 bits, so that it neither saturates nor overflows.
evadd_aaw ==
    \/ /\ Fetch({"evaddsmiaaw", "evaddumiaaw"})
       /\ SpeDone(Pack(LAMBDA l : ToW(W(acc, l) + W(REG1, l))), TRUE, spefscr)
    \/ /\ Fetch({"evaddusiaaw"})
       /\ SpeDone(Pack(LAMBDA l : ToW(W(acc, l) + W(REG1, l))), TRUE,
                  UPDATE_SPEFSCR_OV(FALSE, FALSE))
    \/ /\ Fetch({"evaddssiaaw"})
       /\ SpeSaturated([l \in Lanes |-> SignedSum("aaw", l, W(REG1, l), MinW)])

evaddw_and ==
    /\ Fetch({"evaddw", "evand", "evandc"})
    /\ SpeDone(CASE ic.op = "evaddw" -> Pack(LAMBDA l : ToW(W(REG1, l) + W(REG2, l)))
                 [] ic.op = "evand"  -> REG1 & REG2
                 [] ic.op = "evandc" -> REG1 & Compl(REG2),
               FALSE, spefscr)

evcmp ==
    /\ Fetch({"evcmpeq", "evcmpgts", "evcmpgtu", "evcmplts", "evcmpltu"})
    /\ LET a(l) == IF ic.op \in {"evcmpgts", "evcmplts"} THEN Signed(W(REG1, l), WB)
                                                         ELSE W(REG1, l)
           b(l) == IF ic.op \in {"evcmpgts", "evcmplts"} THEN Signed(W(REG2, l), WB)
                                                         ELSE W(REG2, l)
           c(l) == CASE ic.op = "evcmpeq"                   -> a(l) = b(l)
                     [] ic.op \in {"evcmpgts", "evcmpgtu"} -> a(l) > b(l)
                     [] OTHER                               -> a(l) < b(l)
       IN  SpeCompare(FORM_CRX(c(0), c(1)))

\* The length of the run of bits equal to the first, or of zeros, at the top of a lane.
evcntl ==
    /\ Fetch({"evcntlsw", "evcntlzw"})
    /\ LET bit(l, n) == (W(REG1, l) \div 2^(WB - 1 - n)) % 2
           s(l) == IF ic.op = "evcntlsw" THEN bit(l, 0) ELSE 0
           cnt(l) == CHOOSE n \in 0..WB : /\ \A j \in 0..(n - 1) : bit(l, j) = s(l)
                                          /\ n < WB => bit(l, n) # s(l)
       IN  SpeDone(Pack(cnt), FALSE, spefscr)

\* Not implemented: a fatal exception, which nobody catches; NIP has been advanced.
evdivw == Fetch({"evdivws", "evdivwu"}) /\ down' = TRUE
          /\ UNCHANGED <<gpr, xer, cr, prog, k>> /\ UNCHANGED speVars

\* eveqv is the exclusive or, not its complement.
eveqv_ext ==
    /\ Fetch({"eveqv", "evextsb", "evextsh"})
    /\ SpeDone(CASE ic.op = "eveqv"   -> REG1 ^^ REG2
                 [] ic.op = "evextsb" -> Pack(LAMBDA l : ToW(Signed(W(REG1, l), BB)))
                 [] ic.op = "evextsh" -> Pack(LAMBDA l : ToW(Signed(W(REG1, l), HB))),
               FALSE, spefscr)

evmerge ==
    /\ Fetch({"evmergehi", "evmergelo", "evmergehilo", "evmergelohi"})
    /\ SpeDone(PACK_2W(W(REG1, IF ic.op \in {"evmergehi", "evmergehilo"} THEN 0 ELSE 1),
                       W(REG2, IF ic.op \in {"evmergehi", "evmergelohi"} THEN 0 ELSE 1)),
               FALSE, spefscr)

---------------------------------------------------------------------------
(* Halfword multiplies: even halfwords 0 and 2, odd ones 1 and 3 *)

Signed2(a, b) == ToW(Signed(a, HB) * Signed(b, HB))

EvenA(l) == Half(REG1, 2 * l)
EvenB(l) == Half(REG2, 2 * l)
OddA(l)  == Half(REG1, 2 * l + 1)
OddB(l)  == Half(REG2, 2 * l + 1)

\* Both operands are the most negative fraction: the product is no fraction.
Most(a, b) == a = 2^(HB - 1) /\ b = 2^(HB - 1)

\* Guarded: the product of the low word's halfword, extended to the register.
\* evmhegsmian adds, like evmhegsmiaa.
evmheg ==
    /\ Fetch({"evmheg"})
    /\ LET p == CASE ic.t = "smf" -> GSF(EvenA(1), EvenB(1))
                  [] ic.t = "smi" -> ExtsW(Signed2(EvenA(1), EvenB(1)))
                  [] ic.t = "umi" -> EvenA(1) * EvenB(1)
       IN  SpeDone(ModuloDouble(IF ic.t = "smi" THEN "aa" ELSE ic.s, p), TRUE, spefscr)

evmhesm ==
    /\ Fetch({"evmhesm"})
    /\ LET p(l) == IF ic.t = "smf" THEN SF(EvenA(l), EvenB(l)) ELSE Signed2(EvenA(l), EvenB(l))
       IN  SpeDone(Pack(LAMBDA l : Modulo(ic.s, l, p(l))), ic.s # "", spefscr)

\* Saturated fractions. With an accumulate, only the saturation of the product is
\* reported, not that of the sum.
evmhessf ==
    /\ Fetch({"evmhessf"})
    /\ LET mov(l) == Most(EvenA(l), EvenB(l))
           p(l)   == IF mov(l) THEN MaxW ELSE SF(EvenA(l), EvenB(l))
           v(l)   == IF Accumulates(ic.s) THEN SignedSum(ic.s, l, p(l), MinW).v ELSE p(l)
       IN  SpeDone(Pack(v), ic.s # "", UPDATE_SPEFSCR_OV(mov(0), mov(1)))

\* The product is that of the unsigned halfwords; the low lane squares REG1's.
evmhessi ==
    /\ Fetch({"evmhessi"})
    /\ LET p(l) == IF l = 0 THEN EvenA(0) * EvenB(0) ELSE EvenA(1) * EvenA(1)
       IN  SpeSaturated([l \in Lanes |-> SignedSum(ic.s, l, p(l), MinW)])

evmheumi ==
    /\ Fetch({"evmheumi"})
    /\ SpeDone(Pack(LAMBDA l : Modulo(ic.s, l, EvenA(l) * EvenB(l))), ic.s # "", spefscr)

evmheusi ==
    /\ Fetch({"evmheusi"})
    /\ SpeSaturated([l \in Lanes |-> UnsignedSum(ic.s, l, EvenA(l) * EvenB(l))])

\* evmhogsmi takes the product of the unsigned halfwords for a signed word.
evmhog ==
    /\ Fetch({"evmhog"})
    /\ LET p == CASE ic.t = "smf" -> GSF(OddA(1), OddB(1))
                  [] ic.t = "smi" -> ExtsW(OddA(1) * OddB(1))
                  [] ic.t = "umi" -> OddA(1) * OddB(1)
       IN  SpeDone(ModuloDouble(ic.s, p), TRUE, spefscr)

\* evmhosmi, unlike evmhesmi, takes the halfwords as unsigned.
evmhosm ==
    /\ Fetch({"evmhosm"})
    /\ LET p(l) == IF ic.t = "smf" THEN SF(OddA(l), OddB(l)) ELSE OddA(l) * OddB(l)
       IN  SpeDone(Pack(LAMBDA l : Modulo(ic.s, l, p(l))), ic.s # "", spefscr)

\* Without an accumulate the high lane is the square of REG1's halfword.
evmhossf ==
    /\ Fetch({"evmhossf"})
    /\ LET mov(l) == Most(OddA(l), OddB(l))
           b(l)   == IF l = 0 /\ ~Accumulates(ic.s) THEN OddA(0) ELSE OddB(l)
           p(l)   == IF mov(l) THEN MaxW ELSE SF(OddA(l), b(l))
           sum(l) == SignedSum(ic.s, l, p(l), MinW)
           r      == [l \in Lanes |-> [v |-> sum(l).v, ov |-> sum(l).ov \/ mov(l)]]
       IN  IF Accumulates(ic.s) THEN SpeSaturated(r)
           ELSE SpeDone(Pack(p), ic.s # "", UPDATE_SPEFSCR_OV(mov(0), mov(1)))

evmhossi ==
    /\ Fetch({"evmhossi"})
    /\ SpeSaturated([l \in Lanes |-> SignedSum(ic.s, l, OddA(l) * OddB(l), MinW)])

evmhoumi ==
    /\ Fetch({"evmhoumi"})
    /\ SpeDone(Pack(LAMBDA l : Modulo(ic.s, l, OddA(l) * OddB(l))), ic.s # "", spefscr)

evmhousi ==
    /\ Fetch({"evmhousi"})
    /\ SpeSaturated([l \in Lanes |-> UnsignedSum(ic.s, l, OddA(l) * OddB(l))])

evmra == Fetch({"evmra"}) /\ SpeDone(REG1, TRUE, spefscr)

---------------------------------------------------------------------------
(* Word multiplies *)

WordProduct(l) == W(REG1, l) * W(REG2, l)

\* Both words are the most negative.
MostW(l) == W(REG1, l) = MinW /\ W(REG2, l) = MinW

\* The high word of SF, which is a word itself: 0. Only umi has a product.
evmwh ==
    /\ Fetch({"evmwh"})
    /\ LET mov(l) == ic.t = "ssf" /\ MostW(l)
           v(l) == CASE ic.t = "umi" -> Hi(WordProduct(l))
                     [] mov(l)       -> MaxW
                     [] OTHER        -> Hi(SF(Half(REG1, 2 * l + 1), Half(REG2, 2 * l + 1)))
       IN  SpeDone(Pack(v), ic.s = "a",
               IF ic.t = "ssf" THEN UPDATE_SPEFSCR_OV(mov(0), mov(1)) ELSE spefscr)

\* The low word of the product. A negative low lane of ssi saturates to 0x8000000.
evmwl ==
    /\ Fetch({"evmwl"})
    /\ LET p(l) == Lo(WordProduct(l))
           ovn(l) == IF l = 0 THEN MinW ELSE 2^(WB - 5)
       IN  CASE ic.t = "ssi" -> SpeSaturated([l \in Lanes |-> SignedSum(ic.s, l, p(l), ovn(l))])
             [] ic.t = "usi" -> SpeSaturated([l \in Lanes |-> UnsignedSum(ic.s, l, p(l))])
             [] OTHER        -> SpeDone(Pack(LAMBDA l : Modulo(ic.s, l, p(l))),
                                        ic.s # "", spefscr)

\* The whole product of the low words; a fraction is that of their low halfwords.
evmws ==
    /\ Fetch({"evmws"})
    /\ LET p == CASE ic.t = "smf" -> SF(OddA(1), OddB(1))
                  [] ic.t = "smi" -> x86_imulf(Lo(REG1), Lo(REG2))
                  [] ic.t = "umi" -> WordProduct(1)
       IN  SpeDone(ModuloDouble(ic.s, p), ic.s # "", spefscr)

\* Overflow of the accumulate is the host's carry against the sign of the sum.
evmwssf ==
    /\ Fetch({"evmwssf"})
    /\ LET mov == MostW(1)
           p   == IF mov THEN 2^(DB - 1) - 1 ELSE SF(OddA(1), OddB(1))
           v   == ModuloDouble(ic.s, p)
           cf  == IF Subtracts(ic.s) THEN acc < p ELSE acc + p >= 2^DB
           ov  == Accumulates(ic.s) /\ cf # (B_N(v, 0) = 1)
       IN  SpeDone(v, ic.s # "", UPDATE_SPEFSCR_OV(FALSE, ov \/ mov))

---------------------------------------------------------------------------
(* evnand to evxor *)

evlogic ==
    /\ Fetch({"evnand", "evneg", "evnor", "evor", "evorc"})
    /\ SpeDone(CASE ic.op = "evnand" -> Compl(REG1 & REG2)
                 [] ic.op = "evneg"  -> Pack(LAMBDA l : x86_neg(W(REG1, l)).r)
                 [] ic.op = "evnor"  -> Compl(REG1 | REG2)
                 [] ic.op = "evor"   -> REG1 | REG2
                 [] ic.op = "evorc"  -> REG1 | Compl(REG2),
               FALSE, spefscr)

evrotate_sel ==
    /\ Fetch({"evrlw", "evrlwi", "evrndw", "evsel"})
    /\ LET v(l) ==
             CASE ic.op = "evrlw"  -> ROTL32(W(REG1, l), W(REG2, l))
               [] ic.op = "evrlwi" -> ROTL32(W(REG1, l), ic.i)
               [] ic.op = "evrndw" -> (ToW(W(REG1, l) + 2^(HB - 1)) \div 2^HB) * 2^HB
               [] ic.op = "evsel"  -> IF get_crf(4 * ic.i + l) = 1 THEN W(REG1, l)
                                                                    ELSE W(REG2, l)
       IN  SpeDone(Pack(v), FALSE, spefscr)

\* A count of evslw is 6 bits. The low lane of evslwi shifts REG2.
evshift_left ==
    /\ Fetch({"evslw", "evslwi", "evsplatfi", "evsplati"})
    /\ LET v(l) == CASE ic.op = "evslw"     -> SL(W(REG1, l), W(REG2, l) % (2 * WB))
                     [] ic.op = "evslwi"    -> SL(IF l = 0 THEN Hi(REG1) ELSE Lo(REG2), ic.i)
                     [] ic.op = "evsplatfi" -> (ic.i % 32) * 2^(WB - 5)
                     [] ic.op = "evsplati"  -> ToW(Signed(ic.i, 5))
       IN  SpeDone(Pack(v), FALSE, spefscr)

\* The immediate forms shift REG0. A count of a whole word and more makes the field
\* empty or negative.
evshift_right ==
    /\ Fetch({"evsrwis", "evsrwiu", "evsrws", "evsrwu"})
    /\ LET imm == ic.op \in {"evsrwis", "evsrwiu"}
           n(l) == IF imm THEN ic.i ELSE W(REG2, l) % (2 * WB)
           v(l) == Lo(sign_exts_f(IF imm THEN REG0 ELSE REG1, l * WB, l * WB + WB - 1 - n(l),
                                  ic.op \in {"evsrwis", "evsrws"}))
       IN  SpeDone(Pack(v), FALSE, spefscr)

evsubf ==
    /\ Fetch({"evsubfsmiaaw", "evsubfumiaaw", "evsubfssiaaw", "evsubfusiaaw", "evsubfw",
              "evsubifw"})
    /\ CASE ic.op \in {"evsubfsmiaaw", "evsubfumiaaw"} ->
              SpeDone(Pack(LAMBDA l : ToW(W(acc, l) - W(REG1, l))), TRUE, spefscr)
         [] ic.op = "evsubfssiaaw" ->
              SpeSaturated([l \in Lanes |-> SignedSum("anw", l, W(REG1, l), MinW)])
         [] ic.op = "evsubfusiaaw" ->
              SpeSaturated([l \in Lanes |-> UnsignedSum("anw", l, W(REG1, l))])
         [] ic.op = "evsubfw" ->
              SpeDone(Pack(LAMBDA l : ToW(W(REG2, l) - W(REG1, l))), FALSE, spefscr)
         [] ic.op = "evsubifw" ->
              SpeDone(Pack(LAMBDA l : ToW(W(REG2, l) - ic.i)), FALSE, spefscr)

evxor == Fetch({"evxor"}) /\ SpeDone(REG1 ^^ REG2, FALSE, spefscr)

---------------------------------------------------------------------------
(* Floating point: the host computes; what it returns and raises is free *)

\* update_spefscr after an operation that raised: with an error up in the host's
\* flags, which nothing ever lowers, it returns at once; without one it lowers the
\* flags of SPEFSCR.
update_spefscr(m, s) == IF m THEN s ELSE [s EXCEPT !.fp = FALSE]

\* evfsneg sets the signs; it does not invert them.
evfs_sign ==
    /\ Fetch({"evfsabs", "evfsnabs", "evfsneg"})
    /\ SpeDone(Pack(LAMBDA l : (W(REG1, l) % MinW) + (IF ic.op = "evfsabs" THEN 0 ELSE MinW)),
               FALSE, spefscr)

evfs_arith ==
    /\ Fetch({"evfsadd", "evfssub", "evfsmul", "evfsdiv"})
    /\ \E u, v \in FpWords, high, low \in BOOLEAN :
         LET m1 == mxcsr \/ high
             m2 == m1 \/ low
         IN  /\ Complete([gpr EXCEPT ![ic.d] = PACK_2W(u, v)], xer, cr)
             /\ mxcsr' = m2
             /\ spefscr' = update_spefscr(m2, update_spefscr(m1, spefscr))
    /\ UNCHANGED acc

\* The test forms do not look at the flags the comparisons have raised.
evfs_compare ==
    /\ Fetch({"evfscmp", "evfstst"})
    /\ \E ch, cl, high, low \in BOOLEAN :
         LET m1 == mxcsr \/ high
             m2 == m1 \/ low
         IN  /\ Complete(gpr, xer, [cr EXCEPT ![ic.d] = FORM_CRX(ch, cl)])
             /\ mxcsr' = m2
             /\ spefscr' = IF ic.op = "evfstst" THEN spefscr
                           ELSE update_spefscr(m2, update_spefscr(m1, spefscr))
    /\ UNCHANGED acc

efd_sign ==
    /\ Fetch({"efdabs", "efdnabs", "efdneg"})
    /\ LET top == 2^(DB - 1)
       IN  SpeDone(CASE ic.op = "efdabs"  -> REG1 % top
                     [] ic.op = "efdnabs" -> (REG1 % top) + top
                     [] ic.op = "efdneg"  -> REG1 ^^ top,
                   FALSE, spefscr)

---------------------------------------------------------------------------
SpeNext ==
    \/ brinc \/ evabs_addiw \/ evadd_aaw \/ evaddw_and \/ evcmp \/ evcntl \/ evdivw
    \/ eveqv_ext \/ evmerge
    \/ evmheg \/ evmhesm \/ evmhessf \/ evmhessi \/ evmheumi \/ evmheusi
    \/ evmhog \/ evmhosm \/ evmhossf \/ evmhossi \/ evmhoumi \/ evmhousi
    \/ evmra \/ evmwh \/ evmwl \/ evmws \/ evmwssf
    \/ evlogic \/ evrotate_sel \/ evshift_left \/ evshift_right \/ evsubf \/ evxor
    \/ evfs_sign \/ evfs_arith \/ evfs_compare \/ efd_sign

(* A run: one program of Cases on one of its register files *)
Init ==
    /\ \E c \in Cases : prog = c.prog /\ gpr \in c.gprs
    /\ \E up, carry \in BOOLEAN :
         /\ xer = [so |-> up, ov |-> FALSE, ca |-> carry]
         /\ cr = [f \in CrFields |-> IF up THEN 9 ELSE 4]
         /\ spefscr = [ovh |-> FALSE, ov |-> FALSE, sovh |-> up, sov |-> up, fp |-> up]
    /\ k = 1 /\ down = FALSE
    /\ acc = 0 /\ mxcsr = FALSE

Next == (IntegerNext /\ UNCHANGED speVars) \/ SpeNext

Spec == Init /\ [][Next]_vars

---------------------------------------------------------------------------
(* Properties *)

\* The registers keep to their widths: what an instruction writes is 64 bits wide, and
\* a field of the condition register is a nibble.
TypeOK ==
    /\ gpr \in [Regs -> Doubles] /\ acc \in Doubles
    /\ xer \in Xers /\ cr \in [CrFields -> 0..15]
    /\ spefscr \in Spefscrs /\ mxcsr \in BOOLEAN
    /\ k \in 1..(Len(prog) + 1) /\ down \in BOOLEAN

Clamp(x, lo, hi) == IF x < lo THEN lo ELSE IF x > hi THEN hi ELSE x

\* What the saturating instructions add to ACC or subtract from it, in lane l.
Term(i, l) ==
    CASE i.op \in {"evaddssiaaw", "evsubfssiaaw"} -> Signed(W(gpr[i.a], l), WB)
      [] i.op = "evsubfusiaaw" -> W(gpr[i.a], l)
      [] i.op = "evmheusi" -> Half(gpr[i.a], 2 * l) * Half(gpr[i.b], 2 * l)
      [] i.op = "evmhousi" -> Half(gpr[i.a], 2 * l + 1) * Half(gpr[i.b], 2 * l + 1)
      [] i.op = "evmhossf" ->
            Clamp(2 * Signed(Half(gpr[i.a], 2 * l + 1), HB)
                    * Signed(Half(gpr[i.b], 2 * l + 1), HB), -MinW, MaxW)

SignedSaturating   == {"evaddssiaaw", "evsubfssiaaw", "evmhossf"}
UnsignedSaturating == {"evsubfusiaaw", "evmheusi", "evmhousi"}

\* Whether i subtracts it.
Lowers(i) == i.op \in {"evsubfssiaaw", "evsubfusiaaw"} \/ (i.op # "evaddssiaaw" /\ Subtracts(i.s))

\* Lane l of ACC after i in the integers, and what it is to be. ACC is what register 3
\* held.
Exact(i, l) ==
    LET a == IF i.op \in SignedSaturating THEN Signed(W(gpr[3], l), WB) ELSE W(gpr[3], l)
    IN  IF Lowers(i) THEN a - Term(i, l) ELSE a + Term(i, l)

Clamped(i, l) ==
    IF i.op \in SignedSaturating THEN Clamp(Exact(i, l), -MinW, MaxW)
                                 ELSE Clamp(Exact(i, l), 0, 2^WB - 1)

\* A saturating accumulate computes the sum in the integers and clamps it to the range
\* of a word, each lane on its own, whatever ACC held: the sign tests on bits 31 and 32
\* of a 64-bit sum are that clamp. ACC is loaded by evmra from register 3, which the
\* accumulate, like its operands, does not overwrite.
SaturationClamps ==
    (Len(prog) = 2 /\ k = 3 /\ prog[1].op = "evmra" /\ prog[1].a = 3
       /\ prog[2].op \in SignedSaturating \cup UnsignedSaturating
       /\ prog[2].d \notin {prog[2].a, prog[2].b, 3}
       /\ (prog[2].op = "evmhossf" => Accumulates(prog[2].s))) =>
    LET i == prog[2]
    IN  /\ \A l \in Lanes : W(acc, l) = ToW(Clamped(i, l))
        /\ gpr[i.d] = acc
        /\ (Clamped(i, 0) # Exact(i, 0) => spefscr.ovh)
        /\ (Clamped(i, 1) # Exact(i, 1) => spefscr.ov)

\* The modulo families whose accumulate and subtract undo each other: all but the
\* guarded signed even one, whose "an" form adds (instr.cc:2744). Neither instruction
\* overwrites register 3, nor the first the operands of the second.
Undone(i, j) ==
    /\ \/ /\ i.op = j.op /\ i.t = j.t
          /\ <<i.s, j.s>> \in {<<"aaw", "anw">>, <<"aa", "an">>}
          /\ \/ i.op \in {"evmhesm", "evmheumi", "evmhosm", "evmhoumi"}
             \/ i.op \in {"evmhog", "evmws"} /\ i.t \in {"smf", "smi", "umi"}
             \/ i.op = "evmwl" /\ i.t \in {"smi", "umi"}
             \/ i.op = "evmheg" /\ i.t \in {"smf", "umi"}
       \/ i.op = "evaddsmiaaw" /\ j.op = "evsubfsmiaaw"
       \/ i.op = "evaddumiaaw" /\ j.op = "evsubfumiaaw"
    /\ i.a = j.a /\ i.b = j.b /\ i.d \notin {i.a, i.b, 3} /\ j.d # 3

\* Accumulating a product and then subtracting the same product brings ACC back: the
\* two forms of a family take the same halfwords, extend them alike and keep carries
\* out of the other lane.
ModuloRoundTrip ==
    (Len(prog) = 3 /\ k = 4 /\ prog[1].op = "evmra" /\ prog[1].a = 3
       /\ Undone(prog[2], prog[3])) => acc = gpr[3]

\* An overflow stays on record: the sticky bits are never taken back by a later
\* instruction, and an instruction that leaves OV or OVH up has set their sticky copies.
OverflowIsSticky ==
    [][ /\ spefscr.sov => spefscr'.sov
        /\ spefscr.sovh => spefscr'.sovh
        /\ spefscr'.ov => spefscr'.sov
        /\ spefscr'.ovh => spefscr'.sovh ]_vars

\* Pairs of a scalar and a vector instruction that promise the same word.
SameWord ==
    { <<"add", "evaddw">>, <<"subf", "evsubfw">>, <<"neg", "evneg">>, <<"and", "evand">>,
      <<"andc", "evandc">>, <<"or", "evor">>, <<"orc", "evorc">>, <<"nand", "evnand">>,
      <<"nor", "evnor">>, <<"xor", "evxor">>, <<"cntlzw", "evcntlzw">>,
      <<"extsb", "evextsb">>, <<"extsh", "evextsh">>, <<"slw", "evslw">>,
      <<"srw", "evsrwu">>, <<"sraw", "evsrws">>, <<"mullw", "evmws">> }

\* The low lane of a vector instruction is what the scalar instruction of the same
\* meaning computes, though the code of the two has nothing in common: one goes through
\* the host's instructions or rotate and mask, the other through casts and bit fields.
\* The low word of a product is the same for signed and unsigned words.
\* Shifts by 31 (where the mask of the scalar ones is wrong, utils.h:272) and by more
\* than a word (where the field of the vector ones is empty) are left out.
VectorAgreesWithScalar ==
    (Len(prog) = 2 /\ k = 3 /\ <<prog[1].op, prog[2].op>> \in SameWord
       /\ prog[1].a = prog[2].a /\ prog[1].b = prog[2].b
       /\ {prog[1].d, prog[2].d} \cap {prog[1].a, prog[1].b} = {}
       /\ (prog[2].op = "evmws" => prog[2].t \in {"smi", "umi"} /\ prog[2].s = "")
       /\ (prog[1].op \in {"slw", "srw", "sraw"} =>
               gpr[prog[1].b] % (2 * WB) < WB - 1)) =>
    Lo(gpr[prog[1].d]) = Lo(gpr[prog[2].d])

=============================================================================
