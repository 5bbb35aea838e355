------------------------------ MODULE Integer ------------------------------
(***************************************************************************)
(* The integer instructions of cpu_ppc_instr.cc on the register file of    *)
(* one core: add and subtract, multiply and divide, logical, compare,      *)
(* condition register, rotate and shift, with the XER and CR updates of    *)
(* globals.cpp. Registers are 64 bits wide and the instructions work on    *)
(* words of 32 (HostWords scales both); MSR[CM] is 0, as for the e500v2.   *)
(*                                                                         *)
(* A decoded instruction is a record: op the mnemonic without its suffix,  *)
(* oe and rc for the "o" and "." forms, d, a, b the operands ARG0 to ARG2, *)
(* i the immediate or the L field, mb and me the mask. The core runs the   *)
(* straight-line program prog once.                                        *)
(***************************************************************************)
EXTENDS Bits, Sequences

CONSTANTS
    Regs,       \* the general purpose registers a program names; 0 is one of them
    DivHigh     \* what the host's edx may hold when idiv or div divides edx:eax

VARIABLES
    gpr,        \* gpr[n], n \in Regs
    xer,        \* SO, OV and CA
    cr,         \* the condition register, one nibble LT GT EQ SO per field
    prog,       \* the program
    k,          \* the position of the next instruction in it
    down        \* the process has died of a host divide error

CrFields == 0..(WB \div 4 - 1)
Xers     == [so : BOOLEAN, ov : BOOLEAN, ca : BOOLEAN]

---------------------------------------------------------------------------
(* globals.cpp: the condition and exception registers *)

update_cr0(value, x) ==
    LET v == Signed(value, WB)
    IN  (IF v < 0 THEN 8 ELSE IF v > 0 THEN 4 ELSE 2) + Bit(x.so)

\* By the host's flags: a zero result is "greater" and "equal" at once.
update_cr0_host(f, x) == (IF f.sf THEN 8 ELSE 4) + (IF f.zf THEN 2 ELSE 0) + Bit(x.so)

get_crf(n) == (cr[n \div 4] \div 2^(3 - (n % 4))) % 2

\* The update of one bit of the condition register: value is a bool, 0 or 1.
update_crf(n, value) ==
    [cr EXCEPT ![n \div 4] = @ + (value - get_crf(n)) * 2^(3 - (n % 4))]

update_xer_so_ov(x, so_ov) == [x EXCEPT !.so = so_ov >= 2, !.ov = so_ov % 2 = 1]

update_xer_so_ov_host(x, f) == [x EXCEPT !.so = f.of, !.ov = f.of]

\* Mutant: the carry is cleared first, but not written.
update_xer_caLost(x, value) == [x EXCEPT !.ca = FALSE]

\* "xer &= XER_CA" keeps the old carry and clears the rest.
update_xer_ca(x, value) == [so |-> FALSE, ov |-> FALSE, ca |-> x.ca \/ value]

---------------------------------------------------------------------------
(* The frame of an instruction *)

ic == prog[k]

\* REG0, REG1, REG2 before the instruction
REG0 == gpr[ic.d]
REG1 == gpr[ic.a]
REG2 == gpr[ic.b]

Fetch(ops) == ~down /\ k <= Len(prog) /\ ic.op \in ops

Complete(regs, x, c) ==
    /\ gpr' = regs
    /\ xer' = x
    /\ cr' = c
    /\ k' = k + 1
    /\ UNCHANGED <<prog, down>>

\* The end of an instruction that takes its flags from the host's: CA, then SO and
\* OV, then CR0.
CompleteHost(value, f, ca) ==
    LET x1 == IF ca THEN update_xer_ca(xer, f.cf) ELSE xer
        x2 == IF ic.oe THEN update_xer_so_ov_host(x1, f) ELSE x1
    IN  Complete([gpr EXCEPT ![ic.d] = value], x2,
                 IF ic.rc THEN [cr EXCEPT ![0] = update_cr0_host(f, x2)] ELSE cr)

\* The end of one that takes CR0 from the result.
CompleteValue(value, x) ==
    Complete([gpr EXCEPT ![ic.d] = value], x,
             IF ic.rc THEN [cr EXCEPT ![0] = update_cr0(value, x)] ELSE cr)

---------------------------------------------------------------------------
(* Integer arithmetic *)

CA == Bit(xer.ca)

\* The second operand; the carry in is added to it and the sum cut to a word.
Addend(op) ==
    CASE op \in {"add", "addc"}   -> REG2
      [] op = "adde"              -> ToW(REG2 + CA)
      [] op \in {"addi", "addic"} -> ExtsH(ic.i)
      [] op = "addis"             -> ExtsH(ic.i) * 2^HB
      [] op = "addme"             -> CA - 1
      [] op = "addze"             -> CA

AddOps == {"add", "addc", "adde", "addi", "addic", "addis", "addme", "addze"}

Add ==
    /\ Fetch(AddOps)
    /\ LET a == IF ic.op \in {"addi", "addis"} /\ ic.a = 0 THEN 0 ELSE REG1
           f == x86_add(a, Addend(ic.op))
       IN  CompleteHost(ExtsW(f.r), f, ic.op \in {"addc", "adde", "addic", "addme", "addze"})

\* What is added to the complement of REG1.
Minuend(op) ==
    CASE op \in {"subf", "subfc"} -> REG2 + 1
      [] op = "subfic"            -> ExtsH(ic.i) + 1
      [] op = "subfe"             -> ToW(CA + REG2)
      [] op = "subfme"            -> CA - 1
      [] op = "subfze"            -> CA

SubtractOps == {"subf", "subfc", "subfic", "subfe", "subfme", "subfze"}

Subtract ==
    /\ Fetch(SubtractOps)
    /\ LET f == x86_add(Compl(REG1), Minuend(ic.op))
       IN  CompleteHost(ExtsW(f.r), f, ic.op # "subf")

\* divw and divwu. The host divides edx:eax and nobody sets edx. A quotient that
\* does not fit, or a divisor whose low word is 0, is a divide error of the host.
\* The overflow test reads the registers after the result is written.
Divide ==
    /\ Fetch({"divw", "divwu"})
    /\ \E edx \in DivHigh :
         LET signed == ic.op = "divw"
             dividend == edx * 2^WB + Lo(REG1)
             q == IF signed THEN Quotient(Signed(dividend, DB), Signed(REG2, WB))
                            ELSE dividend \div Lo(REG2)
             fits == IF signed THEN q \in (-MinW)..MaxW ELSE q < 2^WB
             value == IF REG2 = 0 THEN REG0 ELSE IF signed THEN ToD(q) ELSE q
             regs == [gpr EXCEPT ![ic.d] = value]
             over == \/ regs[ic.b] = 0
                     \/ signed /\ Lo(regs[ic.a]) = MinW /\ regs[ic.b] = 2^WB - 1
             x0 == IF ic.oe THEN update_xer_so_ov(xer, 0) ELSE xer
         IN  IF REG2 # 0 /\ (Lo(REG2) = 0 \/ ~fits)
             THEN down' = TRUE /\ UNCHANGED <<gpr, xer, cr, prog, k>>
             ELSE Complete(regs, IF ic.oe /\ over THEN update_xer_so_ov(xer, 1) ELSE x0,
                           IF ic.rc THEN [cr EXCEPT ![0] = update_cr0(value, x0)] ELSE cr)

Product(op) ==
    CASE op = "mulhw"  -> ExtsW(Hi(x86_imul(REG1, REG2)))
      [] op = "mulhwu" -> Hi(x86_mul(REG1, REG2))
      [] op = "mullw"  -> ExtsW(Lo(x86_imul(REG1, REG2)))
      [] op = "mulli"  -> ExtsW(Lo(x86_imul(REG1, ExtsH(ic.i))))

\* mullwo takes OV from the host: the product is no word.
Multiply ==
    /\ Fetch({"mulhw", "mulhwu", "mullw", "mulli"})
    /\ LET over == x86_imul(REG1, REG2) # ExtsW(Lo(x86_imul(REG1, REG2)))
       IN  CompleteValue(Product(ic.op),
               IF ic.oe THEN update_xer_so_ov_host(xer, [of |-> over]) ELSE xer)

---------------------------------------------------------------------------
(* Logical *)

\* Of words, with the host's flags; the result is zero-extended.
HostLogic(op) ==
    CASE op = "and"    -> x86_logic(Lo(REG1) & Lo(REG2))
      [] op = "andc"   -> x86_logic(Lo(REG1) & Lo(Compl(REG2)))
      [] op = "andi."  -> x86_logic(Lo(REG1) & ToH(ic.i))
      [] op = "andis." -> x86_logic(Lo(REG1) & (ToH(ic.i) * 2^HB))
      [] op = "neg"    -> x86_neg(REG1)
      [] op = "or"     -> x86_logic(Lo(REG1) | Lo(REG2))
      [] op = "orc"    -> x86_logic(Lo(REG1) | Lo(Compl(REG2)))
      [] op = "ori"    -> x86_logic(Lo(REG1) | ToH(ic.i))
      [] op = "oris"   -> x86_logic(Lo(REG1) | (ToH(ic.i) * 2^HB))
      [] op = "xor"    -> x86_logic(Lo(REG1) ^^ Lo(REG2))
      [] op = "xori"   -> x86_logic(Lo(REG1) ^^ ToH(ic.i))
      [] op = "xoris"  -> x86_logic(Lo(REG1) ^^ (ToH(ic.i) * 2^HB))

LogicalOps == {"and", "andc", "andi.", "andis.", "neg", "or", "orc", "ori", "oris",
               "xor", "xori", "xoris"}

Logical ==
    /\ Fetch(LogicalOps)
    /\ CompleteHost(HostLogic(ic.op).r, HostLogic(ic.op), FALSE)

\* Of the whole register, or sign-extended; CR0 by value.
WideLogic(op) ==
    CASE op = "extsb"  -> ExtsB(REG1)
      [] op = "extsh"  -> ExtsH(REG1)
      [] op = "cntlzw" ->
            CHOOSE n \in 0..WB : /\ \A j \in 0..(n - 1) : B_N(REG1, WB + j) = 0
                                 /\ n < WB => B_N(REG1, WB + n) = 1
      [] op = "eqv"    -> Compl(REG1 ^^ REG2)
      [] op = "nand"   -> Compl(REG1 & REG2)
      [] op = "nor"    -> Compl(REG1 | REG2)

LogicalWide ==
    /\ Fetch({"extsb", "extsh", "cntlzw", "eqv", "nand", "nor"})
    /\ CompleteValue(WideLogic(ic.op), xer)

---------------------------------------------------------------------------
(* Compare and the condition register *)

\* Mutant: the logical compare takes its operands as signed.
ComparandAlwaysSigned(x, logical) == IF ic.i = 0 THEN Signed(x, WB) ELSE Signed(x, DB)

\* An operand of a compare; the L field selects the word or the whole register.
Comparand(x, logical) ==
    IF logical THEN IF ic.i = 0 THEN Lo(x) ELSE x
               ELSE IF ic.i = 0 THEN Signed(x, WB) ELSE Signed(x, DB)

\* cmp, cmpl, and with an immediate cmpi and cmpli, whose immediate is in mb. The
\* field is c * 2 + SO.
Compare ==
    /\ Fetch({"cmp", "cmpi", "cmpl", "cmpli"})
    /\ LET logical == ic.op \in {"cmpl", "cmpli"}
           a == Comparand(REG1, logical)
           b == CASE ic.op = "cmpi"  -> Signed(ic.mb, HB)
                  [] ic.op = "cmpli" -> ic.mb
                  [] OTHER           -> Comparand(REG2, logical)
           c == IF a < b THEN 4 ELSE IF a > b THEN 2 ELSE 1
       IN  Complete(gpr, xer, [cr EXCEPT ![ic.d] = c * 2 + Bit(xer.so)])

CrOps == {"crand", "crandc", "creqv", "crnand", "crnor", "cror", "crorc", "crxor"}

\* ~ of a bool is never 0: where it is outermost the result is always 1.
CrLogic ==
    /\ Fetch(CrOps)
    /\ LET a == get_crf(ic.a)
           b == get_crf(ic.b)
           value == CASE ic.op = "crand"  -> a * b
                      [] ic.op = "crandc" -> a * (1 - b)
                      [] ic.op = "cror"   -> Bit(a + b > 0)
                      [] ic.op = "crxor"  -> Bit(a # b)
                      [] OTHER            -> 1
       IN  Complete(gpr, xer, update_crf(ic.d, value))

mcrf == Fetch({"mcrf"}) /\ Complete(gpr, xer, [cr EXCEPT ![ic.d] = cr[ic.a]])

\* CRM, here the set mb of the fields, selects the nibbles copied from the word.
mtcrf ==
    /\ Fetch({"mtcrf"})
    /\ Complete(gpr, xer, [f \in CrFields |->
           IF f \in ic.mb THEN (Lo(REG1) \div 2^(WB - 4 - 4 * f)) % 16 ELSE cr[f]])

mcrxr ==
    /\ Fetch({"mcrxr"})
    /\ Complete(gpr, [so |-> FALSE, ov |-> FALSE, ca |-> FALSE],
           [cr EXCEPT ![ic.d] = 8 * Bit(xer.so) + 4 * Bit(xer.ov) + 2 * Bit(xer.ca)])

\* mfcr assigns to its decoded operand, not to the register: no register changes.
mfcr == Fetch({"mfcr"}) /\ Complete(gpr, xer, cr)

isel ==
    /\ Fetch({"isel"})
    /\ LET a == IF ic.a = 0 THEN 0 ELSE REG1
       IN  Complete([gpr EXCEPT ![ic.d] = IF get_crf(ic.i) = 0 THEN a ELSE REG2], xer, cr)

---------------------------------------------------------------------------
(* Rotate and shift *)

\* The mask of rlwimi, rlwinm and rlwnm, on the low word for mb < me.
RotateMask == MASK(ic.mb + WB, ic.me + WB)

Rotate ==
    /\ Fetch({"rlwimi", "rlwinm", "rlwnm"})
    /\ LET r == ROTL32(Lo(REG1), IF ic.op = "rlwnm" THEN REG2 ELSE ic.i)
           kept == IF ic.op = "rlwimi" THEN REG0 & Compl(RotateMask) ELSE 0
       IN  CompleteValue((r & RotateMask) | kept, xer)

\* The shift amount: srawi has it in the instruction, the others in REG2.
ShiftAmount == IF ic.op = "srawi" THEN ic.i ELSE REG2

\* An amount with the bit above the field clears the mask, but not for srawi.
ShiftMask(n, m) == IF ic.op # "srawi" /\ (REG2 \div WB) % 2 = 1 THEN 0 ELSE m

ShiftLogical ==
    /\ Fetch({"slw", "srw"})
    /\ LET n == ShiftAmount % WB
           left == ic.op = "slw"
           r == ROTL32(Lo(REG1), IF left THEN n ELSE DB - n)
           m == ShiftMask(n, IF left THEN MASK(WB, DB - 1 - n) ELSE MASK(WB + n, DB - 1))
       IN  CompleteValue(r & m, xer)

\* Mutant: the rotation is to the left.
ShiftAlgebraicLeft ==
    /\ Fetch({"sraw", "srawi"})
    /\ LET n == ShiftAmount % WB
           r == ROTL32(Lo(REG1), n)
           m == ShiftMask(n, MASK(WB + n, DB - 1))
           s == Lo(REG1) >= MinW
       IN  CompleteValue((r & m) | (IF s THEN Compl(m) ELSE 0),
               update_xer_ca(xer, s /\ Lo(r & Compl(m)) # 0))

\* The carry is set when a negative word loses ones.
ShiftAlgebraic ==
    /\ Fetch({"sraw", "srawi"})
    /\ LET n == ShiftAmount % WB
           r == ROTL32(Lo(REG1), DB - n)
           m == ShiftMask(n, MASK(WB + n, DB - 1))
           s == Lo(REG1) >= MinW
       IN  CompleteValue((r & m) | (IF s THEN Compl(m) ELSE 0),
               update_xer_ca(xer, s /\ Lo(r & Compl(m)) # 0))

---------------------------------------------------------------------------
IntegerNext ==
    \/ Add \/ Subtract \/ Divide \/ Multiply
    \/ Logical \/ LogicalWide
    \/ Compare \/ CrLogic \/ mcrf \/ mtcrf \/ mcrxr \/ mfcr \/ isel
    \/ Rotate \/ ShiftLogical \/ ShiftAlgebraic

---------------------------------------------------------------------------
(* Properties *)

\* prog has run to its end and is the program of these instructions.
Ended(ops) ==
    k = Len(prog) + 1 /\ Len(prog) = Len(ops) /\ \A j \in 1..Len(ops) : prog[j].op = ops[j]

\* The results of instructions m and n are in registers of their own: neither is an
\* operand of the two.
Apart(m, n) ==
    /\ prog[m].d # prog[n].d
    /\ {prog[m].d, prog[n].d} \cap {prog[m].a, prog[m].b, prog[n].a, prog[n].b} = {}

TwoWords(hi, lo) == Lo(gpr[hi]) * 2^WB + Lo(gpr[lo])

\* The program begins with an addze that leaves the registers of its idiom alone, the two
\* instructions behind it; what it added to its operand is the carry of before. Any program
\* may have left one: the update of the carry never takes it back (globals.cpp:519).
Observed ==
    /\ prog[1].d # prog[1].a
    /\ {prog[1].d, prog[1].a} \cap {prog[2].d, prog[3].d} = {}

CarryBefore == Lo(gpr[prog[1].d]) # Lo(gpr[prog[1].a])

\* addc and adde add double words, the carry of the low words going into the high ones;
\* where the low words have none, the one of before goes there.
TwoWordAdd ==
    (Ended(<<"addze", "addc", "adde">>) /\ Observed /\ Apart(2, 3)) =>
        LET lo == prog[2]
            hi == prog[3]
            stale == CarryBefore /\ Lo(gpr[lo.a]) + Lo(gpr[lo.b]) < 2^WB
        IN  TwoWords(hi.d, lo.d) =
                ToD(TwoWords(hi.a, lo.a) + TwoWords(hi.b, lo.b) + Bit(stale) * 2^WB)

\* subfc and subfe subtract them. The carry of before hides the borrow of the low words;
\* without it there is one too many where the low word of rB is all ones: the complement
\* of the subtrahend is added to rB + 1, whose own carry is lost.
TwoWordSubtract ==
    (Ended(<<"addze", "subfc", "subfe">>) /\ Observed /\ Apart(2, 3)) =>
        LET lo == prog[2]
            hi == prog[3]
            stale == CarryBefore /\ Lo(gpr[lo.b]) < Lo(gpr[lo.a])
            early == ~CarryBefore /\ Lo(gpr[lo.b]) = 2^WB - 1
        IN  TwoWords(hi.d, lo.d) =
                ToD(TwoWords(hi.b, lo.b) - TwoWords(hi.a, lo.a)
                        + (Bit(stale) - Bit(early)) * 2^WB)

\* mullwo and mulhw are the two halves of the signed product, and OV says that the low
\* half alone is not it.
WideProduct ==
    (Ended(<<"mullw", "mulhw">>) /\ Apart(1, 2)
       /\ prog[1].a = prog[2].a /\ prog[1].b = prog[2].b) =>
        LET p == Signed(gpr[prog[1].a], WB) * Signed(gpr[prog[1].b], WB)
        IN  /\ TwoWords(prog[2].d, prog[1].d) = ToD(p)
            /\ prog[1].oe => (xer.ov = (p \notin (-MinW)..MaxW))

\* srawi and addze divide by a power of two, toward zero: the carry of srawi is what
\* the division of a negative number lacks. The carry of before is added where srawi has
\* none.
DivideIdiom ==
    (Ended(<<"addze", "srawi", "addze">>) /\ Observed /\ prog[2].i \in 0..(WB - 2)
       /\ prog[3].a = prog[2].d /\ prog[2].a \notin {prog[2].d, prog[3].d}) =>
        LET w == Lo(gpr[prog[2].a])
            d == 2^(prog[2].i)
            stale == CarryBefore /\ (w < MinW \/ w % d = 0)
        IN  Lo(gpr[prog[3].d]) = ToW(Quotient(Signed(w, WB), d) + Bit(stale))

\* The multi-instruction idioms of a compiler compute what they are used for, but for the
\* carry that was there before, which none of them clears: each is right where none was, or
\* where its first instruction carries by itself. Between their instructions the carry goes
\* through XER, where the update of any other bit may lose it.
MultiWordArithmetic == TwoWordAdd /\ TwoWordSubtract /\ WideProduct /\ DivideIdiom

\* Instructions m, a subtraction, and n, a compare of words into a field other than CR0,
\* take the same operands.
Compared(m, n) ==
    /\ prog[m].d \notin {prog[m].a, prog[m].b} /\ prog[n].a = prog[m].b /\ prog[n].b = prog[m].a
    /\ prog[n].i = 0 /\ prog[n].d \in CrFields \ {0}

\* subfo. and cmp on the same operands agree on less and equal, subfc and cmpl on the
\* borrow: the flags a subtraction leaves in CR0, OV and CA (of an addition of the
\* host) order the words as the compares do (which use no flags). rB + 1 is formed
\* before the addition, so the largest rB is left out.
ComparesAgree ==
    /\ (Ended(<<"subf", "cmp">>) /\ Compared(1, 2) /\ prog[1].oe /\ prog[1].rc
          /\ Lo(gpr[prog[1].b]) # MaxW) =>
          LET field == cr[prog[2].d]
          IN  /\ (field >= 8) = ((cr[0] >= 8) # xer.ov)
              /\ (field \div 2) % 2 = (cr[0] \div 2) % 2
    /\ (Ended(<<"mcrxr", "subfc", "cmpl">>) /\ Compared(2, 3)
          /\ Lo(gpr[prog[2].b]) # 2^WB - 1) =>
          xer.ca = (cr[prog[3].d] < 8)

\* A shift by n is what its name says for every n, 31 left out (utils.h:272 gives the
\* wrong mask when the two ends meet): words shifted out are lost, sraw rounds down and
\* its carry says that a negative word lost ones. rlwinm keeps the bits mb to me of the
\* rotated word, for mb before me.
ShiftsMatchReference ==
    (Len(prog) = 2 /\ k = 3 /\ prog[1].op = "mcrxr" /\ prog[2].d \notin {prog[2].a, prog[2].b}
       /\ (prog[2].op \in {"srawi", "rlwinm"} => prog[2].i \in 0..(WB - 1))) =>
    LET i == prog[2]
        w == Lo(gpr[i.a])
        n == IF i.op = "srawi" THEN i.i ELSE gpr[i.b] % (2 * WB)
        result == gpr[i.d]
        bit(x, j) == (x \div 2^(WB - 1 - j)) % 2
    IN  /\ (i.op = "slw" /\ n # WB - 1) => result = ToW(w * 2^n)
        /\ (i.op = "srw" /\ n # WB - 1) => result = w \div 2^n
        /\ (i.op \in {"sraw", "srawi"} /\ n # WB - 1) =>
              /\ result = ToD(Signed(w, WB) \div 2^n)
              /\ xer.ca = (w >= MinW /\ w % 2^n # 0)
        /\ (i.op = "rlwinm" /\ i.mb \in 0..(WB - 1) /\ i.me \in 0..(WB - 1) /\ i.mb < i.me) =>
              /\ Hi(result) = 0
              /\ \A j \in 0..(WB - 1) :
                    bit(result, j) = IF j \in i.mb..i.me THEN bit(w, (j + i.i) % WB) ELSE 0

=============================================================================
