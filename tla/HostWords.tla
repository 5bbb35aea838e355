------------------------------- MODULE HostWords -------------------------------
(***************************************************************************)
(* Words of the register file as numbers, for a halfword of HB bits (16 in *)
(* the code): a register has 4 * HB bits, a word 2 * HB, a byte HB / 2.    *)
(* Bits are numbered as in the code, 0 the most significant. A constant of *)
(* the code that is a position or a bound is the same bound of these       *)
(* widths. Operators are those of utils.h and the macros of                *)
(* cpu_ppc_instr.cc.                                                       *)
(***************************************************************************)
EXTENDS Integers

CONSTANT HB

BB == HB \div 2
WB == 2 * HB
DB == 4 * HB

\* A halfword has two bytes of at least one bit; and what a power of two is, of which the
\* provers know nothing.
ASSUME WidthAssumption ==
    /\ HB \in Nat /\ HB >= 2 /\ HB % 2 = 0
    /\ 2^0 = 1
    /\ \A n \in 0..(DB - 1) : 2^(n + 1) = 2 * 2^n

Doubles == 0..(2^DB - 1)
Words   == 0..(2^WB - 1)

ToD(x) == x % 2^DB
ToW(x) == x % 2^WB
ToH(x) == x % 2^HB

\* B_0_31, B_32_63 and the four halfwords B_0_15, B_16_31, B_32_47, B_48_63.
Hi(x)   == x \div 2^WB
Lo(x)   == x % 2^WB
Half(x, k) == (x \div 2^((3 - k) * HB)) % 2^HB

PACK_2W(u, v) == u * 2^WB + v

B_N(x, n) == (x \div 2^(DB - 1 - n)) % 2

\* The value of the low n bits of x as a signed number.
Signed(x, n) == LET u == x % 2^n IN IF u >= 2^(n - 1) THEN u - 2^n ELSE u

\* EXTS_W2D, EXTS_H2N, EXTS_B2N
ExtsW(x) == ToD(Signed(x, WB))
ExtsH(x) == ToD(Signed(x, HB))
ExtsB(x) == ToD(Signed(x, BB))

Compl(x) == 2^DB - 1 - x

\* Signed bounds of a word: 0x80000000 and 0x7fffffff.
MinW == 2^(WB - 1)
MaxW == 2^(WB - 1) - 1

Bit(b) == IF b THEN 1 ELSE 0
=============================================================================
