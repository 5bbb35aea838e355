-------------------------------- MODULE Bits --------------------------------
(***************************************************************************)
(* Masks, rotations and the host instructions utils.h wraps, on the words  *)
(* of HostWords.                                                           *)
(***************************************************************************)
EXTENDS HostWords

\* and, or and exclusive or of the bits of two registers.
x & y ==
    LET bit(v, n) == (v \div 2^n) % 2
        and[n \in 0..DB] == IF n = 0 THEN 0
                            ELSE and[n - 1] + bit(x, n - 1) * bit(y, n - 1) * 2^(n - 1)
    IN  and[DB]

x | y  == x + y - (x & y)
x ^^ y == x + y - 2 * (x & y)

gen_bmask(bp) == 2^(DB - bp) - 1

\* Mutant: the mask ends one bit early.
MASKShort(x, y) == gen_bmask(x) ^^ gen_bmask(y)

\* gen_bmask_rng: right for x < y; for x = y and x > y the two end bits are wrong.
MASK(x, y) ==
    IF x < y THEN gen_bmask(x) ^^ gen_bmask(y + 1)
    ELSE Compl(gen_bmask(x + 1) ^^ gen_bmask(y))

\* Mutant: the bits shifted out are kept above the word.
ROTL32Wide(w, n) ==
    LET k == n % WB IN w * 2^k + w \div 2^(WB - k)

\* Shift counts of 32 and more are taken modulo 32 by the host.
ROTL32(w, n) ==
    LET k == n % WB IN ToW(w * 2^k) + w \div 2^(WB - k)

---------------------------------------------------------------------------
(* utils.h:414-480: host instructions on words and their flags *)

Flags(r, cf, of) == [r |-> r, cf |-> cf, of |-> of, sf |-> r >= MinW, zf |-> r = 0]

x86_add(a, b) ==
    Flags(ToW(a + b), ToW(a) + ToW(b) >= 2^WB, Signed(a, WB) + Signed(b, WB) # Signed(a + b, WB))

x86_neg(a) == Flags(ToW(-a), ToW(a) # 0, ToW(a) = MinW)

\* and, or, xor of the host clear both flags.
x86_logic(r) == Flags(ToW(r), FALSE, FALSE)

\* One-operand imul and mul: the double-width product.
x86_imul(a, b) == ToD(Signed(a, WB) * Signed(b, WB))
x86_mul(a, b)  == ToW(a) * ToW(b)

\* The quotient of idiv, toward zero.
Quotient(a, b) ==
    LET q == (IF a < 0 THEN -a ELSE a) \div (IF b < 0 THEN -b ELSE b)
    IN  IF (a < 0) # (b < 0) THEN -q ELSE q

\* x86_imulf widens the signed low word over the high one.
x86_imulf(a, b) == (Hi(x86_imul(a, b)) * 2^WB) | ExtsW(Lo(x86_imul(a, b)))
=============================================================================
