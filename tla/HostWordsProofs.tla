--------------------------- MODULE HostWordsProofs ---------------------------
(***************************************************************************)
(* Lemmas about powers of two, division and the words of HostWords, for    *)
(* any width of a halfword: what the proofs about instructions share.      *)
(***************************************************************************)
EXTENDS HostWords, TLAPS, WellFoundedInduction

---------------------------------------------------------------------------
(* Natural numbers and powers of two *)

\* A set of natural numbers that is not empty has a least member.
LEMMA LeastNatural ==
    ASSUME NEW S, S \subseteq Nat, S # {}
    PROVE  \E n \in S : \A m \in S : n <= m
  <1>1. \E n \in S : \A m \in S : ~(<<m, n>> \in OpToRel(<, Nat))
    BY NatLessThanWellFounded, WFMin
  <1>2. \A m, n \in Nat : m < n => <<m, n>> \in OpToRel(<, Nat)
    BY Zenon DEF OpToRel
  <1>3. PICK n \in S : \A m \in S : ~(<<m, n>> \in OpToRel(<, Nat))
    BY <1>1
  <1>4. ASSUME NEW m \in S PROVE n <= m
    <2>1. ~(m < n)
      BY <1>2, <1>3
    <2> QED BY <2>1
  <1> QED BY <1>4

\* The widths are numbers of bits.
LEMMA Widths ==
    /\ HB \in Nat /\ HB >= 2 /\ BB \in Nat /\ BB >= 1 /\ HB = 2 * BB
    /\ WB \in Nat /\ WB = 2 * HB /\ DB \in Nat /\ DB = 2 * WB
  BY WidthAssumption DEF BB, WB, DB

\* Powers of two up to the width of a register are positive numbers.
LEMMA Powers ==
    ASSUME NEW n \in 0..DB
    PROVE  2^n \in Nat /\ 2^n > 0
  <1> DEFINE S == {j \in 0..DB : ~(2^j \in Nat /\ 2^j > 0)}
  <1> SUFFICES ASSUME S # {} PROVE FALSE
    OBVIOUS
  <1>0. S \subseteq Nat
    BY Widths
  <1>1. PICK j \in S : \A i \in S : j <= i
    <2> HIDE DEF S
    <2> QED BY <1>0, LeastNatural
  <1>2. j # 0
    <2>1. 2^0 \in Nat /\ 2^0 > 0
      BY WidthAssumption
    <2> QED BY <1>1, <2>1
  <1>3. j - 1 \in 0..(DB - 1) /\ j - 1 \notin S
    BY <1>1, <1>2, Widths
  <1>4. 2^(j - 1) \in Nat /\ 2^(j - 1) > 0
    BY <1>3, Widths
  <1>5. 2^j = 2 * 2^(j - 1)
    <2>1. 2^((j - 1) + 1) = 2 * 2^(j - 1)
      BY <1>3, WidthAssumption
    <2>2. (j - 1) + 1 = j
      BY <1>1, Widths
    <2> QED BY <2>1, <2>2
  <1> QED BY <1>4, <1>5

\* They double.
LEMMA Doubling ==
    ASSUME NEW n \in 1..DB
    PROVE  2^n = 2 * 2^(n - 1)
  <1>1. n - 1 \in 0..(DB - 1) /\ (n - 1) + 1 = n
    BY Widths
  <1>2. 2^((n - 1) + 1) = 2 * 2^(n - 1)
    BY <1>1, WidthAssumption
  <1> QED BY <1>1, <1>2

\* Exponents add up.
LEMMA PowerOfSum ==
    ASSUME NEW a \in Nat, NEW b \in Nat, a + b <= DB
    PROVE  2^(a + b) = 2^a * 2^b
  <1> DEFINE S == {j \in 0..b : 2^(a + j) # 2^a * 2^j}
  <1> SUFFICES ASSUME S # {} PROVE FALSE
    OBVIOUS
  <1>0. S \subseteq Nat
    OBVIOUS
  <1>1. PICK j \in S : \A i \in S : j <= i
    <2> HIDE DEF S
    <2> QED BY <1>0, LeastNatural
  <1>2. j # 0
    <2>1. 2^a \in Nat
      BY Powers, Widths
    <2>2. a + 0 = a /\ 2^a * 1 = 2^a
      BY <2>1
    <2>3. 2^(a + 0) = 2^a * 2^0
      BY <2>2, WidthAssumption
    <2> QED BY <1>1, <2>3
  <1>3. j - 1 \in 0..b /\ j - 1 \notin S
    BY <1>1, <1>2
  <1>4. 2^(a + (j - 1)) = 2^a * 2^(j - 1)
    BY <1>3
  <1>5. 2^j = 2 * 2^(j - 1) /\ 2^(a + j) = 2 * 2^(a + (j - 1))
    <2>1. j \in 1..DB /\ a + j \in 1..DB /\ (a + j) - 1 = a + (j - 1)
      BY <1>1, <1>2, Widths
    <2>2. 2^j = 2 * 2^(j - 1)
      BY <2>1, Doubling
    <2>3. 2^(a + j) = 2 * 2^((a + j) - 1)
      BY <2>1, Doubling
    <2> QED BY <2>1, <2>2, <2>3
  <1> DEFINE x == 2^a
             y == 2^(j - 1)
  <1>6. x \in Nat /\ y \in Nat
    <2>1. a \in 0..DB /\ j - 1 \in 0..DB
      BY <1>3, Widths
    <2> QED BY <2>1, Powers
  <1>7. 2^(a + j) = 2 * (x * y) /\ 2^j = 2 * y
    BY <1>4, <1>5
  <1> HIDE DEF x, y
  <1>8. 2 * (x * y) = x * (2 * y)
    BY <1>6
  <1>9. 2^(a + j) = x * 2^j
    BY <1>7, <1>8
  <1> QED BY <1>1, <1>9 DEF x
---------------------------------------------------------------------------
(* Division *)

\* Division with remainder, of negative numbers too: the quotient is rounded down.
LEMMA Division ==
    ASSUME NEW x \in Int, NEW d \in Nat, d > 0
    PROVE  /\ x \div d \in Int
           /\ x % d \in 0..(d - 1)
           /\ x = (x \div d) * d + (x % d)
  <1> DEFINE q == x \div d
             r == x % d
  <1>1. x = d * q + r /\ r \in 0..(d - 1) /\ q \in Int
    OBVIOUS
  <1> HIDE DEF q, r
  <1>2. x = q * d + r
    BY <1>1
  <1> QED BY <1>1, <1>2 DEF q, r

\* There is one way to divide.
LEMMA DivideOnce ==
    ASSUME NEW q \in Int, NEW d \in Nat, d > 0, NEW r \in 0..(d - 1)
    PROVE  (q * d + r) \div d = q /\ (q * d + r) % d = r
  OBVIOUS

\* Products of integers are integers.
LEMMA Times ==
    ASSUME NEW x \in Int, NEW y \in Int
    PROVE  x * y \in Int /\ x * y = y * x
  OBVIOUS

\* Multiples of the modulus do not matter.
LEMMA AddMultiple ==
    ASSUME NEW x \in Int, NEW q \in Int, NEW d \in Nat, d > 0
    PROVE  (x + q * d) % d = x % d /\ (x + q * d) \div d = (x \div d) + q
  <1> DEFINE p == x \div d
             r == x % d
  <1>1. x = p * d + r /\ r \in 0..(d - 1) /\ p \in Int
    BY Division
  <1> HIDE DEF p, r
  <1>2. x + q * d = (p + q) * d + r
    BY <1>1
  <1>3. p + q \in Int
    BY <1>1
  <1>4. ((p + q) * d + r) \div d = p + q /\ ((p + q) * d + r) % d = r
    BY <1>1, <1>3, DivideOnce
  <1> QED BY <1>2, <1>4 DEF p, r

\* A number within the modulus is its own remainder.
LEMMA Within ==
    ASSUME NEW d \in Nat, d > 0, NEW x \in 0..(d - 1)
    PROVE  x % d = x /\ x \div d = 0
  <1>1. (0 * d + x) \div d = 0 /\ (0 * d + x) % d = x
    BY DivideOnce
  <1>2. 0 * d + x = x
    OBVIOUS
  <1> QED BY <1>1, <1>2

\* Remainders may be taken of the operands of a sum or difference first.
LEMMA SumOfRests ==
    ASSUME NEW x \in Int, NEW y \in Int, NEW d \in Nat, d > 0
    PROVE  /\ ((x % d) + y) % d = (x + y) % d
           /\ (x + (y % d)) % d = (x + y) % d
           /\ (x - (y % d)) % d = (x - y) % d
           /\ ((x % d) - y) % d = (x - y) % d
  <1> DEFINE p == x \div d
             r == x % d
             q == y \div d
             s == y % d
  <1>1. x = p * d + r /\ r \in Int /\ p \in Int /\ y = q * d + s /\ s \in Int /\ q \in Int
    BY Division
  <1> HIDE DEF p, r, q, s
  <1>2. (r + y) % d = ((r + y) + p * d) % d
    BY <1>1, AddMultiple
  <1>3. (x + s) % d = ((x + s) + q * d) % d
    BY <1>1, AddMultiple
  <1>4. (x - s) % d = ((x - s) + (-q) * d) % d
    BY <1>1, AddMultiple
  <1>5. (r - y) % d = ((r - y) + p * d) % d
    BY <1>1, AddMultiple
  <1>6. /\ (r + y) + p * d = x + y
        /\ (x + s) + q * d = x + y
        /\ (x - s) + (-q) * d = x - y
        /\ (r - y) + p * d = x - y
    BY <1>1
  <1> QED BY <1>2, <1>3, <1>4, <1>5, <1>6 DEF r, s

\* Division by a product, in two steps.
LEMMA DivideByProduct ==
    ASSUME NEW x \in Int, NEW d \in Nat, d > 0, NEW e \in Nat, e > 0
    PROVE  /\ x % (d * e) = ((x \div d) % e) * d + (x % d)
           /\ (x % (d * e)) % d = x % d
           /\ (x % (d * e)) \div d = (x \div d) % e
           /\ x \div (d * e) = (x \div d) \div e
  <1> DEFINE p == x \div d
             r == x % d
             q == p \div e
             s == p % e
             f == d * e
             t == s * d + r
  <1>1. x = p * d + r /\ r \in 0..(d - 1) /\ p \in Int
    BY Division
  <1>2. p = q * e + s /\ s \in 0..(e - 1) /\ q \in Int
    <2> HIDE DEF p
    <2> QED BY <1>1, Division
  <1> HIDE DEF p, r, q, s
  <1>3. x = q * f + t
    <2>1. x = (q * e + s) * d + r
      BY <1>1, <1>2
    <2>2. (q * e + s) * d = (q * e) * d + s * d
      BY <1>2
    <2>3. (q * e) * d = q * (d * e)
      BY <1>2
    <2>4. s * d \in Int /\ (q * e) * d \in Int
      BY <1>2
    <2> QED BY <1>1, <2>1, <2>2, <2>3, <2>4
  <1>4. f \in Nat /\ f > 0
    OBVIOUS
  <1>5. t \in 0..(f - 1)
    <2>1. s * d \in Nat /\ (e - 1 - s) * d \in Nat
      BY <1>2
    <2>2. (e - 1 - s) * d = f - d - s * d
      BY <1>2
    <2>3. f \in Nat
      OBVIOUS
    <2> HIDE DEF f
    <2> QED BY <1>1, <2>1, <2>2, <2>3
  <1> HIDE DEF f
  <1>6. x % f = t /\ x \div f = q
    <2> HIDE DEF t
    <2> QED BY <1>2, <1>3, <1>4, <1>5, DivideOnce
  <1>7. t % d = r /\ t \div d = s
    BY <1>1, <1>2, DivideOnce
  <1> QED BY <1>6, <1>7 DEF f, t, p, r, q, s
---------------------------------------------------------------------------
(* Words and registers *)

\* How many values a halfword, a word and a register have.
HalfSize   == 2^HB
WordSize   == 2^WB
DoubleSize == 2^DB

\* A register is two words, a word two halfwords; half of the words are negative.
LEMMA Sizes ==
    /\ HalfSize \in Nat /\ HalfSize > 0
    /\ WordSize \in Nat /\ WordSize > 0 /\ WordSize = HalfSize * HalfSize
    /\ DoubleSize \in Nat /\ DoubleSize > 0 /\ DoubleSize = WordSize * WordSize
    /\ MinW \in Nat /\ MinW > 1 /\ WordSize = 2 * MinW /\ MaxW = MinW - 1
  <1>1. /\ HB \in 0..DB /\ WB \in 1..DB /\ DB \in 0..DB /\ WB - 1 \in 1..DB
        /\ HB + HB = WB /\ WB + WB = DB /\ WB - 1 - 1 \in 0..DB
    BY Widths
  <1>2. HalfSize \in Nat /\ HalfSize > 0 /\ WordSize \in Nat /\ WordSize > 0
    BY <1>1, Powers DEF HalfSize, WordSize
  <1>3. DoubleSize \in Nat /\ DoubleSize > 0
    BY <1>1, Powers DEF DoubleSize
  <1>4. 2^(HB + HB) = 2^HB * 2^HB /\ 2^(WB + WB) = 2^WB * 2^WB
    BY <1>1, Widths, PowerOfSum
  <1>5. MinW \in Nat /\ WordSize = 2 * MinW
    BY <1>1, Powers, Doubling DEF MinW, WordSize
  <1>6. MinW = 2 * 2^(WB - 1 - 1) /\ 2^(WB - 1 - 1) \in Nat /\ 2^(WB - 1 - 1) > 0
    BY <1>1, Powers, Doubling DEF MinW
  <1>7. MaxW = MinW - 1
    BY DEF MaxW, MinW
  <1> QED
    BY <1>1, <1>2, <1>3, <1>4, <1>5, <1>6, <1>7 DEF HalfSize, WordSize, DoubleSize

\* The operators in these terms.
LEMMA InSizes ==
    /\ Words = 0..(WordSize - 1) /\ Doubles = 0..(DoubleSize - 1)
    /\ \A x : /\ Lo(x) = x % WordSize /\ ToW(x) = x % WordSize /\ Hi(x) = x \div WordSize
              /\ ToD(x) = x % DoubleSize /\ Compl(x) = DoubleSize - 1 - x
    /\ \A u, v : PACK_2W(u, v) = u * WordSize + v
  BY DEF Words, Doubles, Lo, ToW, Hi, ToD, Compl, PACK_2W, WordSize, DoubleSize

\* Casts give values of their width.
LEMMA Casts ==
    ASSUME NEW x \in Int
    PROVE  /\ ToW(x) \in Words /\ Lo(x) \in Words /\ ToD(x) \in Doubles
           /\ ToW(x) = Lo(x) /\ Lo(ToD(x)) = ToW(x)
           /\ Hi(ToD(x)) = ToW(Hi(x)) /\ Hi(x) \in Int
  <1>1. x % WordSize \in 0..(WordSize - 1) /\ x \div WordSize \in Int
    BY Sizes, Division
  <1>2. x % DoubleSize \in 0..(DoubleSize - 1)
    BY Sizes, Division
  <1>3. /\ (x % (WordSize * WordSize)) % WordSize = x % WordSize
        /\ (x % (WordSize * WordSize)) \div WordSize = (x \div WordSize) % WordSize
    BY Sizes, DivideByProduct
  <1>4. DoubleSize = WordSize * WordSize
    BY Sizes
  <1> QED BY <1>1, <1>2, <1>3, <1>4, InSizes

\* A word or a register is not changed by a cast to its width.
LEMMA CastWithin ==
    /\ \A x \in Words : ToW(x) = x /\ Lo(x) = x /\ x \in Int
    /\ \A x \in Doubles : ToD(x) = x /\ x \in Int
  <1>1. \A x \in 0..(WordSize - 1) : x % WordSize = x
    BY Sizes, Within
  <1>2. \A x \in 0..(DoubleSize - 1) : x % DoubleSize = x
    BY Sizes, Within
  <1> QED BY <1>1, <1>2, Sizes, InSizes

\* Two words make a register, which gives them back.
LEMMA Packed ==
    ASSUME NEW u \in Words, NEW v \in Words
    PROVE  /\ PACK_2W(u, v) \in Doubles
           /\ Hi(PACK_2W(u, v)) = u /\ Lo(PACK_2W(u, v)) = v
  <1>1. u \in 0..(WordSize - 1) /\ v \in 0..(WordSize - 1) /\ u \in Int
    BY InSizes, Sizes
  <1>2. (u * WordSize + v) \div WordSize = u /\ (u * WordSize + v) % WordSize = v
    BY <1>1, Sizes, DivideOnce
  <1>3. u * WordSize + v \in 0..(DoubleSize - 1)
    <2>1. u * WordSize \in Nat /\ (WordSize - 1 - u) * WordSize \in Nat
      BY <1>1, Sizes
    <2>2. (WordSize - 1 - u) * WordSize = DoubleSize - WordSize - u * WordSize
      <3>1. (WordSize - 1 - u) * WordSize = WordSize * WordSize - WordSize - u * WordSize
        BY <1>1, Sizes
      <3> QED BY <3>1, Sizes
    <2> DEFINE a == u * WordSize
               b == (WordSize - 1 - u) * WordSize
    <2>3. a \in Nat /\ b \in Nat /\ b = DoubleSize - WordSize - a
      BY <2>1, <2>2
    <2> HIDE DEF a, b
    <2>4. a + v \in 0..(DoubleSize - 1)
      BY <1>1, <2>3, Sizes
    <2> QED BY <2>4 DEF a
  <1> QED BY <1>2, <1>3, InSizes

\* The words of a register.
LEMMA Unpacked ==
    ASSUME NEW x \in Doubles
    PROVE  Hi(x) \in Words /\ Lo(x) \in Words /\ PACK_2W(Hi(x), Lo(x)) = x
  <1>1. x \in Int /\ x \in 0..(DoubleSize - 1)
    BY CastWithin, InSizes
  <1>2. x = (x \div WordSize) * WordSize + (x % WordSize) /\ Lo(x) \in Words
    BY <1>1, Sizes, Division, Casts
  <1>3. ToD(x) = x /\ Hi(ToD(x)) = ToW(Hi(x)) /\ Hi(x) \in Int
    BY <1>1, CastWithin, Casts
  <1>4. Hi(x) \in Words
    BY <1>3, Casts
  <1> QED BY <1>2, <1>4, InSizes
\* A field of n bits as a signed number: in range, and the same number modulo 2^n.
LEMMA SignedField ==
    ASSUME NEW x \in Int, NEW n \in 1..DB
    PROVE  /\ Signed(x, n) \in (-2^(n - 1))..(2^(n - 1) - 1)
           /\ Signed(x, n) % 2^n = x % 2^n
           /\ Signed(x, n) = -2^(n - 1) => x % 2^n = 2^(n - 1)
           /\ \A s \in (-2^(n - 1))..(2^(n - 1) - 1) : s % 2^n = x % 2^n => Signed(x, n) = s
  <1> DEFINE d == 2^n
             h == 2^(n - 1)
             u == x % d
  <1>1. d \in Nat /\ d > 0 /\ h \in Nat /\ h > 0 /\ d = 2 * h
    BY Powers, Doubling, Widths
  <1>2. Signed(x, n) = IF u >= h THEN u - d ELSE u
    BY DEF Signed
  <1> HIDE DEF d, h
  <1>3. u \in 0..(d - 1) /\ u % d = u
    BY <1>1, Division, Within
  <1>4. (u + (-1) * d) % d = u % d
    <2> HIDE DEF u
    <2> QED BY <1>1, <1>3, AddMultiple
  <1> HIDE DEF u
  <1>5. u + (-1) * d = u - d
    BY <1>1, <1>3
  <1>6. Signed(x, n) \in (-h)..(h - 1) /\ Signed(x, n) % d = u /\ (Signed(x, n) = -h => u = h)
    BY <1>1, <1>2, <1>3, <1>4, <1>5
  <1>7. ASSUME NEW s \in (-h)..(h - 1), s % d = u PROVE Signed(x, n) = s
    <2>1. CASE s >= 0
      <3>1. s \in 0..(d - 1)
        BY <1>1, <2>1
      <3>2. s % d = s
        BY <1>1, <3>1, Within
      <3> QED BY <1>1, <1>2, <1>7, <3>1, <3>2
    <2>2. CASE s < 0
      <3>1. s + 1 * d \in 0..(d - 1) /\ s \in Int
        BY <1>1, <2>2
      <3>2. (s + 1 * d) % d = s % d
        BY <1>1, <3>1, AddMultiple
      <3>3. (s + 1 * d) % d = s + 1 * d
        BY <1>1, <3>1, Within
      <3> QED BY <1>1, <1>2, <1>7, <2>2, <3>1, <3>2, <3>3
    <2> QED BY <1>1, <2>1, <2>2
  <1> QED BY <1>6, <1>7 DEF d, h, u

\* A word as a signed number.
LEMMA SignedWord ==
    ASSUME NEW x \in Int
    PROVE  /\ Signed(x, WB) \in (-MinW)..MaxW /\ Signed(x, WB) \in Int
           /\ ToW(Signed(x, WB)) = ToW(x)
           /\ \A s \in (-MinW)..MaxW : ToW(s) = ToW(x) => Signed(x, WB) = s
  <1>1. WB \in 1..DB
    BY Widths
  <1>2. /\ Signed(x, WB) \in (-2^(WB - 1))..(2^(WB - 1) - 1)
        /\ Signed(x, WB) % 2^WB = x % 2^WB
        /\ \A s \in (-2^(WB - 1))..(2^(WB - 1) - 1) : s % 2^WB = x % 2^WB => Signed(x, WB) = s
    BY <1>1, SignedField
  <1>3. MinW \in Nat
    BY Sizes
  <1>4. /\ Signed(x, WB) \in (-MinW)..MaxW
        /\ ToW(Signed(x, WB)) = ToW(x)
        /\ \A s \in (-MinW)..MaxW : ToW(s) = ToW(x) => Signed(x, WB) = s
    BY <1>2 DEF MinW, MaxW, ToW
  <1> QED BY <1>3, <1>4, Sizes

\* Sign extension does not change the word.
LEMMA Extended ==
    ASSUME NEW x \in Int
    PROVE  ExtsW(x) \in Doubles /\ Lo(ExtsW(x)) = ToW(x)
  <1>1. Signed(x, WB) \in Int /\ ToW(Signed(x, WB)) = ToW(x)
    BY SignedWord
  <1>2. ToD(Signed(x, WB)) \in Doubles /\ Lo(ToD(Signed(x, WB))) = ToW(Signed(x, WB))
    BY <1>1, Casts
  <1> QED BY <1>1, <1>2 DEF ExtsW

\* Sums, differences and products of casts.
LEMMA CastOfSum ==
    ASSUME NEW x \in Int, NEW y \in Int
    PROVE  /\ ToW(ToW(x) + y) = ToW(x + y) /\ ToW(x + ToW(y)) = ToW(x + y)
           /\ ToW(ToW(x) - y) = ToW(x - y) /\ ToW(x - ToW(y)) = ToW(x - y)
           /\ ToD(ToD(x) + y) = ToD(x + y) /\ ToD(x + ToD(y)) = ToD(x + y)
           /\ ToD(ToD(x) - y) = ToD(x - y) /\ ToD(x - ToD(y)) = ToD(x - y)
  <1>1. /\ ((x % WordSize) + y) % WordSize = (x + y) % WordSize
        /\ (x + (y % WordSize)) % WordSize = (x + y) % WordSize
        /\ ((x % WordSize) - y) % WordSize = (x - y) % WordSize
        /\ (x - (y % WordSize)) % WordSize = (x - y) % WordSize
    BY Sizes, SumOfRests
  <1>2. /\ ((x % DoubleSize) + y) % DoubleSize = (x + y) % DoubleSize
        /\ (x + (y % DoubleSize)) % DoubleSize = (x + y) % DoubleSize
        /\ ((x % DoubleSize) - y) % DoubleSize = (x - y) % DoubleSize
        /\ (x - (y % DoubleSize)) % DoubleSize = (x - y) % DoubleSize
    BY Sizes, SumOfRests
  <1> QED BY <1>1, <1>2, InSizes


\* A sum of n terms is a function of n.
LEMMA Summation ==
    ASSUME NEW N \in Nat, NEW f, \A n \in 0..(N - 1) : f[n] \in Int
    PROVE  \E g \in [0..N -> Int] :
              g = [n \in 0..N |-> IF n = 0 THEN 0 ELSE g[n - 1] + f[n - 1]]
  <1> DEFINE Sum(g, m) == /\ g \in [0..m -> Int] /\ g[0] = 0
                          /\ \A n \in 1..m : g[n] = g[n - 1] + f[n - 1]
             S == {m \in 0..N : \A g : ~Sum(g, m)}
  <1>1. S = {}
    <2> SUFFICES ASSUME S # {} PROVE FALSE
      OBVIOUS
    <2>0. S \subseteq Nat
      OBVIOUS
    <2>1. PICK m \in S : \A i \in S : m <= i
      <3> HIDE DEF S
      <3> QED BY <2>0, LeastNatural
    <2>2. m # 0
      <3> DEFINE g == [n \in 0..0 |-> 0]
      <3>1. Sum(g, 0)
        OBVIOUS
      <3> HIDE DEF g
      <3> QED BY <2>1, <3>1
    <2>3. m - 1 \in 0..N /\ m - 1 \notin S
      <3>1. m \in 0..N
        BY <2>1
      <3> HIDE DEF S
      <3> QED BY <2>1, <2>2, <3>1
    <2>4. PICK g : Sum(g, m - 1)
      BY <2>3
    <2> DEFINE h == [n \in 0..m |-> IF n = m THEN g[m - 1] + f[m - 1] ELSE g[n]]
    <2>5. m - 1 \in 0..(N - 1) /\ m \in Nat /\ m - 1 \in 0..(m - 1)
      BY <2>1, <2>2
    <2>6. f[m - 1] \in Int /\ g[m - 1] \in Int
      BY <2>4, <2>5
    <2>7. h \in [0..m -> Int]
      BY <2>4, <2>5, <2>6
    <2>8. h[0] = 0
      BY <2>2, <2>4, <2>5
    <2>9. \A n \in 1..m : h[n] = h[n - 1] + f[n - 1]
      <3> SUFFICES ASSUME NEW n \in 1..m PROVE h[n] = h[n - 1] + f[n - 1]
        OBVIOUS
      <3>1. n - 1 \in 0..m /\ n \in 0..m /\ n - 1 # m
        BY <2>5
      <3>2. h[n - 1] = g[n - 1]
        BY <3>1
      <3>3. CASE n = m
        BY <3>1, <3>2, <3>3
      <3>4. CASE n # m
        <4>1. n \in 1..(m - 1) /\ h[n] = g[n]
          BY <2>5, <3>1, <3>4
        <4> QED BY <2>4, <3>2, <4>1
      <3> QED BY <3>3, <3>4
    <2>10. Sum(h, m)
      BY <2>7, <2>8, <2>9
    <2> HIDE DEF h
    <2> QED BY <2>1, <2>10
  <1>2. PICK g : Sum(g, N)
    <2>1. N \in 0..N
      OBVIOUS
    <2> HIDE DEF Sum
    <2>2. N \notin S
      BY <1>1
    <2>3. ~(\A g : ~Sum(g, N))
      BY <2>1, <2>2
    <2> QED BY <2>3
  <1> DEFINE r == [n \in 0..N |-> IF n = 0 THEN 0 ELSE g[n - 1] + f[n - 1]]
  <1>3. \A n \in 0..N : g[n] = r[n]
    <2> SUFFICES ASSUME NEW n \in 0..N PROVE g[n] = r[n]
      OBVIOUS
    <2>1. n # 0 => n \in 1..N
      OBVIOUS
    <2> QED BY <1>2, <2>1
  <1>4. g \in [0..N -> Int] /\ DOMAIN r = 0..N
    BY <1>2
  <1>5. g = r
    <2>1. g = [n \in 0..N |-> g[n]]
      BY <1>4
    <2>2. r = [n \in 0..N |-> r[n]]
      OBVIOUS
    <2> HIDE DEF r
    <2> QED BY <1>3, <2>1, <2>2
  <1> QED BY <1>4, <1>5

\* So is a number of n digits, the most significant first.
LEMMA Horner ==
    ASSUME NEW N \in Nat, NEW B \in Int, NEW f, \A n \in 0..(N - 1) : f[n] \in Int
    PROVE  \E g \in [0..N -> Int] :
              g = [n \in 0..N |-> IF n = 0 THEN 0 ELSE g[n - 1] * B + f[n - 1]]
  <1> DEFINE Sum(g, m) == /\ g \in [0..m -> Int] /\ g[0] = 0
                          /\ \A n \in 1..m : g[n] = g[n - 1] * B + f[n - 1]
             Z == {m \in 0..N : \A g : ~Sum(g, m)}
  <1>1. Z = {}
    <2> SUFFICES ASSUME Z # {} PROVE FALSE
      OBVIOUS
    <2>0. Z \subseteq Nat
      OBVIOUS
    <2>1. PICK m \in Z : \A i \in Z : m <= i
      <3> HIDE DEF Z
      <3> QED BY <2>0, LeastNatural
    <2>2. m # 0
      <3> DEFINE g == [n \in 0..0 |-> 0]
      <3>1. Sum(g, 0)
        OBVIOUS
      <3> HIDE DEF g
      <3> QED BY <2>1, <3>1
    <2>3. m - 1 \in 0..N /\ m - 1 \notin Z
      <3>1. m \in 0..N
        BY <2>1
      <3> HIDE DEF Z
      <3> QED BY <2>1, <2>2, <3>1
    <2>4. PICK g : Sum(g, m - 1)
      BY <2>3
    <2>5. m - 1 \in 0..(N - 1) /\ m \in Nat /\ m - 1 \in 0..(m - 1)
      BY <2>1, <2>2
    <2>6. f[m - 1] \in Int /\ g[m - 1] \in Int
      BY <2>4, <2>5
    <2> DEFINE last == g[m - 1] * B + f[m - 1]
               h == [n \in 0..m |-> IF n = m THEN last ELSE g[n]]
    <2>6a. last \in Int
      <3> DEFINE a == g[m - 1]
                 b == f[m - 1]
      <3>1. a \in Int /\ b \in Int
        BY <2>6
      <3> HIDE DEF a, b
      <3>2. a * B \in Int
        BY <3>1
      <3>3. a * B + b \in Int
        BY <3>1, <3>2
      <3> QED BY <3>3 DEF a, b
    <2> HIDE DEF last
    <2>7. h \in [0..m -> Int]
      BY <2>4, <2>5, <2>6a
    <2>8. h[0] = 0
      BY <2>2, <2>4, <2>5
    <2>9. \A n \in 1..m : h[n] = h[n - 1] * B + f[n - 1]
      <3> SUFFICES ASSUME NEW n \in 1..m PROVE h[n] = h[n - 1] * B + f[n - 1]
        OBVIOUS
      <3>1. n - 1 \in 0..m /\ n \in 0..m /\ n - 1 # m
        BY <2>5
      <3>2. h[n - 1] = g[n - 1]
        BY <3>1
      <3>3. CASE n = m
        <4>1. h[n] = last
          BY <3>1, <3>3
        <4> QED BY <3>2, <3>3, <4>1 DEF last
      <3>4. CASE n # m
        <4>1. n \in 1..(m - 1) /\ h[n] = g[n]
          BY <2>5, <3>1, <3>4
        <4>2. g[n] = g[n - 1] * B + f[n - 1]
          BY <2>4, <4>1
        <4> QED BY <3>2, <4>1, <4>2
      <3> QED BY <3>3, <3>4
    <2>10. Sum(h, m)
      BY <2>7, <2>8, <2>9
    <2> HIDE DEF h
    <2> QED BY <2>1, <2>10
  <1>2. PICK g : Sum(g, N)
    <2>1. N \in 0..N
      OBVIOUS
    <2> HIDE DEF Sum
    <2>2. N \notin Z
      BY <1>1
    <2>3. ~(\A g : ~Sum(g, N))
      BY <2>1, <2>2
    <2> QED BY <2>3
  <1> DEFINE r == [n \in 0..N |-> IF n = 0 THEN 0 ELSE g[n - 1] * B + f[n - 1]]
  <1>3. \A n \in 0..N : g[n] = r[n]
    <2> SUFFICES ASSUME NEW n \in 0..N PROVE g[n] = r[n]
      OBVIOUS
    <2>1. CASE n = 0
      BY <1>2, <2>1
    <2>2. CASE n # 0
      <3>1. n \in 1..N
        BY <2>2
      <3>2. r[n] = g[n - 1] * B + f[n - 1]
        BY <2>2
      <3> QED BY <1>2, <3>1, <3>2
    <2> QED BY <2>1, <2>2
  <1>4. g \in [0..N -> Int] /\ DOMAIN r = 0..N
    BY <1>2
  <1>5. g = r
    <2>1. g = [n \in 0..N |-> g[n]]
      BY <1>4
    <2>2. r = [n \in 0..N |-> r[n]]
      OBVIOUS
    <2> HIDE DEF r
    <2> QED BY <1>3, <2>1, <2>2
  <1> QED BY <1>4, <1>5
=============================================================================
