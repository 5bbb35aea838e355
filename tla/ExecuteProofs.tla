---------------------------- MODULE ExecuteProofs ----------------------------
(***************************************************************************)
(* Proofs about the instructions of Integer and Spe, for words of any      *)
(* width.                                                                  *)
(***************************************************************************)
EXTENDS Spe, HostWordsProofs

---------------------------------------------------------------------------
(* Sums of words *)

\* Bits 31 and 32 of a register: the lowest of the high word, the highest of the low one.
LEMMA MiddleBits ==
    ASSUME NEW x \in Int
    PROVE  /\ B_N(x, WB - 1) = (x \div WordSize) % 2
           /\ B_N(x, WB) = (x \div MinW) % 2
  <1>1. DB - 1 - (WB - 1) = WB /\ DB - 1 - WB = WB - 1
    BY Widths
  <1> QED BY <1>1 DEF B_N, WordSize, MinW

\* Of a sum of two signed words, widened to a register, bit 31 is the sign, and bit 32
\* differs from it when the sum is no word.
LEMMA SignBits ==
    ASSUME NEW x \in (-WordSize)..(WordSize - 1)
    PROVE  /\ B_N(ToD(x), WB - 1) = IF x < 0 THEN 1 ELSE 0
           /\ (B_N(ToD(x), WB - 1) = 1) # (B_N(ToD(x), WB) = 1) <=> x \notin (-MinW)..MaxW
  <1> DEFINE w == WordSize
             m == MinW
             y == ToD(x)
  <1>0. /\ w \in Nat /\ m \in Nat /\ m > 1 /\ w = 2 * m /\ MaxW = m - 1 /\ DoubleSize = w * w
        /\ DoubleSize \in Nat /\ DoubleSize > 0
    BY Sizes
  <1>x. x \in Int /\ x \in (-w)..(w - 1)
    BY <1>0
  <1>y. y \in Int /\ B_N(y, WB - 1) = (y \div w) % 2 /\ B_N(y, WB) = (y \div m) % 2
    <2>1. y \in Int
      BY <1>x, Casts, CastWithin
    <2> HIDE DEF y
    <2> QED BY <2>1, MiddleBits
  <1>1. CASE x >= 0
    <2>1. w <= DoubleSize
      <3>1. (w - 1) * w \in Nat
        BY <1>0
      <3>2. (w - 1) * w = w * w - w
        BY <1>0
      <3> DEFINE p == w * w
      <3>3. p - w \in Nat /\ DoubleSize = p
        BY <1>0, <3>1, <3>2
      <3> HIDE DEF p, w
      <3> QED BY <1>0, <3>3
    <2>2. x \in 0..(DoubleSize - 1)
      BY <1>0, <1>x, <1>1, <2>1
    <2>3. y = x
      BY <1>0, <2>2, Within, InSizes
    <2>4. x \div w = 0
      BY <1>0, <1>x, <1>1, Within
    <2>5. x \div m = IF x < m THEN 0 ELSE 1
      <3>1. CASE x < m
        <4>1. x \in 0..(m - 1)
          BY <1>0, <1>x, <1>1, <3>1
        <4>2. x \div m = 0
          BY <1>0, <4>1, Within
        <4> QED BY <3>1, <4>2
      <3>2. CASE x >= m
        <4>1. x - m \in 0..(m - 1) /\ x = 1 * m + (x - m)
          BY <1>0, <1>x, <3>2
        <4>2. (1 * m + (x - m)) \div m = 1
          BY <1>0, <4>1, DivideOnce
        <4>3. x \div m = 1
          BY <4>1, <4>2
        <4> QED BY <1>0, <1>x, <3>2, <4>3
      <3> QED BY <1>0, <1>x, <3>1, <3>2
    <2> HIDE DEF y
    <2>6. B_N(y, WB - 1) = 0 /\ B_N(y, WB) = IF x < m THEN 0 ELSE 1
      BY <1>y, <2>3, <2>4, <2>5
    <2>7. x \notin (-m)..(m - 1) <=> ~(x < m)
      BY <1>0, <1>x, <1>1
    <2> QED BY <1>0, <1>x, <1>1, <2>6, <2>7 DEF y
  <1>2. CASE x < 0
    <2>1. (x + 1 * DoubleSize) % DoubleSize = x % DoubleSize
      <3>1. DoubleSize \in Nat /\ DoubleSize > 0 /\ x \in Int /\ 1 \in Int
        BY <1>0, <1>x
      <3> QED BY <3>1, AddMultiple
    <2>2. w * w = (w - 1) * w + w /\ (w - 1) * w \in Nat
      BY <1>0
    <2> DEFINE p == (w - 1) * w
    <2>p. p \in Nat /\ DoubleSize = p + w
      BY <1>0, <2>2
    <2> HIDE DEF p
    <2>3. x + 1 * DoubleSize = p + (x + w) /\ x + w \in 0..(w - 1)
      BY <1>0, <1>x, <1>2, <2>p
    <2>4. p + (x + w) \in 0..(DoubleSize - 1)
      BY <1>0, <2>p, <2>3
    <2>5. y = p + (x + w)
      <3>1. (p + (x + w)) % DoubleSize = p + (x + w)
        BY <1>0, <2>4, Within
      <3> QED BY <2>1, <2>3, <3>1, InSizes
    <2>6. y \div w = w - 1
      <3>1. ((w - 1) * w + (x + w)) \div w = w - 1
        BY <1>0, <2>3, DivideOnce
      <3> QED BY <2>5, <3>1 DEF p
    <2>7. p = (2 * (w - 1)) * m
      <3>1. (w - 1) * (2 * m) = (2 * (w - 1)) * m
        BY <1>0
      <3> QED BY <1>0, <3>1 DEF p
    <2>8. y \div m = IF x < -m THEN 2 * (w - 1) ELSE 2 * (w - 1) + 1
      <3> DEFINE q == 2 * (w - 1)
      <3>0. q \in Int /\ p = q * m
        BY <1>0, <2>7
      <3>1. CASE x < -m
        <4>1. x + w \in 0..(m - 1)
          BY <1>0, <1>x, <3>1
        <4>2. (q * m + (x + w)) \div m = q
          BY <1>0, <3>0, <4>1, DivideOnce
        <4> QED BY <2>5, <3>0, <3>1, <4>2
      <3>2. CASE x >= -m
        <4>1. x + m \in 0..(m - 1) /\ q + 1 \in Int
          BY <1>0, <1>x, <1>2, <3>0, <3>2
        <4>2. ((q + 1) * m + (x + m)) \div m = q + 1
          BY <1>0, <4>1, DivideOnce
        <4>3. (q + 1) * m = q * m + m
          BY <1>0, <3>0
        <4>4. q * m + (x + w) = (q + 1) * m + (x + m)
          <5> DEFINE a == q * m
          <5>1. a \in Int /\ (q + 1) * m = a + m
            BY <1>0, <3>0, <4>3
          <5> HIDE DEF a
          <5>2. a + (x + w) = (a + m) + (x + m)
            BY <1>0, <1>x, <5>1
          <5> QED BY <5>1, <5>2 DEF a
        <4>5. y = q * m + (x + w)
          BY <2>5, <3>0
        <4>6. y \div m = q + 1
          BY <4>2, <4>4, <4>5
        <4> QED BY <1>0, <1>x, <3>2, <4>6
      <3> QED BY <1>0, <1>x, <3>1, <3>2
    <2>9. (w - 1) % 2 = 1 /\ (2 * (w - 1)) % 2 = 0 /\ (2 * (w - 1) + 1) % 2 = 1
      BY <1>0
    <2> HIDE DEF y
    <2>10. B_N(y, WB - 1) = 1 /\ B_N(y, WB) = IF x < -m THEN 0 ELSE 1
      BY <1>y, <2>6, <2>8, <2>9
    <2>11. x \notin (-m)..(m - 1) <=> x < -m
      BY <1>0, <1>x, <1>2
    <2> QED BY <1>0, <1>x, <1>2, <2>10, <2>11 DEF y
  <1> QED BY <1>x, <1>1, <1>2
---------------------------------------------------------------------------
(* Saturating sums *)

\* The integer whose clamped value a signed sum is.
TrueSum(s, a, p) == IF Subtracts(s) THEN a - p ELSE a + p

\* A signed saturating sum is the sum of the integers, clamped to a word.
LEMMA SignedSumClamps ==
    ASSUME NEW s, NEW l, NEW p \in Int, W(acc, l) \in Int
    PROVE  LET x == TrueSum(s, Signed(W(acc, l), WB), Signed(p, WB))
               r == SignedSum(s, l, p, MinW)
           IN  /\ r.v = ToW(Clamp(x, -MinW, MaxW))
               /\ Clamp(x, -MinW, MaxW) # x => r.ov
  <1> DEFINE a == Signed(W(acc, l), WB)
             b == Signed(p, WB)
             x == TrueSum(s, a, b)
             high == B_N(ToD(x), WB - 1) = 1
             low == B_N(ToD(x), WB) = 1
             ov == high # low
             v == SATURATE(ov, high, MinW, MaxW, Lo(ToD(x)))
  <1>1. SignedSum(s, l, p, MinW) = [v |-> v, ov |-> ov]
    BY DEF SignedSum, TrueSum
  <1>2. a \in (-MinW)..MaxW /\ b \in (-MinW)..MaxW
    BY SignedWord
  <1> HIDE DEF a, b
  <1>3. x \in (-WordSize)..(WordSize - 1) /\ x \in Int
    BY <1>2, Sizes DEF TrueSum
  <1> HIDE DEF x
  <1>4. /\ B_N(ToD(x), WB - 1) = IF x < 0 THEN 1 ELSE 0
        /\ ov <=> x \notin (-MinW)..MaxW
    BY <1>3, SignBits
  <1>5. high <=> x < 0
    BY <1>4
  <1>6. Lo(ToD(x)) = ToW(x)
    BY <1>3, Casts
  <1> HIDE DEF high, ov
  <1>7. MinW \in Nat /\ MinW > 1 /\ MaxW = MinW - 1
    BY Sizes
  <1>8. CASE x \in (-MinW)..MaxW
    <2>1. v = ToW(x) /\ ~ov
      BY <1>4, <1>6, <1>8 DEF SATURATE
    <2>2. Clamp(x, -MinW, MaxW) = x
      BY <1>3, <1>7, <1>8 DEF Clamp
    <2> HIDE DEF v
    <2> QED BY <1>1, <2>1, <2>2 DEF a, b, x
  <1>9. CASE x > MaxW
    <2>1. ov /\ ~high
      BY <1>3, <1>4, <1>5, <1>7, <1>9
    <2>2. v = MaxW
      BY <2>1 DEF SATURATE
    <2>3. Clamp(x, -MinW, MaxW) = MaxW
      BY <1>3, <1>7, <1>9 DEF Clamp
    <2>4. MaxW \in Words
      BY <1>7, Sizes, InSizes
    <2>5. ToW(MaxW) = MaxW
      BY <2>4, CastWithin
    <2> HIDE DEF v
    <2> QED BY <1>1, <2>1, <2>2, <2>3, <2>5 DEF a, b, x
  <1>10. CASE x < -MinW
    <2>1. ov /\ high
      BY <1>3, <1>4, <1>5, <1>7, <1>10
    <2>2. v = MinW
      BY <2>1 DEF SATURATE
    <2>3. Clamp(x, -MinW, MaxW) = -MinW
      BY <1>3, <1>7, <1>10 DEF Clamp
    <2>4. ToW(-MinW) = MinW
      <3>1. (-MinW + 1 * WordSize) % WordSize = (-MinW) % WordSize
        BY <1>7, Sizes, AddMultiple
      <3>2. -MinW + 1 * WordSize = MinW /\ MinW \in 0..(WordSize - 1)
        BY <1>7, Sizes
      <3>3. MinW % WordSize = MinW
        BY <3>2, Sizes, Within
      <3> QED BY <3>1, <3>2, <3>3, InSizes
    <2> HIDE DEF v
    <2> QED BY <1>1, <2>1, <2>2, <2>3, <2>4 DEF a, b, x
  <1> QED BY <1>3, <1>7, <1>8, <1>9, <1>10

\* An unsigned one, clamped to an unsigned word.
LEMMA UnsignedSumClamps ==
    ASSUME NEW s, NEW l, NEW p \in Words, W(acc, l) \in Words
    PROVE  LET x == TrueSum(s, W(acc, l), p)
               r == UnsignedSum(s, l, p)
           IN  /\ r.v = ToW(Clamp(x, 0, 2^WB - 1))
               /\ Clamp(x, 0, 2^WB - 1) # x => r.ov
  <1> DEFINE a == W(acc, l)
             w == WordSize
             x == TrueSum(s, a, p)
             y == IF Subtracts(s) THEN ToD(a - p) ELSE a + p
             ov == B_N(y, WB - 1) = 1
             sat == IF Subtracts(s) THEN 0 ELSE 2^WB - 1
             v == SATURATE(ov, FALSE, sat, sat, Lo(y))
  <1>1. UnsignedSum(s, l, p) = [v |-> v, ov |-> ov]
    BY DEF UnsignedSum
  <1>2. /\ a \in 0..(w - 1) /\ p \in 0..(w - 1) /\ w \in Nat /\ w > 0 /\ 2^WB = w
        /\ MinW \in Nat /\ w = 2 * MinW
    BY Sizes, InSizes DEF WordSize
  <1>w. w - 1 \in Words /\ 0 \in Words
    BY <1>2, InSizes
  <1>v. ToW(w - 1) = w - 1 /\ ToW(0) = 0
    BY <1>w, CastWithin
  <1> HIDE DEF a, w
  <1>3. CASE Subtracts(s)
    <2>1. x = a - p /\ y = ToD(x) /\ sat = 0 /\ x \in Int /\ x \in (-WordSize)..(WordSize - 1)
      BY <1>2, <1>3 DEF TrueSum, w
    <2> HIDE DEF x, y, sat
    <2>2. ov <=> x < 0
      <3>1. B_N(ToD(x), WB - 1) = IF x < 0 THEN 1 ELSE 0
        BY <2>1, SignBits
      <3> QED BY <2>1, <3>1
    <2>3. Lo(y) = ToW(x)
      BY <2>1, Casts
    <2> HIDE DEF ov
    <2>4. v = IF x < 0 THEN 0 ELSE ToW(x)
      BY <2>1, <2>2, <2>3 DEF SATURATE
    <2>5. Clamp(x, 0, w - 1) = IF x < 0 THEN 0 ELSE x
      BY <1>2, <2>1 DEF Clamp, w
    <2> HIDE DEF v
    <2>6. v = ToW(Clamp(x, 0, w - 1)) /\ (Clamp(x, 0, w - 1) # x => ov)
      BY <1>v, <2>1, <2>2, <2>4, <2>5
    <2> QED BY <1>1, <1>2, <2>6 DEF x, a
  <1>4. CASE ~Subtracts(s)
    <2>1. x = a + p /\ y = x /\ sat = w - 1 /\ x \in Int /\ x \in 0..(2 * w - 2)
      BY <1>2, <1>4 DEF TrueSum
    <2> HIDE DEF x, y, sat
    <2>2. ov <=> x > w - 1
      <3>1. B_N(y, WB - 1) = (x \div w) % 2
        BY <2>1, MiddleBits DEF w
      <3>2. CASE x > w - 1
        <4>1. x - w \in 0..(w - 1) /\ x = 1 * w + (x - w)
          BY <1>2, <2>1, <3>2
        <4>2. (1 * w + (x - w)) \div w = 1
          BY <1>2, <4>1, DivideOnce
        <4>3. (x \div w) % 2 = 1
          BY <4>1, <4>2
        <4> QED BY <3>1, <3>2, <4>3
      <3>3. CASE ~(x > w - 1)
        <4>1. x \in 0..(w - 1)
          BY <1>2, <2>1, <3>3
        <4>2. x \div w = 0
          BY <1>2, <4>1, Within
        <4> QED BY <3>1, <3>3, <4>2
      <3> QED BY <3>2, <3>3
    <2>3. Lo(y) = ToW(x)
      BY <2>1, Casts
    <2> HIDE DEF ov
    <2>4. v = IF x > w - 1 THEN w - 1 ELSE ToW(x)
      BY <2>1, <2>2, <2>3 DEF SATURATE
    <2>5. Clamp(x, 0, w - 1) = IF x > w - 1 THEN w - 1 ELSE x
      BY <1>2, <2>1 DEF Clamp
    <2> HIDE DEF v
    <2>6. v = ToW(Clamp(x, 0, w - 1)) /\ (Clamp(x, 0, w - 1) # x => ov)
      BY <1>v, <2>1, <2>2, <2>4, <2>5
    <2> QED BY <1>1, <1>2, <2>6 DEF x, a
  <1> QED BY <1>3, <1>4
---------------------------------------------------------------------------
(* What a step does to the program counter and to SPEFSCR *)

\* An instruction that completes, and one that ends the process.
Goes  == k' = k + 1 /\ prog' = prog /\ down' = down
Stops == UNCHANGED <<gpr, xer, cr, prog, k>> /\ UNCHANGED speVars /\ down' = TRUE

\* SPEFSCR is left alone, or written by UPDATE_SPEFSCR_OV.
Updated(f) == f = spefscr \/ \E h, l : f = UPDATE_SPEFSCR_OV(h, l)
Flagged    == Updated(spefscr') \/ spefscr' = [spefscr EXCEPT !.fp = FALSE]

\* The two ways SPEFSCR stays within Updated.
LEMMA Updates == Updated(spefscr) /\ \A h, l : Updated(UPDATE_SPEFSCR_OV(h, l))
  BY DEF Updated

\* The ends of a vector instruction.
LEMMA Ends ==
    ASSUME NEW v, NEW t, NEW f, SpeDone(v, t, f), Updated(f)
    PROVE  Goes /\ Flagged
  BY DEF SpeDone, Complete, Goes, Flagged

\* The end of one of two saturated lanes.
LEMMA SaturatedEnds ==
    ASSUME NEW r, SpeSaturated(r)
    PROVE  Goes /\ Flagged
  <1>1. SpeDone(PACK_2W(r[0].v, r[1].v), TRUE, UPDATE_SPEFSCR_OV(r[0].ov, r[1].ov))
    BY DEF SpeSaturated
  <1> QED BY <1>1, Ends, Updates

\* Every integer instruction completes or ends the process.
LEMMA IntegerSteps ==
    ASSUME IntegerNext, UNCHANGED speVars
    PROVE  (Goes \/ Stops) /\ Flagged
  <1>1. Flagged
    BY Updates DEF Flagged, speVars
  <1>2. ASSUME NEW r, NEW x, NEW c, Complete(r, x, c) PROVE Goes
    BY <1>2 DEF Complete, Goes
  <1>3. Add \/ Subtract \/ Logical => Goes
    BY <1>2 DEF Add, Subtract, Logical, CompleteHost
  <1>4. Divide => Goes \/ Stops
    <2> SUFFICES ASSUME Divide PROVE Goes \/ Stops
      OBVIOUS
    <2>1. \/ \E r, x, c : Complete(r, x, c)
          \/ UNCHANGED <<gpr, xer, cr, prog, k>> /\ down' = TRUE
      BY Zenon DEF Divide
    <2> QED BY <1>2, <2>1 DEF Stops
  <1>5. Multiply \/ LogicalWide => Goes
    BY <1>2 DEF Multiply, LogicalWide, CompleteValue
  <1>6. Compare \/ CrLogic \/ mcrf \/ mtcrf \/ mcrxr \/ mfcr \/ isel => Goes
    BY DEF Compare, CrLogic, mcrf, mtcrf, mcrxr, mfcr, isel, Complete, Goes
  <1>7. Rotate \/ ShiftLogical \/ ShiftAlgebraic => Goes
    BY DEF Rotate, ShiftLogical, ShiftAlgebraic, CompleteValue, Complete, Goes
  <1> QED BY <1>1, <1>3, <1>4, <1>5, <1>6, <1>7 DEF IntegerNext

\* So does every vector instruction, and SPEFSCR changes in one of three ways.
LEMMA SpeSteps ==
    ASSUME SpeNext
    PROVE  (Goes \/ Stops) /\ Flagged
  <1>1. brinc \/ evabs_addiw \/ evaddw_and \/ evcntl \/ eveqv_ext \/ evmerge => Goes /\ Flagged
    BY Ends, Updates DEF brinc, evabs_addiw, evaddw_and, evcntl, eveqv_ext, evmerge
  <1>2. ASSUME evadd_aaw PROVE Goes /\ Flagged
    <2>1. CASE ic.op \in {"evaddsmiaaw", "evaddumiaaw"}
      <3>1. SpeDone(Pack(LAMBDA l : ToW(W(acc, l) + W(REG1, l))), TRUE, spefscr)
        BY <1>2, <2>1 DEF evadd_aaw, Fetch
      <3> QED BY <3>1, Ends, Updates
    <2>2. CASE ic.op = "evaddusiaaw"
      <3>1. SpeDone(Pack(LAMBDA l : ToW(W(acc, l) + W(REG1, l))), TRUE,
                    UPDATE_SPEFSCR_OV(FALSE, FALSE))
        BY <1>2, <2>2 DEF evadd_aaw, Fetch
      <3> QED BY <3>1, Ends, Updates
    <2>3. CASE ic.op = "evaddssiaaw"
      <3>1. SpeSaturated([l \in Lanes |-> SignedSum("aaw", l, W(REG1, l), MinW)])
        BY <1>2, <2>3 DEF evadd_aaw, Fetch
      <3> QED BY <3>1, SaturatedEnds
    <2> QED BY <1>2, <2>1, <2>2, <2>3 DEF evadd_aaw, Fetch
  <1>3. evcmp => Goes /\ Flagged
    BY Updates DEF evcmp, SpeCompare, speVars, Complete, Goes, Flagged
  <1>4. evdivw => Stops /\ Flagged
    BY Updates DEF evdivw, Stops, Flagged, speVars
  <1>5. evmheg \/ evmhesm \/ evmheumi \/ evmhog \/ evmhosm \/ evmhoumi \/ evmra => Goes /\ Flagged
    BY Ends, Updates DEF evmheg, evmhesm, evmheumi, evmhog, evmhosm, evmhoumi, evmra
  <1>6. evmhessf => Goes /\ Flagged
    BY Ends, Updates DEF evmhessf
  <1>7. evmhessi \/ evmheusi \/ evmhossi \/ evmhousi => Goes /\ Flagged
    BY SaturatedEnds DEF evmhessi, evmheusi, evmhossi, evmhousi
  <1>8. ASSUME evmhossf PROVE Goes /\ Flagged
    <2>1. CASE Accumulates(ic.s)
      BY <1>8, <2>1, SaturatedEnds DEF evmhossf
    <2>2. CASE ~Accumulates(ic.s)
      BY <1>8, <2>2, Ends, Updates DEF evmhossf
    <2> QED BY <2>1, <2>2
  <1>9. evmwh => Goes /\ Flagged
    BY Ends, Updates DEF evmwh
  <1>10. evmwl => Goes /\ Flagged
    BY Ends, Updates, SaturatedEnds DEF evmwl
  <1>11. evmws => Goes /\ Flagged
    BY Ends, Updates DEF evmws
  <1>12. evmwssf => Goes /\ Flagged
    BY Ends, Updates DEF evmwssf
  <1>13. evlogic \/ evrotate_sel \/ evshift_left \/ evshift_right \/ evxor \/ evfs_sign \/ efd_sign
           => Goes /\ Flagged
    BY Ends, Updates
    DEF evlogic, evrotate_sel, evshift_left, evshift_right, evxor, evfs_sign, efd_sign
  <1>14. ASSUME evsubf PROVE Goes /\ Flagged
    <2>1. CASE ic.op \in {"evsubfsmiaaw", "evsubfumiaaw"}
      BY <1>14, <2>1, Ends, Updates DEF evsubf
    <2>2. CASE ic.op = "evsubfssiaaw"
      BY <1>14, <2>2, SaturatedEnds DEF evsubf
    <2>3. CASE ic.op = "evsubfusiaaw"
      BY <1>14, <2>3, SaturatedEnds DEF evsubf
    <2>4. CASE ic.op = "evsubfw"
      BY <1>14, <2>4, Ends, Updates DEF evsubf
    <2>5. CASE ic.op = "evsubifw"
      BY <1>14, <2>5, Ends, Updates DEF evsubf
    <2> QED BY <1>14, <2>1, <2>2, <2>3, <2>4, <2>5 DEF evsubf, Fetch
  <1>15. evfs_arith \/ evfs_compare => Goes /\ Flagged
    BY Updates DEF evfs_arith, evfs_compare, update_spefscr, Complete, Goes, Flagged
  <1> QED
    BY <1>1, <1>2, <1>3, <1>4, <1>5, <1>6, <1>7, <1>8, <1>9, <1>10, <1>11, <1>12, <1>13, <1>14,
       <1>15
    DEF SpeNext

\* What holds of any step.
LEMMA Steps ==
    ASSUME Next
    PROVE  (Goes \/ Stops) /\ Flagged
  BY IntegerSteps, SpeSteps DEF Next

---------------------------------------------------------------------------
(* The sticky bits of SPEFSCR *)

\* What holds of SPEFSCR between two instructions: an overflow flag is on record.
OnRecord ==
    /\ DOMAIN spefscr = {"ovh", "ov", "sovh", "sov", "fp"}
    /\ spefscr.ov => spefscr.sov
    /\ spefscr.ovh => spefscr.sovh

\* The body of OverflowIsSticky.
Sticks ==
    /\ spefscr.sov => spefscr'.sov
    /\ spefscr.sovh => spefscr'.sovh
    /\ spefscr'.ov => spefscr'.sov
    /\ spefscr'.ovh => spefscr'.sovh

\* Each of the three ways SPEFSCR changes keeps what is on record.
LEMMA FlagsStick ==
    ASSUME OnRecord, Flagged
    PROVE  Sticks /\ OnRecord'
  <1>1. CASE spefscr' = spefscr
    BY <1>1, Zenon DEF OnRecord, Sticks
  <1>2. CASE spefscr' = [spefscr EXCEPT !.fp = FALSE]
    <2>1. /\ DOMAIN spefscr' = DOMAIN spefscr
          /\ spefscr'["ov"] = spefscr["ov"] /\ spefscr'["sov"] = spefscr["sov"]
          /\ spefscr'["ovh"] = spefscr["ovh"] /\ spefscr'["sovh"] = spefscr["sovh"]
      BY <1>2 DEF OnRecord
    <2> QED BY <2>1, Zenon DEF OnRecord, Sticks
  <1>3. ASSUME NEW h, NEW l, spefscr' = UPDATE_SPEFSCR_OV(h, l) PROVE Sticks /\ OnRecord'
    <2>1. /\ DOMAIN spefscr' = DOMAIN spefscr
          /\ spefscr'["ov"] = l /\ spefscr'["ovh"] = h
          /\ spefscr'["sov"] = (spefscr["sov"] \/ l)
          /\ spefscr'["sovh"] = (spefscr["sovh"] \/ h)
      BY <1>3, Zenon DEF OnRecord, UPDATE_SPEFSCR_OV
    <2> QED BY <2>1, Zenon DEF OnRecord, Sticks
  <1> QED BY <1>1, <1>2, <1>3 DEF Flagged, Updated

\* OnRecord is an invariant, and the action property holds of every step.
LEMMA RecordInvariance ==
    /\ Init => OnRecord
    /\ OnRecord /\ [Next]_vars => OnRecord' /\ [Sticks]_vars
  <1>1. ASSUME Init PROVE OnRecord
    <2>1. PICK up \in BOOLEAN :
            spefscr = [ovh |-> FALSE, ov |-> FALSE, sovh |-> up, sov |-> up, fp |-> up]
      BY <1>1 DEF Init
    <2>2. spefscr["ov"] = FALSE /\ spefscr["ovh"] = FALSE
      BY <2>1
    <2>3. DOMAIN spefscr = {"ovh", "ov", "sovh", "sov", "fp"}
      BY <2>1
    <2> QED BY <2>2, <2>3, Zenon DEF OnRecord
  <1>2. OnRecord /\ Next => OnRecord' /\ Sticks
    BY Steps, FlagsStick
  <1>3. OnRecord /\ UNCHANGED vars => OnRecord'
    <2> SUFFICES ASSUME OnRecord, spefscr' = spefscr PROVE OnRecord'
      BY DEF vars
    <2> QED BY Zenon DEF OnRecord
  <1> QED BY <1>1, <1>2, <1>3

\* OverflowIsSticky: no instruction takes a sticky overflow bit of SPEFSCR back, and none
\* leaves OV or OVH up without its sticky copy.
THEOREM OverflowsStick == Spec => OverflowIsSticky
  <1>1. Spec => [][Sticks]_vars
    BY RecordInvariance, PTL DEF Spec
  <1> QED BY <1>1 DEF OverflowIsSticky, Sticks

---------------------------------------------------------------------------
(* Halfwords and their products *)

\* A halfword of a register is one.
LEMMA Halves ==
    ASSUME NEW x \in Int, NEW n \in 0..3
    PROVE  Half(x, n) \in 0..(HalfSize - 1) /\ Half(x, n) \in Int
  <1>1. (3 - n) * HB \in 0..DB
    <2>1. n = 0 \/ n = 1 \/ n = 2 \/ n = 3
      OBVIOUS
    <2>2. DB = 4 * HB /\ HB \in Nat
      BY Widths
    <2> QED BY <2>1, <2>2
  <1> DEFINE d == 2^((3 - n) * HB)
  <1>2. d \in Nat /\ d > 0
    BY <1>1, Powers
  <1> HIDE DEF d
  <1>3. x \div d \in Int
    BY <1>2, Division
  <1>4. (x \div d) % HalfSize \in 0..(HalfSize - 1)
    BY <1>3, Sizes, Division
  <1> QED BY <1>4, Sizes DEF Half, d, HalfSize

\* The product of two unsigned halfwords is a word.
LEMMA HalvesProduct ==
    ASSUME NEW a \in 0..(HalfSize - 1), NEW b \in 0..(HalfSize - 1)
    PROVE  a * b \in Words
  <1> DEFINE h == HalfSize
             p == a * b
             q == (h - 1 - a) * b
             r == h * (h - 1 - b)
  <1>1. h \in Nat /\ h > 0 /\ WordSize = h * h /\ WordSize \in Nat
    BY Sizes
  <1>2. p \in Nat /\ q \in Nat /\ r \in Nat
    BY <1>1
  <1>3. h * h = p + q + r + b + h
    BY <1>1
  <1> HIDE DEF p, q, r
  <1>4. p <= WordSize - 1
    BY <1>1, <1>2, <1>3
  <1> QED BY <1>1, <1>2, <1>4, InSizes DEF p

\* A signed halfword; the most negative one is its own half of the range.
LEMMA SignedHalf ==
    ASSUME NEW a \in 0..(HalfSize - 1)
    PROVE  LET m == 2^(HB - 1)
           IN  /\ m \in Nat /\ m > 0 /\ HalfSize = 2 * m /\ MinW = 2 * (m * m)
               /\ Signed(a, HB) \in (-m)..(m - 1)
               /\ Signed(a, HB) = -m <=> a = m
  <1> DEFINE m == 2^(HB - 1)
  <1>1. HB \in 1..DB /\ HB - 1 \in 0..DB /\ HB - 1 \in Nat /\ (HB - 1) + (HB - 1) = WB - 2
        /\ (HB - 1) + (HB - 1) <= DB /\ WB - 1 \in 1..DB /\ (WB - 1) - 1 = WB - 2
    BY Widths
  <1>2. m \in Nat /\ m > 0 /\ HalfSize = 2 * m
    BY <1>1, Powers, Doubling DEF HalfSize
  <1>3. MinW = 2 * (m * m)
    <2>1. 2^((HB - 1) + (HB - 1)) = 2^(HB - 1) * 2^(HB - 1)
      BY <1>1, PowerOfSum
    <2>2. 2^(WB - 1) = 2 * 2^((WB - 1) - 1)
      BY <1>1, Doubling
    <2> QED BY <1>1, <2>1, <2>2 DEF MinW
  <1>4. Signed(a, HB) = IF a >= m THEN a - HalfSize ELSE a
    <2>1. a % HalfSize = a
      BY Sizes, Within
    <2> QED BY <2>1 DEF Signed, HalfSize
  <1> HIDE DEF m
  <1>5. Signed(a, HB) \in (-m)..(m - 1) /\ (Signed(a, HB) = -m <=> a = m)
    BY <1>2, <1>4
  <1> QED BY <1>2, <1>3, <1>5 DEF m

\* A product of signed numbers within a bound.
LEMMA SignedProduct ==
    ASSUME NEW m \in Nat, m > 0, NEW a \in (-m)..(m - 1), NEW b \in (-m)..(m - 1)
    PROVE  /\ a * b \in Int
           /\ a * b >= -(m * m)
           /\ a * b <= m * m
           /\ (a = -m /\ b = -m) => a * b = m * m
           /\ ~(a = -m /\ b = -m) => a * b < m * m
  <1> DEFINE p == a * b
             q == m * m
  <1>1. p \in Int /\ q \in Int
    OBVIOUS
  <1>2. (a = -m /\ b = -m) => p = q
    OBVIOUS
  <1>3. CASE a >= 0 /\ b >= 0
    <2>1. (m - 1 - a) * b \in Nat /\ m * (m - 1 - b) \in Nat /\ p >= 0
      BY <1>3
    <2>2. q = p + (m - 1 - a) * b + b + m * (m - 1 - b) + m
      OBVIOUS
    <2> DEFINE u == (m - 1 - a) * b
               v == m * (m - 1 - b)
    <2>3. u \in Nat /\ v \in Nat /\ q = p + u + b + v + m
      BY <2>1, <2>2
    <2> HIDE DEF p, q, u, v
    <2>4. p >= -q /\ p < q
      BY <1>1, <1>3, <2>1, <2>3
    <2> QED BY <1>1, <1>2, <1>3, <2>4 DEF p, q
  <1>4. CASE a < 0 /\ b < 0
    <2>1. p >= 0 /\ (m + a) * (-b) \in Nat /\ m * (m + b) \in Nat
      BY <1>4
    <2>2. q = p + (m + a) * (-b) + m * (m + b)
      OBVIOUS
    <2>3. ~(a = -m /\ b = -m) => (m + a) * (-b) > 0 \/ m * (m + b) > 0
      BY <1>4
    <2> DEFINE u == (m + a) * (-b)
               v == m * (m + b)
    <2>4. /\ u \in Nat /\ v \in Nat /\ q = p + u + v
          /\ ~(a = -m /\ b = -m) => u > 0 \/ v > 0
      BY <2>1, <2>2, <2>3
    <2> HIDE DEF p, q, u, v
    <2>5. p >= -q /\ p <= q /\ (~(a = -m /\ b = -m) => p < q)
      BY <1>1, <2>1, <2>4
    <2> QED BY <1>1, <1>2, <2>5 DEF p, q
  <1>5. CASE a >= 0 /\ b < 0
    <2>1. (m - a) * (-b) \in Nat /\ m * (m + b) \in Nat /\ a * (-b) \in Nat
      BY <1>5
    <2>2. q = (m - a) * (-b) + a * (-b) + m * (m + b) /\ a * (-b) = -p /\ q > 0
      OBVIOUS
    <2> DEFINE u == (m - a) * (-b)
               v == m * (m + b)
               w == a * (-b)
    <2>3. u \in Nat /\ v \in Nat /\ w \in Nat /\ q = u + w + v /\ w = -p /\ q > 0
      BY <2>1, <2>2
    <2> HIDE DEF p, q, u, v, w
    <2>4. p >= -q /\ p < q
      BY <1>1, <2>3
    <2> QED BY <1>1, <1>2, <1>5, <2>4 DEF p, q
  <1>6. CASE a < 0 /\ b >= 0
    <2>1. (m - b) * (-a) \in Nat /\ m * (m + a) \in Nat /\ b * (-a) \in Nat
      BY <1>6
    <2>2. q = (m - b) * (-a) + b * (-a) + m * (m + a) /\ b * (-a) = -p /\ q > 0
      OBVIOUS
    <2> DEFINE u == (m - b) * (-a)
               v == m * (m + a)
               w == b * (-a)
    <2>3. u \in Nat /\ v \in Nat /\ w \in Nat /\ q = u + w + v /\ w = -p /\ q > 0
      BY <2>1, <2>2
    <2> HIDE DEF p, q, u, v, w
    <2>4. p >= -q /\ p < q
      BY <1>1, <2>3
    <2> QED BY <1>1, <1>2, <1>6, <2>4 DEF p, q
  <1> QED BY <1>3, <1>4, <1>5, <1>6

\* The saturated fractional product, read as a signed word, is the doubled product of the
\* halfwords clamped to a word: only that of the two most negative ones is cut.
LEMMA FractionClamps ==
    ASSUME NEW a \in 0..(HalfSize - 1), NEW b \in 0..(HalfSize - 1)
    PROVE  LET p == IF Most(a, b) THEN MaxW ELSE SF(a, b)
           IN  /\ Signed(p, WB) = Clamp(2 * Signed(a, HB) * Signed(b, HB), -MinW, MaxW)
               /\ p \in Int
  <1> DEFINE m == 2^(HB - 1)
             s == Signed(a, HB)
             t == Signed(b, HB)
             x == s * t
             q == m * m
  <1>1. /\ m \in Nat /\ m > 0 /\ MinW = 2 * q
        /\ s \in (-m)..(m - 1) /\ (s = -m <=> a = m)
        /\ t \in (-m)..(m - 1) /\ (t = -m <=> b = m)
    BY SignedHalf
  <1>2. Most(a, b) <=> s = -m /\ t = -m
    BY <1>1 DEF Most
  <1> HIDE DEF m, s, t
  <1>3. x \in Int /\ x >= -q /\ x <= q /\ (s = -m /\ t = -m => x = q)
        /\ (~(s = -m /\ t = -m) => x < q) /\ q \in Nat
    <2>1. q \in Nat
      BY <1>1
    <2> QED BY <1>1, <2>1, SignedProduct
  <1>4. 2 * s * t = 2 * x
    BY <1>1
  <1> HIDE DEF x, q
  <1>5. MinW \in Nat /\ MinW > 1 /\ MaxW = MinW - 1 /\ 2 * x \in Int
    BY <1>3, Sizes
  <1>6. CASE Most(a, b)
    <2>1. Clamp(2 * x, -MinW, MaxW) = MaxW
      BY <1>1, <1>2, <1>3, <1>5, <1>6 DEF Clamp
    <2>2. Signed(MaxW, WB) = MaxW
      BY <1>5, SignedWord
    <2> QED BY <1>4, <1>5, <1>6, <2>1, <2>2 DEF s, t
  <1>7. CASE ~Most(a, b)
    <2>1. 2 * x \in (-MinW)..MaxW
      BY <1>1, <1>2, <1>3, <1>5, <1>7
    <2>2. Clamp(2 * x, -MinW, MaxW) = 2 * x
      BY <1>5, <2>1 DEF Clamp
    <2>3. SF(a, b) = ToW(2 * x)
      BY <1>4 DEF SF, s, t
    <2>4. ToW(2 * x) \in Words /\ ToW(2 * x) \in Int
      BY <1>5, Casts, CastWithin
    <2>5. ToW(ToW(2 * x)) = ToW(2 * x)
      BY <2>4, CastWithin
    <2>6. Signed(ToW(2 * x), WB) = 2 * x
      BY <2>1, <2>4, <2>5, SignedWord
    <2> QED BY <1>4, <1>7, <2>2, <2>3, <2>4, <2>6 DEF s, t
  <1> QED BY <1>6, <1>7
---------------------------------------------------------------------------
(* The saturating accumulates *)

SaturatingOps == SignedSaturating \cup UnsignedSaturating

\* Which actions execute an instruction the two properties on ACC are about.
Followed == SaturatingOps \cup
    {"evmra", "evaddsmiaaw", "evaddumiaaw", "evsubfsmiaaw", "evsubfumiaaw", "evmheg", "evmhesm",
     "evmheumi", "evmhog", "evmhosm", "evmhoumi", "evmwl", "evmws"}

\* Every instruction of Followed has its action.
LEMMA FollowedActions ==
    ASSUME Next, ic.op \in Followed
    PROVE  \/ evadd_aaw \/ evsubf \/ evmra \/ evmwl
           \/ evmheg /\ ic.op = "evmheg"
           \/ evmhesm /\ ic.op = "evmhesm"
           \/ evmheumi /\ ic.op = "evmheumi"
           \/ evmheusi /\ ic.op = "evmheusi"
           \/ evmhog /\ ic.op = "evmhog"
           \/ evmhosm /\ ic.op = "evmhosm"
           \/ evmhossf /\ ic.op = "evmhossf"
           \/ evmhoumi /\ ic.op = "evmhoumi"
           \/ evmhousi /\ ic.op = "evmhousi"
           \/ evmws /\ ic.op = "evmws"
  <1> USE DEF Fetch, Followed, SaturatingOps, SignedSaturating, UnsignedSaturating
  <1>1. ~IntegerNext
    <2>1. ~Add /\ ~Subtract
      BY DEF Add, Subtract, AddOps, SubtractOps
    <2>2. ~Divide /\ ~Multiply
      BY DEF Divide, Multiply
    <2>3. ~Logical /\ ~LogicalWide
      BY DEF Logical, LogicalWide, LogicalOps
    <2>4. ~Compare /\ ~CrLogic
      BY DEF Compare, CrLogic, CrOps
    <2>5. ~mcrf /\ ~mtcrf /\ ~mcrxr /\ ~mfcr /\ ~isel
      BY DEF mcrf, mtcrf, mcrxr, mfcr, isel
    <2>6. ~Rotate /\ ~ShiftLogical /\ ~ShiftAlgebraic
      BY DEF Rotate, ShiftLogical, ShiftAlgebraic
    <2> QED BY <2>1, <2>2, <2>3, <2>4, <2>5, <2>6 DEF IntegerNext
  <1>2. ~brinc /\ ~evabs_addiw /\ ~evaddw_and
    BY DEF brinc, evabs_addiw, evaddw_and
  <1>3. ~evcmp /\ ~evcntl /\ ~evdivw
    BY DEF evcmp, evcntl, evdivw
  <1>4. ~eveqv_ext /\ ~evmerge
    BY DEF eveqv_ext, evmerge
  <1>5. ~evmhessf /\ ~evmhessi /\ ~evmhossi
    BY DEF evmhessf, evmhessi, evmhossi
  <1>6. ~evmwh /\ ~evmwssf
    BY DEF evmwh, evmwssf
  <1>7. ~evlogic /\ ~evrotate_sel /\ ~evshift_left /\ ~evshift_right /\ ~evxor
    BY DEF evlogic, evrotate_sel, evshift_left, evshift_right, evxor
  <1>8. ~evfs_sign /\ ~evfs_arith /\ ~evfs_compare /\ ~efd_sign
    BY DEF evfs_sign, evfs_arith, evfs_compare, efd_sign
  <1>9. /\ evmheg => ic.op = "evmheg"
        /\ evmhesm => ic.op = "evmhesm"
        /\ evmheumi => ic.op = "evmheumi"
        /\ evmheusi => ic.op = "evmheusi"
        /\ evmhog => ic.op = "evmhog"
        /\ evmhosm => ic.op = "evmhosm"
    BY DEF evmheg, evmhesm, evmheumi, evmheusi, evmhog, evmhosm
  <1>10. /\ evmhossf => ic.op = "evmhossf"
         /\ evmhoumi => ic.op = "evmhoumi"
         /\ evmhousi => ic.op = "evmhousi"
         /\ evmws => ic.op = "evmws"
    BY DEF evmhossf, evmhoumi, evmhousi, evmws
  <1> QED
    BY <1>1, <1>2, <1>3, <1>4, <1>5, <1>6, <1>7, <1>8, <1>9, <1>10, Zenon DEF Next, SpeNext

\* evmra loads ACC from its operand.
LEMMA Loads ==
    ASSUME Next, ic.op = "evmra"
    PROVE  /\ Goes /\ k <= Len(prog)
           /\ gpr' = [gpr EXCEPT ![ic.d] = gpr[ic.a]] /\ acc' = gpr[ic.a]
  <1>1. evmra
    BY FollowedActions
    DEF Followed, evadd_aaw, evsubf, evmwl, Fetch
  <1> QED BY <1>1 DEF evmra, SpeDone, Complete, Goes, REG1, Fetch
\* Lane l of an accumulate got the clamped sum, and its overflow flag says so.
Clamps(l, s) ==
    /\ s.v \in Words /\ s.v = ToW(Clamped(ic, l))
    /\ Clamped(ic, l) # Exact(ic, l) => s.ov

\* The registers and ACC before an accumulate: ACC holds register 3.
Loaded ==
    /\ gpr \in [Regs -> Doubles] /\ 3 \in Regs /\ acc = gpr[3]
    /\ ic.a \in Regs /\ ic.b \in Regs /\ ic.d \in Regs

\* The words of the operands and of ACC.
LEMMA Operands ==
    ASSUME Loaded, NEW l \in Lanes
    PROVE  /\ W(acc, l) \in Words /\ W(acc, l) \in Int /\ W(acc, l) = W(gpr[3], l)
           /\ W(REG1, l) \in Words /\ W(REG1, l) \in Int /\ REG1 = gpr[ic.a]
           /\ W(REG2, l) \in Words /\ W(REG2, l) \in Int /\ REG2 = gpr[ic.b]
           /\ acc \in Int /\ REG1 \in Int /\ REG2 \in Int
           /\ 2 * l \in 0..3 /\ 2 * l + 1 \in 0..3
  <1>1. acc \in Doubles /\ REG1 \in Doubles /\ REG2 \in Doubles
    BY DEF Loaded, REG1, REG2
  <1>2. \A x \in Doubles : W(x, l) \in Words /\ x \in Int
    BY Unpacked, CastWithin DEF W
  <1>3. \A x \in Words : x \in Int
    BY CastWithin
  <1>4. 2 * l \in 0..3 /\ 2 * l + 1 \in 0..3
    BY DEF Lanes
  <1> QED BY <1>1, <1>2, <1>3, <1>4 DEF Loaded, REG1, REG2

\* A signed accumulate clamps.
LEMMA SignedClamps ==
    ASSUME Loaded, NEW l \in Lanes, NEW s, NEW p \in Int, ic.op \in SignedSaturating,
           Lowers(ic) <=> Subtracts(s), Signed(p, WB) = Term(ic, l)
    PROVE  Clamps(l, SignedSum(s, l, p, MinW))
  <1> DEFINE x == TrueSum(s, Signed(W(acc, l), WB), Signed(p, WB))
             r == SignedSum(s, l, p, MinW)
  <1>1. r.v = ToW(Clamp(x, -MinW, MaxW)) /\ (Clamp(x, -MinW, MaxW) # x => r.ov)
    BY Operands, SignedSumClamps
  <1>2. Exact(ic, l) = x
    BY Operands DEF Exact, TrueSum
  <1>3. x \in Int
    BY Operands, SignedWord DEF TrueSum
  <1> HIDE DEF x, r
  <1>4. Clamped(ic, l) = Clamp(x, -MinW, MaxW)
    BY <1>2 DEF Clamped
  <1>5. Clamp(x, -MinW, MaxW) \in Int
    BY <1>3, Sizes DEF Clamp
  <1>6. ToW(Clamp(x, -MinW, MaxW)) \in Words
    BY <1>5, Casts
  <1> QED BY <1>1, <1>2, <1>4, <1>6 DEF Clamps, r

\* So does an unsigned one.
LEMMA UnsignedClamps ==
    ASSUME Loaded, NEW l \in Lanes, NEW s, NEW p \in Words, ic.op \in UnsignedSaturating,
           Lowers(ic) <=> Subtracts(s), p = Term(ic, l)
    PROVE  Clamps(l, UnsignedSum(s, l, p))
  <1> DEFINE x == TrueSum(s, W(acc, l), p)
             r == UnsignedSum(s, l, p)
  <1>1. r.v = ToW(Clamp(x, 0, 2^WB - 1)) /\ (Clamp(x, 0, 2^WB - 1) # x => r.ov)
    BY Operands, UnsignedSumClamps
  <1>0. ic.op \notin SignedSaturating
    BY DEF SignedSaturating, UnsignedSaturating
  <1>2. Exact(ic, l) = x
    BY <1>0, Operands DEF Exact, TrueSum
  <1>3. x \in Int
    BY Operands, CastWithin DEF TrueSum
  <1> HIDE DEF x, r
  <1>4. Clamped(ic, l) = Clamp(x, 0, 2^WB - 1)
    BY <1>0, <1>2 DEF Clamped
  <1>5. Clamp(x, 0, 2^WB - 1) \in Int
    BY <1>3, Sizes DEF Clamp, WordSize
  <1>6. ToW(Clamp(x, 0, 2^WB - 1)) \in Words
    BY <1>5, Casts
  <1> QED BY <1>1, <1>2, <1>4, <1>6 DEF Clamps, r

\* Every saturating accumulate clamps both lanes.
LEMMA Saturates ==
    ASSUME Next, Loaded, ic.op \in SaturatingOps, ic.op = "evmhossf" => Accumulates(ic.s)
    PROVE  \E r : SpeSaturated(r) /\ \A l \in Lanes : Clamps(l, r[l])
  <1>1. CASE ic.op = "evaddssiaaw"
    <2> DEFINE r == [l \in Lanes |-> SignedSum("aaw", l, W(REG1, l), MinW)]
    <2>1. evadd_aaw
      BY <1>1, FollowedActions DEF Followed, SaturatingOps, SignedSaturating, evsubf, evmra, evmwl, Fetch
    <2>2. SpeSaturated(r)
      BY <1>1, <2>1 DEF evadd_aaw, Fetch
    <2>3. ASSUME NEW l \in Lanes PROVE Clamps(l, r[l])
      <3>1. W(REG1, l) \in Int /\ Signed(W(REG1, l), WB) = Term(ic, l)
        BY <1>1, Operands DEF Term
      <3>2. ic.op \in SignedSaturating /\ ~Lowers(ic) /\ ~Subtracts("aaw")
        BY <1>1 DEF SignedSaturating, Lowers, Subtracts
      <3>3. Clamps(l, SignedSum("aaw", l, W(REG1, l), MinW))
        BY <3>1, <3>2, SignedClamps
      <3> QED BY <3>3
    <2> QED BY <2>2, <2>3
  <1>2. CASE ic.op = "evsubfssiaaw"
    <2> DEFINE r == [l \in Lanes |-> SignedSum("anw", l, W(REG1, l), MinW)]
    <2>1. evsubf
      BY <1>2, FollowedActions DEF Followed, SaturatingOps, SignedSaturating, evadd_aaw, evmra, evmwl, Fetch
    <2>2. SpeSaturated(r)
      BY <1>2, <2>1 DEF evsubf
    <2>3. ASSUME NEW l \in Lanes PROVE Clamps(l, r[l])
      <3>1. W(REG1, l) \in Int /\ Signed(W(REG1, l), WB) = Term(ic, l)
        BY <1>2, Operands DEF Term
      <3>2. ic.op \in SignedSaturating /\ Lowers(ic) /\ Subtracts("anw")
        BY <1>2 DEF SignedSaturating, Lowers, Subtracts
      <3>3. Clamps(l, SignedSum("anw", l, W(REG1, l), MinW))
        BY <3>1, <3>2, SignedClamps
      <3> QED BY <3>3
    <2> QED BY <2>2, <2>3
  <1>3. CASE ic.op = "evsubfusiaaw"
    <2> DEFINE r == [l \in Lanes |-> UnsignedSum("anw", l, W(REG1, l))]
    <2>1. evsubf
      BY <1>3, FollowedActions DEF Followed, SaturatingOps, UnsignedSaturating, evadd_aaw, evmra, evmwl, Fetch
    <2>2. SpeSaturated(r)
      BY <1>3, <2>1 DEF evsubf
    <2>3. ASSUME NEW l \in Lanes PROVE Clamps(l, r[l])
      <3>1. W(REG1, l) \in Words /\ W(REG1, l) = Term(ic, l)
        BY <1>3, Operands DEF Term
      <3>2. ic.op \in UnsignedSaturating /\ Lowers(ic) /\ Subtracts("anw")
        BY <1>3 DEF UnsignedSaturating, Lowers, Subtracts
      <3>3. Clamps(l, UnsignedSum("anw", l, W(REG1, l)))
        BY <3>1, <3>2, UnsignedClamps
      <3> QED BY <3>3
    <2> QED BY <2>2, <2>3
  <1>4. CASE ic.op = "evmheusi"
    <2> DEFINE r == [l \in Lanes |-> UnsignedSum(ic.s, l, EvenA(l) * EvenB(l))]
    <2>1. SpeSaturated(r)
      BY <1>4, FollowedActions
      DEF Followed, SaturatingOps, UnsignedSaturating, evadd_aaw, evsubf, evmra, evmwl, Fetch, evmheusi
    <2>2. ASSUME NEW l \in Lanes PROVE Clamps(l, r[l])
      <3>1. EvenA(l) * EvenB(l) \in Words
        BY Operands, Halves, HalvesProduct DEF EvenA, EvenB
      <3>2. EvenA(l) * EvenB(l) = Term(ic, l)
        BY <1>4, Operands DEF Term, EvenA, EvenB
      <3>3. ic.op \in UnsignedSaturating /\ (Lowers(ic) <=> Subtracts(ic.s))
        BY <1>4 DEF UnsignedSaturating, Lowers
      <3>4. Clamps(l, UnsignedSum(ic.s, l, EvenA(l) * EvenB(l)))
        BY <3>1, <3>2, <3>3, UnsignedClamps
      <3> QED BY <3>4
    <2> QED BY <2>1, <2>2
  <1>5. CASE ic.op = "evmhousi"
    <2> DEFINE r == [l \in Lanes |-> UnsignedSum(ic.s, l, OddA(l) * OddB(l))]
    <2>1. SpeSaturated(r)
      BY <1>5, FollowedActions
      DEF Followed, SaturatingOps, UnsignedSaturating, evadd_aaw, evsubf, evmra, evmwl, Fetch, evmhousi
    <2>2. ASSUME NEW l \in Lanes PROVE Clamps(l, r[l])
      <3>1. OddA(l) * OddB(l) \in Words
        BY Operands, Halves, HalvesProduct DEF OddA, OddB
      <3>2. OddA(l) * OddB(l) = Term(ic, l)
        BY <1>5, Operands DEF Term, OddA, OddB
      <3>3. ic.op \in UnsignedSaturating /\ (Lowers(ic) <=> Subtracts(ic.s))
        BY <1>5 DEF UnsignedSaturating, Lowers
      <3>4. Clamps(l, UnsignedSum(ic.s, l, OddA(l) * OddB(l)))
        BY <3>1, <3>2, <3>3, UnsignedClamps
      <3> QED BY <3>4
    <2> QED BY <2>1, <2>2
  <1>6. CASE ic.op = "evmhossf"
    <2> DEFINE p(l) == IF Most(OddA(l), OddB(l)) THEN MaxW ELSE SF(OddA(l), OddB(l))
               sum(l) == SignedSum(ic.s, l, p(l), MinW)
               r == [l \in Lanes |-> [v |-> sum(l).v, ov |-> sum(l).ov \/ Most(OddA(l), OddB(l))]]
    <2>1. SpeSaturated(r)
      BY <1>6, FollowedActions
      DEF Followed, SaturatingOps, SignedSaturating, evadd_aaw, evsubf, evmra, evmwl, Fetch, evmhossf
    <2>2. ASSUME NEW l \in Lanes PROVE Clamps(l, r[l])
      <3>1. OddA(l) \in 0..(HalfSize - 1) /\ OddB(l) \in 0..(HalfSize - 1)
        BY Operands, Halves DEF OddA, OddB
      <3>2. /\ Signed(p(l), WB) = Clamp(2 * Signed(OddA(l), HB) * Signed(OddB(l), HB), -MinW, MaxW)
            /\ p(l) \in Int
        BY <3>1, FractionClamps
      <3>3. Term(ic, l) = Clamp(2 * Signed(OddA(l), HB) * Signed(OddB(l), HB), -MinW, MaxW)
        BY <1>6, Operands DEF Term, OddA, OddB
      <3>4. ic.op \in SignedSaturating /\ (Lowers(ic) <=> Subtracts(ic.s))
        BY <1>6 DEF SignedSaturating, Lowers
      <3> HIDE DEF p
      <3>5. Clamps(l, sum(l))
        BY <3>2, <3>3, <3>4, SignedClamps
      <3>6. r[l].v = sum(l).v /\ (sum(l).ov => r[l].ov)
        BY Zenon
      <3> HIDE DEF r, sum
      <3> QED BY <3>5, <3>6, Zenon DEF Clamps
    <2> QED BY <2>1, <2>2
  <1> QED BY <1>1, <1>2, <1>3, <1>4, <1>5, <1>6 DEF SaturatingOps, SignedSaturating, UnsignedSaturating
\* What holds at the start of a program and once its first instruction, an evmra, has run.
Begun ==
    /\ \A n \in 1..Len(prog) : {prog[n].d, prog[n].a, prog[n].b} \subseteq Regs
    /\ Len(prog) \in Nat /\ k \in Nat /\ k >= 1
    /\ k = 1 => gpr \in [Regs -> Doubles]
    /\ (k = 2 /\ prog[1].op = "evmra") =>
          /\ 1 <= Len(prog)
          /\ gpr \in [Regs -> Doubles]
          /\ acc = gpr[prog[1].a]

\* Begun is an invariant.
LEMMA BegunInvariance == (Init => Begun) /\ (Begun /\ [Next]_vars => Begun')
  <1>1. ASSUME Init PROVE Begun
    <2>1. PICK c \in Cases : prog = c.prog /\ gpr \in c.gprs
      BY <1>1 DEF Init
    <2>2. k = 1
      BY <1>1 DEF Init
    <2> QED BY <2>1, <2>2, CasesAssumption DEF Begun, IsInstruction
  <1>2. ASSUME Begun, Next PROVE Begun'
    <2>1. CASE Stops
      BY <1>2, <2>1 DEF Begun, Stops, speVars
    <2>2. CASE Goes
      <3>1. CASE k = 1 /\ prog[1].op = "evmra"
        <4>1. /\ 1 <= Len(prog) /\ {prog[1].d, prog[1].a, prog[1].b} \subseteq Regs
              /\ gpr' = [gpr EXCEPT ![prog[1].d] = gpr[prog[1].a]] /\ acc' = gpr[prog[1].a]
          BY <1>2, <3>1, Loads DEF ic, Begun
        <4>2. gpr \in [Regs -> Doubles] /\ prog[1].a \in Regs
          BY <1>2, <3>1, <4>1 DEF Begun
        <4>3. gpr' \in [Regs -> Doubles] /\ gpr'[prog[1].a] = gpr[prog[1].a]
          BY <4>1, <4>2
        <4> QED BY <1>2, <2>2, <3>1, <4>1, <4>3 DEF Begun, Goes
      <3>2. CASE ~(k = 1 /\ prog[1].op = "evmra")
        BY <1>2, <2>2, <3>2 DEF Begun, Goes
      <3> QED BY <3>1, <3>2
    <2> QED BY <1>2, <2>1, <2>2, Steps
  <1>3. Begun /\ UNCHANGED vars => Begun'
    BY DEF Begun, vars
  <1> QED BY <1>1, <1>2, <1>3

\* The accumulate of a program that loaded ACC from register 3.
LEMMA ClampingStep ==
    ASSUME Begun, OnRecord, Next, k = 2, Len(prog) = 2, prog[1].op = "evmra", prog[1].a = 3,
           prog[2].op \in SaturatingOps, prog[2].d \notin {prog[2].a, prog[2].b, 3},
           prog[2].op = "evmhossf" => Accumulates(prog[2].s), Goes
    PROVE  SaturationClamps'
  <1>1. Loaded /\ ic = prog[2]
    BY DEF Begun, Loaded, ic
  <1>2. PICK r : SpeSaturated(r) /\ \A l \in Lanes : Clamps(l, r[l])
    BY <1>1, Saturates
  <1> DEFINE u == r[0].v
             v == r[1].v
             i == prog[2]
  <1>3. /\ gpr' = [gpr EXCEPT ![i.d] = PACK_2W(u, v)] /\ acc' = PACK_2W(u, v)
        /\ spefscr' = UPDATE_SPEFSCR_OV(r[0].ov, r[1].ov)
    BY <1>1, <1>2 DEF SpeSaturated, SpeDone, Complete
  <1>4. /\ u = ToW(Clamped(i, 0)) /\ v = ToW(Clamped(i, 1))
        /\ Clamped(i, 0) # Exact(i, 0) => r[0].ov
        /\ Clamped(i, 1) # Exact(i, 1) => r[1].ov
    BY <1>1, <1>2, Zenon DEF Clamps, Lanes
  <1>5. spefscr'["ovh"] = r[0].ov /\ spefscr'["ov"] = r[1].ov
    BY <1>3, Zenon DEF OnRecord, UPDATE_SPEFSCR_OV
  <1>6. u \in Words /\ v \in Words
    BY <1>2, Zenon DEF Clamps, Lanes
  <1> HIDE DEF u, v
  <1>7. W(acc', 0) = u /\ W(acc', 1) = v
    BY <1>3, <1>6, Packed DEF W
  <1>8. gpr'[i.d] = acc' /\ gpr'[i.a] = gpr[i.a] /\ gpr'[i.b] = gpr[i.b] /\ gpr'[3] = gpr[3]
    BY <1>1, <1>3 DEF Loaded
  <1>9. \A l \in Lanes : Exact(i, l)' = Exact(i, l) /\ Clamped(i, l)' = Clamped(i, l)
    <2>1. prog' = prog
      BY DEF Goes
    <2>2. ASSUME NEW l \in Lanes PROVE Term(i, l)' = Term(i, l)
      BY <1>8, <2>1 DEF Term
    <2> QED BY <1>8, <2>1, <2>2 DEF Exact, Clamped
  <1>10. \A l \in Lanes : W(acc', l) = ToW(Clamped(i, l)')
    BY <1>4, <1>7, <1>9, Zenon DEF Lanes
  <1>11. /\ Clamped(i, 0)' # Exact(i, 0)' => spefscr'["ovh"]
         /\ Clamped(i, 1)' # Exact(i, 1)' => spefscr'["ov"]
    BY <1>4, <1>5, <1>9, Zenon DEF Lanes
  <1>12. prog' = prog
    BY DEF Goes
  <1> QED BY <1>8, <1>10, <1>11, <1>12, Zenon DEF SaturationClamps

\* SaturationClamps: a saturating accumulate is the sum of the integers, each lane clamped to
\* a word, and sets the overflow bit of a lane it clamps; for words of any width.
THEOREM SaturatingSumsClamp == Spec => []SaturationClamps
  <1> DEFINE Inv == Begun /\ OnRecord /\ SaturationClamps
  <1>1. Init => Inv
    <2> SUFFICES ASSUME Init PROVE SaturationClamps
      BY BegunInvariance, RecordInvariance
    <2> QED BY DEF Init, SaturationClamps
  <1>2. Inv /\ [Next]_vars => Inv'
    <2> SUFFICES ASSUME Inv, [Next]_vars PROVE SaturationClamps'
      BY BegunInvariance, RecordInvariance
    <2>1. CASE Goes /\ Next
      <3>1. CASE k = 2
        <4> DEFINE H == /\ Len(prog) = 2 /\ prog[1].op = "evmra" /\ prog[1].a = 3
                        /\ prog[2].op \in SaturatingOps
                        /\ prog[2].d \notin {prog[2].a, prog[2].b, 3}
                        /\ prog[2].op = "evmhossf" => Accumulates(prog[2].s)
        <4>1. CASE H
          BY <2>1, <3>1, <4>1, ClampingStep
        <4>2. CASE ~H
          BY <2>1, <4>2 DEF SaturationClamps, SaturatingOps, Goes
        <4> QED BY <4>1, <4>2
      <3>2. CASE k # 2
        <4>1. k' # 3
          BY <2>1, <3>2 DEF Goes, Begun
        <4> QED BY <4>1 DEF SaturationClamps
      <3> QED BY <3>1, <3>2
    <2>2. CASE Stops \/ UNCHANGED vars
      <3>1. UNCHANGED <<gpr, prog, k, acc, spefscr>>
        BY <2>2 DEF Stops, vars, speVars
      <3>2. \A i, l : Term(i, l)' = Term(i, l)
        BY <3>1 DEF Term
      <3>3. \A i, l : Exact(i, l)' = Exact(i, l) /\ Clamped(i, l)' = Clamped(i, l)
        BY <3>1, <3>2 DEF Exact, Clamped
      <3> QED BY <3>1, <3>3, Zenon DEF SaturationClamps
    <2> QED BY <2>1, <2>2, Steps
  <1>3. Inv => SaturationClamps
    OBVIOUS
  <1> QED BY <1>1, <1>2, <1>3, PTL DEF Spec
---------------------------------------------------------------------------
(* Bits and their sums *)

\* Bit n of x, the least significant being bit 0.
Bit0(x, n) == (x \div 2^n) % 2

\* The conjunction of the bits of two numbers is the sum of the powers of two both have.
LEMMA And ==
    ASSUME NEW x \in Int, NEW y \in Int
    PROVE  \E g \in [0..DB -> Int] :
              /\ (x & y) = g[DB] /\ g[0] = 0
              /\ \A n \in 1..DB : g[n] = g[n - 1] + Bit0(x, n - 1) * Bit0(y, n - 1) * 2^(n - 1)
  <1> DEFINE f == [n \in 0..(DB - 1) |-> Bit0(x, n) * Bit0(y, n) * 2^n]
             A(g) == g = [n \in 0..DB |->
                            IF n = 0 THEN 0
                            ELSE g[n - 1] + Bit0(x, n - 1) * Bit0(y, n - 1) * 2^(n - 1)]
             and == CHOOSE g : A(g)
  <1>1. ASSUME NEW n \in 0..(DB - 1)
        PROVE  Bit0(x, n) \in 0..1 /\ Bit0(y, n) \in 0..1 /\ 2^n \in Nat
    <2>1. 2^n \in Nat /\ 2^n > 0
      BY Widths, Powers
    <2>2. x \div 2^n \in Int /\ y \div 2^n \in Int
      BY <2>1, Division
    <2> QED BY <2>1, <2>2, Division DEF Bit0
  <1>2. \A n \in 0..(DB - 1) : f[n] \in Int
    BY <1>1
  <1>3. PICK g \in [0..DB -> Int] : g = [n \in 0..DB |-> IF n = 0 THEN 0 ELSE g[n - 1] + f[n - 1]]
    <2>1. DB \in Nat
      BY Widths
    <2> HIDE DEF f
    <2> QED BY <1>2, <2>1, Summation
  <1>4. A(g)
    <2>1. \A n \in 0..DB : n # 0 => n - 1 \in 0..(DB - 1)
      BY Widths
    <2>2. \A n \in 0..DB : n # 0 => f[n - 1] = Bit0(x, n - 1) * Bit0(y, n - 1) * 2^(n - 1)
      BY <2>1
    <2> HIDE DEF f
    <2> DEFINE r == [n \in 0..DB |-> IF n = 0 THEN 0 ELSE g[n - 1] + f[n - 1]]
               t == [n \in 0..DB |->
                            IF n = 0 THEN 0
                            ELSE g[n - 1] + Bit0(x, n - 1) * Bit0(y, n - 1) * 2^(n - 1)]
    <2>3. r = t
      BY <2>2
    <2> QED BY <1>3, <2>3
  <1>5. A(and)
    <2> HIDE DEF A
    <2> QED BY <1>4, Zenon
  <1>6. (x & y) = and[DB]
    BY Zenon DEF &, Bit0
  <1> DEFINE S == {m \in 0..DB : and[m] \notin Int}
  <1> HIDE DEF and
  <1>7. DB \in Nat /\ and[0] = 0
        /\ \A n \in 1..DB : and[n] = and[n - 1] + Bit0(x, n - 1) * Bit0(y, n - 1) * 2^(n - 1)
    <2>1. DB \in Nat /\ 0 \in 0..DB /\ \A n \in 1..DB : n \in 0..DB /\ n # 0
      BY Widths
    <2> DEFINE R(n) == IF n = 0 THEN 0
                       ELSE and[n - 1] + Bit0(x, n - 1) * Bit0(y, n - 1) * 2^(n - 1)
    <2>2. \A n \in 0..DB : and[n] = R(n)
      BY <1>5
    <2> QED BY <2>1, <2>2
  <1>8. S = {}
    <2> SUFFICES ASSUME S # {} PROVE FALSE
      OBVIOUS
    <2>0. S \subseteq Nat
      BY <1>7
    <2>1. PICK m \in S : \A i \in S : m <= i
      <3> HIDE DEF S
      <3> QED BY <2>0, LeastNatural
    <2>2. m # 0
      BY <1>7, <2>1
    <2>3. m - 1 \in 0..DB /\ m - 1 \notin S /\ m \in 1..DB /\ m - 1 \in 0..(DB - 1)
      BY <1>7, <2>1, <2>2
    <2>4. and[m - 1] \in Int /\ Bit0(x, m - 1) * Bit0(y, m - 1) * 2^(m - 1) \in Int
      <3>1. Bit0(x, m - 1) \in 0..1 /\ Bit0(y, m - 1) \in 0..1 /\ 2^(m - 1) \in Nat
        BY <1>1, <2>3
      <3> QED BY <2>3, <3>1
    <2> QED BY <1>7, <2>1, <2>3, <2>4
  <1>9. and \in [0..DB -> Int]
    <2>1. and = [n \in 0..DB |-> and[n]]
      BY <1>5
    <2> QED BY <1>8, <2>1
  <1> QED BY <1>6, <1>7, <1>9
---------------------------------------------------------------------------
(* The modulo accumulates *)

\* The families that work on the whole register, and those that work on its lanes.
WholeOps == {"evmheg", "evmhog", "evmws"}
Sums == {"evaddsmiaaw", "evaddumiaaw", "evsubfsmiaaw", "evsubfumiaaw"}

\* The instructions ModuloRoundTrip is about.
Modular(i) ==
    \/ i.op \in Sums
    \/ Accumulates(i.s) /\ i.op \in {"evmhesm", "evmheumi", "evmhosm", "evmhoumi"}
    \/ Accumulates(i.s) /\ i.op \in {"evmhog", "evmws"} /\ i.t \in {"smf", "smi", "umi"}
    \/ Accumulates(i.s) /\ i.op = "evmwl" /\ i.t \in {"smi", "umi"}
    \/ Accumulates(i.s) /\ i.op = "evmheg" /\ i.t \in {"smf", "umi"}

\* What i adds to lane l of ACC, or to the whole of it.
LaneTerm(i, l) ==
    LET even == Half(gpr[i.a], 2 * l) * Half(gpr[i.b], 2 * l)
        odd  == Half(gpr[i.a], 2 * l + 1) * Half(gpr[i.b], 2 * l + 1)
    IN  CASE i.op = "evmhesm" /\ i.t = "smf" -> SF(Half(gpr[i.a], 2 * l), Half(gpr[i.b], 2 * l))
          [] i.op = "evmhesm" /\ i.t # "smf" -> Signed2(Half(gpr[i.a], 2 * l), Half(gpr[i.b], 2 * l))
          [] i.op = "evmheumi" -> even
          [] i.op = "evmhosm" /\ i.t = "smf" ->
                SF(Half(gpr[i.a], 2 * l + 1), Half(gpr[i.b], 2 * l + 1))
          [] i.op = "evmhosm" /\ i.t # "smf" -> odd
          [] i.op = "evmhoumi" -> odd
          [] i.op = "evmwl" -> Lo(W(gpr[i.a], l) * W(gpr[i.b], l))
          [] OTHER -> W(gpr[i.a], l)

WholeTerm(i) ==
    CASE i.op = "evmheg" /\ i.t = "smf" -> GSF(Half(gpr[i.a], 2), Half(gpr[i.b], 2))
      [] i.op = "evmheg" /\ i.t = "umi" -> Half(gpr[i.a], 2) * Half(gpr[i.b], 2)
      [] i.op = "evmhog" /\ i.t = "smf" -> GSF(Half(gpr[i.a], 3), Half(gpr[i.b], 3))
      [] i.op = "evmhog" /\ i.t = "smi" -> ExtsW(Half(gpr[i.a], 3) * Half(gpr[i.b], 3))
      [] i.op = "evmhog" /\ i.t = "umi" -> Half(gpr[i.a], 3) * Half(gpr[i.b], 3)
      [] i.op = "evmws" /\ i.t = "smf" -> SF(Half(gpr[i.a], 3), Half(gpr[i.b], 3))
      [] i.op = "evmws" /\ i.t = "smi" -> x86_imulf(Lo(gpr[i.a]), Lo(gpr[i.b]))
      [] i.op = "evmws" /\ i.t = "umi" -> W(gpr[i.a], 1) * W(gpr[i.b], 1)

\* Whether it is subtracted.
Takes(i) == i.op \in {"evsubfsmiaaw", "evsubfumiaaw"} \/ (i.op \notin Sums /\ Subtracts(i.s))

\* ACC after it.
LaneSum(i, l) == IF Takes(i) THEN ToW(W(acc, l) - LaneTerm(i, l)) ELSE ToW(W(acc, l) + LaneTerm(i, l))
WholeSum(i)   == IF Takes(i) THEN ToD(acc - WholeTerm(i)) ELSE ToD(acc + WholeTerm(i))
ModuloSum(i)  == IF i.op \in WholeOps THEN WholeSum(i) ELSE PACK_2W(LaneSum(i, 0), LaneSum(i, 1))

\* The end of an instruction that writes v to its register and to ACC.
LEMMA Accumulated ==
    ASSUME NEW v, NEW f, SpeDone(v, TRUE, f)
    PROVE  acc' = v /\ gpr' = [gpr EXCEPT ![ic.d] = v]
  BY DEF SpeDone, Complete

\* An accumulate leaves ModuloSum in its register and in ACC.
LEMMA ModuloStep ==
    ASSUME Next, Modular(ic)
    PROVE  acc' = ModuloSum(ic) /\ gpr' = [gpr EXCEPT ![ic.d] = ModuloSum(ic)]
  <1> USE DEF Sums
  <1>1. CASE ic.op \in {"evmhesm", "evmheumi", "evmhosm", "evmhoumi"}
    <2>1. ic.s # "" /\ Accumulates(ic.s) /\ (Takes(ic) <=> Subtracts(ic.s)) /\ ic.op \notin WholeOps
      BY <1>1 DEF Modular, Takes, Accumulates, WholeOps
    <2>2. CASE ic.op = "evmhesm"
      <3>1. evmhesm
        BY <2>2, FollowedActions DEF Followed, evadd_aaw, evsubf, evmra, evmwl, Fetch
      <3>2. SpeDone(PACK_2W(LaneSum(ic, 0), LaneSum(ic, 1)), TRUE, spefscr)
        BY <2>1, <2>2, <3>1
        DEF evmhesm, Pack, LaneSum, LaneTerm, Modulo, EvenA, EvenB, REG1, REG2
      <3> QED BY <2>1, <3>2, Accumulated DEF ModuloSum
    <2>3. CASE ic.op = "evmheumi"
      <3>1. evmheumi
        BY <2>3, FollowedActions DEF Followed, evadd_aaw, evsubf, evmra, evmwl, Fetch
      <3>2. SpeDone(PACK_2W(LaneSum(ic, 0), LaneSum(ic, 1)), TRUE, spefscr)
        BY <2>1, <2>3, <3>1
        DEF evmheumi, Pack, LaneSum, LaneTerm, Modulo, EvenA, EvenB, REG1, REG2
      <3> QED BY <2>1, <3>2, Accumulated DEF ModuloSum
    <2>4. CASE ic.op = "evmhosm"
      <3>1. evmhosm
        BY <2>4, FollowedActions DEF Followed, evadd_aaw, evsubf, evmra, evmwl, Fetch
      <3>2. SpeDone(PACK_2W(LaneSum(ic, 0), LaneSum(ic, 1)), TRUE, spefscr)
        BY <2>1, <2>4, <3>1
        DEF evmhosm, Pack, LaneSum, LaneTerm, Modulo, OddA, OddB, REG1, REG2
      <3> QED BY <2>1, <3>2, Accumulated DEF ModuloSum
    <2>5. CASE ic.op = "evmhoumi"
      <3>1. evmhoumi
        BY <2>5, FollowedActions DEF Followed, evadd_aaw, evsubf, evmra, evmwl, Fetch
      <3>2. SpeDone(PACK_2W(LaneSum(ic, 0), LaneSum(ic, 1)), TRUE, spefscr)
        BY <2>1, <2>5, <3>1
        DEF evmhoumi, Pack, LaneSum, LaneTerm, Modulo, OddA, OddB, REG1, REG2
      <3> QED BY <2>1, <3>2, Accumulated DEF ModuloSum
    <2> QED BY <1>1, <2>2, <2>3, <2>4, <2>5
  <1>2. CASE ic.op = "evmwl"
    <2>1. ic.s # "" /\ Accumulates(ic.s) /\ (Takes(ic) <=> Subtracts(ic.s)) /\ ic.op \notin WholeOps
          /\ ic.t \notin {"ssi", "usi"}
      BY <1>2 DEF Modular, Takes, Accumulates, WholeOps
    <2>2. evmwl
      BY <1>2, FollowedActions DEF Followed, evadd_aaw, evsubf, evmra, Fetch
    <2>3. SpeDone(PACK_2W(LaneSum(ic, 0), LaneSum(ic, 1)), TRUE, spefscr)
      BY <1>2, <2>1, <2>2
      DEF evmwl, Pack, LaneSum, LaneTerm, Modulo, WordProduct, REG1, REG2
    <2> QED BY <2>1, <2>3, Accumulated DEF ModuloSum
  <1>3. CASE ic.op \in {"evaddsmiaaw", "evaddumiaaw"}
    <2>1. ~Takes(ic) /\ ic.op \notin WholeOps
      BY <1>3 DEF Takes, WholeOps
    <2>2. evadd_aaw
      BY <1>3, FollowedActions DEF Followed, evsubf, evmra, evmwl, Fetch
    <2>3. SpeDone(Pack(LAMBDA l : ToW(W(acc, l) + W(REG1, l))), TRUE, spefscr)
      BY <1>3, <2>2 DEF evadd_aaw, Fetch
    <2>4. SpeDone(PACK_2W(LaneSum(ic, 0), LaneSum(ic, 1)), TRUE, spefscr)
      BY <1>3, <2>1, <2>3 DEF Pack, LaneSum, LaneTerm, REG1
    <2> QED BY <2>1, <2>4, Accumulated DEF ModuloSum
  <1>4. CASE ic.op \in {"evsubfsmiaaw", "evsubfumiaaw"}
    <2>1. Takes(ic) /\ ic.op \notin WholeOps
      BY <1>4 DEF Takes, WholeOps
    <2>2. evsubf
      BY <1>4, FollowedActions DEF Followed, evadd_aaw, evmra, evmwl, Fetch
    <2>3. SpeDone(Pack(LAMBDA l : ToW(W(acc, l) - W(REG1, l))), TRUE, spefscr)
      BY <1>4, <2>2 DEF evsubf
    <2>4. SpeDone(PACK_2W(LaneSum(ic, 0), LaneSum(ic, 1)), TRUE, spefscr)
      BY <1>4, <2>1, <2>3 DEF Pack, LaneSum, LaneTerm, REG1
    <2> QED BY <2>1, <2>4, Accumulated DEF ModuloSum
  <1>5. CASE ic.op \in WholeOps
    <2>1. ic.s # "" /\ Accumulates(ic.s) /\ (Takes(ic) <=> Subtracts(ic.s))
      BY <1>5 DEF Modular, Takes, Accumulates, WholeOps
    <2>2. CASE ic.op = "evmheg"
      <3>1. evmheg /\ ic.t \in {"smf", "umi"}
        BY <2>2, FollowedActions DEF Followed, evadd_aaw, evsubf, evmra, evmwl, Fetch, Modular
      <3>2. EvenA(1) = Half(gpr[ic.a], 2) /\ EvenB(1) = Half(gpr[ic.b], 2)
        BY DEF EvenA, EvenB, REG1, REG2
      <3>3. ASSUME ic.t = "smf" PROVE SpeDone(WholeSum(ic), TRUE, spefscr)
        <4>1. SpeDone(ModuloDouble(ic.s, WholeTerm(ic)), TRUE, spefscr)
          BY <2>1, <2>2, <3>1, <3>2, <3>3 DEF evmheg, WholeTerm
        <4> QED BY <2>1, <4>1 DEF ModuloDouble, WholeSum
      <3>4. ASSUME ic.t = "umi" PROVE SpeDone(WholeSum(ic), TRUE, spefscr)
        <4>1. SpeDone(ModuloDouble(ic.s, WholeTerm(ic)), TRUE, spefscr)
          BY <2>1, <2>2, <3>1, <3>2, <3>4 DEF evmheg, WholeTerm
        <4> QED BY <2>1, <4>1 DEF ModuloDouble, WholeSum
      <3>5. SpeDone(WholeSum(ic), TRUE, spefscr)
        BY <3>1, <3>3, <3>4
      <3> QED BY <1>5, <3>5, Accumulated DEF ModuloSum
    <2>3. CASE ic.op = "evmhog"
      <3>1. evmhog /\ ic.t \in {"smf", "smi", "umi"}
        BY <2>3, FollowedActions DEF Followed, evadd_aaw, evsubf, evmra, evmwl, Fetch, Modular
      <3>2. OddA(1) = Half(gpr[ic.a], 3) /\ OddB(1) = Half(gpr[ic.b], 3)
        BY DEF OddA, OddB, REG1, REG2
      <3>3. ASSUME ic.t = "smf" PROVE SpeDone(WholeSum(ic), TRUE, spefscr)
        <4>1. SpeDone(ModuloDouble(ic.s, WholeTerm(ic)), TRUE, spefscr)
          BY <2>1, <2>3, <3>1, <3>2, <3>3 DEF evmhog, WholeTerm
        <4> QED BY <2>1, <4>1 DEF ModuloDouble, WholeSum
      <3>4. ASSUME ic.t = "smi" PROVE SpeDone(WholeSum(ic), TRUE, spefscr)
        <4>1. SpeDone(ModuloDouble(ic.s, WholeTerm(ic)), TRUE, spefscr)
          BY <2>1, <2>3, <3>1, <3>2, <3>4 DEF evmhog, WholeTerm
        <4> QED BY <2>1, <4>1 DEF ModuloDouble, WholeSum
      <3>5. ASSUME ic.t = "umi" PROVE SpeDone(WholeSum(ic), TRUE, spefscr)
        <4>1. SpeDone(ModuloDouble(ic.s, WholeTerm(ic)), TRUE, spefscr)
          BY <2>1, <2>3, <3>1, <3>2, <3>5 DEF evmhog, WholeTerm
        <4> QED BY <2>1, <4>1 DEF ModuloDouble, WholeSum
      <3>6. SpeDone(WholeSum(ic), TRUE, spefscr)
        BY <3>1, <3>3, <3>4, <3>5
      <3> QED BY <1>5, <3>6, Accumulated DEF ModuloSum
    <2>4. CASE ic.op = "evmws"
      <3>1. evmws /\ ic.t \in {"smf", "smi", "umi"}
        BY <2>4, FollowedActions DEF Followed, evadd_aaw, evsubf, evmra, evmwl, Fetch, Modular
      <3>2. OddA(1) = Half(gpr[ic.a], 3) /\ OddB(1) = Half(gpr[ic.b], 3) /\ WordProduct(1) = W(gpr[ic.a], 1) * W(gpr[ic.b], 1)
            /\ REG1 = gpr[ic.a] /\ REG2 = gpr[ic.b]
        BY DEF OddA, OddB, REG1, REG2, WordProduct
      <3>3. ASSUME ic.t = "smf" PROVE SpeDone(WholeSum(ic), TRUE, spefscr)
        <4>1. SpeDone(ModuloDouble(ic.s, WholeTerm(ic)), TRUE, spefscr)
          BY <2>1, <2>4, <3>1, <3>2, <3>3 DEF evmws, WholeTerm
        <4> QED BY <2>1, <4>1 DEF ModuloDouble, WholeSum
      <3>4. ASSUME ic.t = "smi" PROVE SpeDone(WholeSum(ic), TRUE, spefscr)
        <4>1. SpeDone(ModuloDouble(ic.s, WholeTerm(ic)), TRUE, spefscr)
          BY <2>1, <2>4, <3>1, <3>2, <3>4 DEF evmws, WholeTerm
        <4> QED BY <2>1, <4>1 DEF ModuloDouble, WholeSum
      <3>5. ASSUME ic.t = "umi" PROVE SpeDone(WholeSum(ic), TRUE, spefscr)
        <4>1. SpeDone(ModuloDouble(ic.s, WholeTerm(ic)), TRUE, spefscr)
          BY <2>1, <2>4, <3>1, <3>2, <3>5 DEF evmws, WholeTerm
        <4> QED BY <2>1, <4>1 DEF ModuloDouble, WholeSum
      <3>6. SpeDone(WholeSum(ic), TRUE, spefscr)
        BY <3>1, <3>3, <3>4, <3>5
      <3> QED BY <1>5, <3>6, Accumulated DEF ModuloSum
    <2> QED BY <1>5, <2>2, <2>3, <2>4 DEF WholeOps
  <1> QED BY <1>1, <1>2, <1>3, <1>4, <1>5 DEF Modular, WholeOps
\* What the accumulates add is an integer.
LEMMA Terms ==
    ASSUME gpr \in [Regs -> Doubles], NEW i, i.a \in Regs, i.b \in Regs, Modular(i), NEW l \in Lanes
    PROVE  LaneTerm(i, l) \in Int /\ (i.op \in WholeOps => WholeTerm(i) \in Int)
  <1> DEFINE a == gpr[i.a]
             b == gpr[i.b]
  <1>1. a \in Int /\ b \in Int
    BY CastWithin
  <1> HIDE DEF a, b
  <1>2. \A n \in 0..3 : Half(a, n) \in Int /\ Half(b, n) \in Int
    BY <1>1, Halves
  <1>3. \A x \in Int : ToW(x) \in Int /\ ToD(x) \in Int /\ Lo(x) \in Int /\ Hi(x) \in Int
    BY Casts, CastWithin
  <1>4. \A x \in Int : Signed(x, HB) \in Int /\ Signed(x, WB) \in Int
    <2>1. HB \in 1..DB /\ WB \in 1..DB
      BY Widths
    <2>2. 2^(HB - 1) \in Nat /\ 2^(WB - 1) \in Nat
      <3>1. HB - 1 \in 0..DB /\ WB - 1 \in 0..DB
        BY Widths
      <3> QED BY <3>1, Powers
    <2> SUFFICES ASSUME NEW x \in Int PROVE Signed(x, HB) \in Int /\ Signed(x, WB) \in Int
      OBVIOUS
    <2>3. /\ Signed(x, HB) \in (-2^(HB - 1))..(2^(HB - 1) - 1)
          /\ Signed(x, WB) \in (-2^(WB - 1))..(2^(WB - 1) - 1)
      BY <2>1, SignedField
    <2> QED BY <2>2, <2>3
  <1>5. \A x, y \in Int : SF(x, y) \in Int /\ GSF(x, y) \in Int /\ Signed2(x, y) \in Int
    <2> SUFFICES ASSUME NEW x \in Int, NEW y \in Int
                 PROVE  SF(x, y) \in Int /\ GSF(x, y) \in Int /\ Signed2(x, y) \in Int
      OBVIOUS
    <2> DEFINE s == Signed(x, HB)
               t == Signed(y, HB)
    <2>1. 2 * s * t \in Int /\ s * t \in Int
      BY <1>4
    <2> QED BY <1>3, <2>1 DEF SF, GSF, Signed2
  <1>6. \A x \in Int : ExtsW(x) \in Int
    BY <1>3, <1>4 DEF ExtsW
  <1>7. \A x, y \in Int : x * y \in Int
    BY Times
  <1>8. \A x, y \in Int : (x | y) \in Int
    <2> SUFFICES ASSUME NEW x \in Int, NEW y \in Int PROVE (x | y) \in Int
      OBVIOUS
    <2>1. (x & y) \in Int
      <3>1. PICK g \in [0..DB -> Int] : (x & y) = g[DB]
        BY And
      <3>2. DB \in 0..DB
        BY Widths
      <3> QED BY <3>1, <3>2
    <2>2. (x | y) = x + y - (x & y)
      BY DEF |
    <2> QED BY <2>1, <2>2
  <1>9. \A x, y \in Int : x86_imulf(x, y) \in Int
    <2> SUFFICES ASSUME NEW x \in Int, NEW y \in Int PROVE x86_imulf(x, y) \in Int
      OBVIOUS
    <2> DEFINE m == x86_imul(x, y)
    <2>1. m \in Int
      BY <1>3, <1>4, <1>7 DEF x86_imul
    <2>2. Hi(m) * 2^WB \in Int /\ ExtsW(Lo(m)) \in Int
      <3>1. 2^WB \in Int
        BY Sizes DEF WordSize
      <3> HIDE DEF m
      <3> QED BY <1>3, <1>6, <1>7, <2>1, <3>1
    <2> QED BY <1>8, <2>2 DEF x86_imulf
  <1>10. LaneTerm(i, l) \in Int
    <2>1. 2 * l \in 0..3 /\ 2 * l + 1 \in 0..3
      BY DEF Lanes
    <2>2. W(a, l) \in Int /\ W(b, l) \in Int
      BY <1>1, <1>3 DEF W
    <2> DEFINE e == Half(a, 2 * l)
               f == Half(b, 2 * l)
               o == Half(a, 2 * l + 1)
               q == Half(b, 2 * l + 1)
    <2>3. e \in Int /\ f \in Int /\ o \in Int /\ q \in Int
      BY <1>2, <2>1
    <2>4. /\ LaneTerm(i, l) \in {SF(e, f), Signed2(e, f), e * f, SF(o, q), o * q,
                                 Lo(W(a, l) * W(b, l)), W(a, l)}
      BY DEF LaneTerm, a, b
    <2> HIDE DEF e, f, o, q
    <2>5. SF(e, f) \in Int /\ Signed2(e, f) \in Int /\ SF(o, q) \in Int
      BY <1>5, <2>3
    <2>6. e * f \in Int /\ o * q \in Int /\ W(a, l) * W(b, l) \in Int
      BY <1>7, <2>2, <2>3
    <2>7. Lo(W(a, l) * W(b, l)) \in Int
      BY <1>3, <2>6
    <2> QED BY <2>2, <2>4, <2>5, <2>6, <2>7, Zenon
  <1>11. ASSUME i.op \in WholeOps PROVE WholeTerm(i) \in Int
    <2>1. W(a, 1) \in Int /\ W(b, 1) \in Int /\ Lo(a) \in Int /\ Lo(b) \in Int
      BY <1>1, <1>3 DEF W
    <2> DEFINE e == Half(a, 2)
               f == Half(b, 2)
               o == Half(a, 3)
               q == Half(b, 3)
    <2>2. e \in Int /\ f \in Int /\ o \in Int /\ q \in Int
      BY <1>2
    <2>3. WholeTerm(i) \in {GSF(e, f), e * f, GSF(o, q), ExtsW(o * q), o * q, SF(o, q),
                            x86_imulf(Lo(a), Lo(b)), W(a, 1) * W(b, 1)}
      BY <1>11 DEF WholeTerm, WholeOps, Modular, Sums, a, b
    <2> HIDE DEF e, f, o, q
    <2>4. GSF(e, f) \in Int /\ GSF(o, q) \in Int /\ SF(o, q) \in Int
      BY <1>5, <2>2
    <2>5. e * f \in Int /\ o * q \in Int /\ W(a, 1) * W(b, 1) \in Int
      BY <1>7, <2>1, <2>2
    <2>6. ExtsW(o * q) \in Int /\ x86_imulf(Lo(a), Lo(b)) \in Int
      BY <1>6, <1>9, <2>1, <2>5
    <2> QED BY <2>3, <2>4, <2>5, <2>6, Zenon
  <1> QED BY <1>10, <1>11

\* An accumulate and its undoing.
LEMMA Undoing ==
    ASSUME gpr \in [Regs -> Doubles], NEW x \in Doubles, NEW i, i.a \in Regs, i.b \in Regs,
           Modular(i), ~Takes(i), NEW j, Takes(j), i.op \in WholeOps <=> j.op \in WholeOps,
           i.op \in WholeOps => WholeTerm(j) = WholeTerm(i), \A l \in Lanes : LaneTerm(j, l) = LaneTerm(i, l),
           acc = IF i.op \in WholeOps THEN ToD(x + WholeTerm(i))
                 ELSE PACK_2W(ToW(Hi(x) + LaneTerm(i, 0)), ToW(Lo(x) + LaneTerm(i, 1)))
    PROVE  acc \in Doubles /\ ModuloSum(j) = x
  <1>1. x \in Int /\ ToD(x) = x
    BY CastWithin
  <1>2. CASE i.op \in WholeOps
    <2> DEFINE p == WholeTerm(i)
    <2>1. p \in Int
      BY <1>2, Terms DEF Lanes
    <2>2. acc = ToD(x + p) /\ ModuloSum(j) = ToD(acc - p)
      BY <1>2 DEF ModuloSum, WholeSum
    <2> HIDE DEF p
    <2>3. acc \in Doubles /\ ToD(ToD(x + p) - p) = ToD((x + p) - p) /\ (x + p) - p = x
      <3>1. x + p \in Int /\ (x + p) - p = x
        BY <1>1, <2>1
      <3> QED BY <2>1, <2>2, <3>1, Casts, CastOfSum
    <2> QED BY <1>1, <2>2, <2>3
  <1>3. CASE i.op \notin WholeOps
    <2> DEFINE p == LaneTerm(i, 0)
               q == LaneTerm(i, 1)
               u == Hi(x)
               v == Lo(x)
    <2>1. p \in Int /\ q \in Int /\ LaneTerm(j, 0) = p /\ LaneTerm(j, 1) = q
      BY Terms DEF Lanes
    <2>2. u \in Words /\ v \in Words /\ PACK_2W(u, v) = x /\ u \in Int /\ v \in Int
          /\ ToW(u) = u /\ ToW(v) = v
      BY Unpacked, CastWithin
    <2>3. acc = PACK_2W(ToW(u + p), ToW(v + q))
      BY <1>3
    <2>4. ModuloSum(j) = PACK_2W(ToW(W(acc, 0) - p), ToW(W(acc, 1) - q))
      BY <1>3, <2>1 DEF ModuloSum, LaneSum
    <2> HIDE DEF p, q, u, v
    <2>5. u + p \in Int /\ v + q \in Int /\ (u + p) - p = u /\ (v + q) - q = v
      BY <2>1, <2>2
    <2>6. ToW(u + p) \in Words /\ ToW(v + q) \in Words
      BY <2>5, Casts
    <2>7. W(acc, 0) = ToW(u + p) /\ W(acc, 1) = ToW(v + q) /\ acc \in Doubles
      BY <2>3, <2>6, Packed DEF W
    <2>8. ToW(ToW(u + p) - p) = ToW((u + p) - p) /\ ToW(ToW(v + q) - q) = ToW((v + q) - q)
      BY <2>1, <2>5, CastOfSum
    <2> QED BY <2>2, <2>4, <2>5, <2>7, <2>8
  <1> QED BY <1>2, <1>3
\* A program ModuloRoundTrip is about.
RoundTrip ==
    /\ Len(prog) = 3 /\ prog[1].op = "evmra" /\ prog[1].a = 3
    /\ Undone(prog[2], prog[3])

\* Between the accumulate and its undoing, ACC holds register 3 and what was added.
Halfway ==
    (k = 3 /\ RoundTrip) =>
        LET i == prog[2]
        IN  /\ gpr \in [Regs -> Doubles]
            /\ acc = IF i.op \in WholeOps THEN ToD(gpr[3] + WholeTerm(i))
                     ELSE PACK_2W(ToW(Hi(gpr[3]) + LaneTerm(i, 0)), ToW(Lo(gpr[3]) + LaneTerm(i, 1)))

\* The two instructions of a round trip have the same term.
LEMMA SameTerm ==
    ASSUME NEW i, NEW j, Undone(i, j)
    PROVE  /\ Modular(i) /\ ~Takes(i) /\ Modular(j) /\ Takes(j)
           /\ i.op \in WholeOps <=> j.op \in WholeOps
           /\ i.op \in WholeOps => WholeTerm(j) = WholeTerm(i)
           /\ \A l \in Lanes : LaneTerm(j, l) = LaneTerm(i, l)
  <1>1. CASE i.op \in Sums
    <2>1. i.op \in {"evaddsmiaaw", "evaddumiaaw"} /\ j.op \in {"evsubfsmiaaw", "evsubfumiaaw"}
          /\ i.a = j.a
      BY <1>1 DEF Undone, Sums
    <2>2. i.op \notin WholeOps /\ j.op \notin WholeOps
      BY <2>1 DEF WholeOps
    <2>3. \A l \in Lanes : LaneTerm(j, l) = LaneTerm(i, l)
      BY <2>1 DEF LaneTerm
    <2> QED BY <2>1, <2>2, <2>3 DEF Modular, Takes, Sums
  <1>2. CASE i.op \notin Sums
    <2>1. /\ i.op = j.op /\ i.t = j.t /\ i.a = j.a /\ i.b = j.b
          /\ i.s \in {"aaw", "aa"} /\ j.s \in {"anw", "an"}
      BY <1>2 DEF Undone, Sums
    <2>2. Accumulates(i.s) /\ ~Subtracts(i.s) /\ Accumulates(j.s) /\ Subtracts(j.s)
      BY <2>1 DEF Accumulates, Subtracts
    <2>3. Modular(i) /\ Modular(j) /\ ~Takes(i) /\ Takes(j)
      BY <1>2, <2>1, <2>2 DEF Undone, Modular, Takes, Sums
    <2>4. WholeTerm(j) = WholeTerm(i) /\ \A l \in Lanes : LaneTerm(j, l) = LaneTerm(i, l)
      BY <2>1 DEF WholeTerm, LaneTerm
    <2> QED BY <2>1, <2>3, <2>4
  <1> QED BY <1>1, <1>2

\* The accumulate of a round trip.
LEMMA ThereStep ==
    ASSUME Begun, Next, Goes, k = 2, RoundTrip
    PROVE  Halfway'
  <1> DEFINE i == prog[2]
             j == prog[3]
             x == gpr[3]
  <1>1. /\ gpr \in [Regs -> Doubles] /\ 3 \in Regs /\ acc = x /\ ic = i
        /\ i.a \in Regs /\ i.b \in Regs /\ i.d \in Regs
    BY DEF Begun, RoundTrip, ic
  <1>2. Modular(i) /\ ~Takes(i) /\ i.d \notin {i.a, i.b, 3}
    BY SameTerm DEF RoundTrip, Undone
  <1>3. acc' = ModuloSum(i) /\ gpr' = [gpr EXCEPT ![i.d] = ModuloSum(i)]
    BY <1>1, <1>2, ModuloStep
  <1>4. ModuloSum(i) = IF i.op \in WholeOps THEN ToD(x + WholeTerm(i))
                       ELSE PACK_2W(ToW(Hi(x) + LaneTerm(i, 0)), ToW(Lo(x) + LaneTerm(i, 1)))
    BY <1>1, <1>2 DEF ModuloSum, WholeSum, LaneSum, W
  <1>5. ModuloSum(i) \in Doubles
    <2>1. x \in Int /\ Hi(x) \in Int /\ Lo(x) \in Int
      <3>1. x \in Int
        BY <1>1, CastWithin
      <3> HIDE DEF x
      <3>2. Hi(x) \in Int /\ Lo(x) \in Words
        BY <3>1, Casts
      <3> QED BY <3>1, <3>2, CastWithin
    <2>2. \A l \in Lanes : LaneTerm(i, l) \in Int /\ (i.op \in WholeOps => WholeTerm(i) \in Int)
      BY <1>1, <1>2, Terms
    <2>3. CASE i.op \in WholeOps
      <3>1. WholeTerm(i) \in Int
        BY <2>2, <2>3 DEF Lanes
      <3> HIDE DEF x
      <3>2. x + WholeTerm(i) \in Int
        BY <2>1, <3>1
      <3> QED BY <1>4, <2>3, <3>2, Casts
    <2>4. CASE i.op \notin WholeOps
      <3>1. LaneTerm(i, 0) \in Int /\ LaneTerm(i, 1) \in Int
        BY <2>2 DEF Lanes
      <3> HIDE DEF x
      <3>2. Hi(x) + LaneTerm(i, 0) \in Int /\ Lo(x) + LaneTerm(i, 1) \in Int
        BY <2>1, <3>1
      <3>3. ToW(Hi(x) + LaneTerm(i, 0)) \in Words /\ ToW(Lo(x) + LaneTerm(i, 1)) \in Words
        BY <3>2, Casts
      <3> QED BY <1>4, <2>4, <3>3, Packed
    <2> QED BY <2>3, <2>4
  <1>6. /\ gpr' \in [Regs -> Doubles] /\ gpr'[3] = gpr[3]
        /\ gpr'[i.a] = gpr[i.a] /\ gpr'[i.b] = gpr[i.b]
    BY <1>1, <1>2, <1>3, <1>5
  <1>7. WholeTerm(i)' = WholeTerm(i) /\ \A l \in Lanes : LaneTerm(i, l)' = LaneTerm(i, l)
    <2>1. prog' = prog
      BY DEF Goes
    <2>2. WholeTerm(i)' = WholeTerm(i)
      BY <1>6, <2>1 DEF WholeTerm
    <2>3. ASSUME NEW l \in Lanes PROVE LaneTerm(i, l)' = LaneTerm(i, l)
      BY <1>6, <2>1 DEF LaneTerm
    <2> QED BY <2>2, <2>3
  <1>8. prog' = prog
    BY DEF Goes
  <1>9. LaneTerm(i, 0)' = LaneTerm(i, 0) /\ LaneTerm(i, 1)' = LaneTerm(i, 1)
    BY <1>7 DEF Lanes
  <1>10. acc' = IF i.op \in WholeOps THEN ToD(gpr'[3] + WholeTerm(i)')
                ELSE PACK_2W(ToW(Hi(gpr'[3]) + LaneTerm(i, 0)'), ToW(Lo(gpr'[3]) + LaneTerm(i, 1)'))
    BY <1>3, <1>4, <1>6, <1>7, <1>9
  <1> QED BY <1>6, <1>8, <1>10 DEF Halfway

\* And its undoing.
LEMMA BackStep ==
    ASSUME Begun, Halfway, Next, Goes, k = 3, RoundTrip
    PROVE  ModuloRoundTrip'
  <1> DEFINE i == prog[2]
             j == prog[3]
             x == gpr[3]
  <1>1. /\ 3 \in Regs /\ ic = j /\ i.a \in Regs /\ i.b \in Regs
        /\ j.a \in Regs /\ j.b \in Regs /\ j.d \in Regs
    BY DEF Begun, RoundTrip, ic
  <1>2. /\ gpr \in [Regs -> Doubles]
        /\ acc = IF i.op \in WholeOps THEN ToD(x + WholeTerm(i))
                 ELSE PACK_2W(ToW(Hi(x) + LaneTerm(i, 0)), ToW(Lo(x) + LaneTerm(i, 1)))
    BY DEF Halfway
  <1>3. /\ Modular(i) /\ ~Takes(i) /\ Modular(j) /\ Takes(j) /\ j.d # 3
        /\ i.op \in WholeOps <=> j.op \in WholeOps
        /\ i.op \in WholeOps => WholeTerm(j) = WholeTerm(i)
        /\ \A l \in Lanes : LaneTerm(j, l) = LaneTerm(i, l)
    BY SameTerm DEF RoundTrip, Undone
  <1>4. acc' = ModuloSum(j) /\ gpr' = [gpr EXCEPT ![j.d] = ModuloSum(j)]
    BY <1>1, <1>3, ModuloStep
  <1>5. x \in Doubles
    BY <1>1, <1>2
  <1> HIDE DEF x, i, j
  <1>6. ModuloSum(j) = x
    BY <1>1, <1>2, <1>3, <1>5, Undoing
  <1>7. gpr'[3] = x
    BY <1>1, <1>2, <1>3, <1>4 DEF x
  <1> QED BY <1>4, <1>6, <1>7 DEF ModuloRoundTrip

\* ModuloRoundTrip: subtracting what was accumulated brings ACC back, for every family of the
\* modulo instructions but the one whose subtracting form adds; for words of any width.
THEOREM ModuloSumsUndo == Spec => []ModuloRoundTrip
  <1> DEFINE Inv == Begun /\ Halfway /\ ModuloRoundTrip
  <1>1. Init => Inv
    <2> SUFFICES ASSUME Init PROVE Halfway /\ ModuloRoundTrip
      BY BegunInvariance
    <2> QED BY DEF Init, Halfway, ModuloRoundTrip
  <1>2. Inv /\ [Next]_vars => Inv'
    <2> SUFFICES ASSUME Inv, [Next]_vars PROVE Halfway' /\ ModuloRoundTrip'
      BY BegunInvariance
    <2>1. CASE Goes /\ Next
      <3>1. k' = k + 1 /\ prog' = prog /\ k \in Nat
        BY <2>1 DEF Goes, Begun
      <3>2. RoundTrip' <=> RoundTrip
        BY <3>1 DEF RoundTrip, Undone
      <3>3. Halfway'
        <4>1. CASE k = 2 /\ RoundTrip
          BY <2>1, <4>1, ThereStep
        <4>2. CASE ~(k = 2 /\ RoundTrip)
          BY <3>1, <3>2, <4>2 DEF Halfway
        <4> QED BY <4>1, <4>2
      <3>4. ModuloRoundTrip'
        <4>1. CASE k = 3 /\ RoundTrip
          BY <2>1, <4>1, BackStep
        <4>2. CASE ~(k = 3 /\ RoundTrip)
          <5>1. ~(k' = 4 /\ RoundTrip')
            BY <3>1, <3>2, <4>2
          <5> QED BY <5>1 DEF ModuloRoundTrip, RoundTrip
        <4> QED BY <4>1, <4>2
      <3> QED BY <3>3, <3>4
    <2>2. CASE Stops \/ UNCHANGED vars
      <3>1. UNCHANGED <<gpr, prog, k, acc>>
        BY <2>2 DEF Stops, vars, speVars
      <3>2. Halfway'
        BY <3>1 DEF Halfway, RoundTrip, Undone, WholeTerm, LaneTerm
      <3>3. ModuloRoundTrip'
        BY <3>1 DEF ModuloRoundTrip, Undone
      <3> QED BY <3>2, <3>3
    <2> QED BY <2>1, <2>2, Steps
  <1>3. Inv => ModuloRoundTrip
    OBVIOUS
  <1> QED BY <1>1, <1>2, <1>3, PTL DEF Spec
---------------------------------------------------------------------------
(* Fields of bits *)

\* A power of two is a multiple of every smaller one.
LEMMA PowerMultiple ==
    ASSUME NEW u \in 0..DB, NEW j \in 0..u
    PROVE  /\ 2^u = 2^(u - j) * 2^j /\ 2^u \in Nat /\ 2^u > 0 /\ 2^j \in Nat /\ 2^j > 0
           /\ 2^(u - j) \in Nat /\ 2^(u - j) > 0
           /\ 2^u \div 2^j = 2^(u - j) /\ 2^u % 2^j = 0
           /\ j < u => 2^(u - j) % 2 = 0
  <1>1. u - j \in Nat /\ j \in Nat /\ (u - j) + j = u /\ u - j \in 0..DB /\ j \in 0..DB
    BY Widths
  <1>2. 2^((u - j) + j) = 2^(u - j) * 2^j
    BY <1>1, PowerOfSum
  <1>3. 2^u \in Nat /\ 2^u > 0 /\ 2^j \in Nat /\ 2^j > 0 /\ 2^(u - j) \in Nat /\ 2^(u - j) > 0
    BY <1>1, Powers
  <1> DEFINE p == 2^(u - j)
             d == 2^j
  <1>4. 2^u = p * d
    BY <1>1, <1>2
  <1>5. (p * d + 0) \div d = p /\ (p * d + 0) % d = 0
    <2> HIDE DEF p, d
    <2>1. p \in Int /\ d \in Nat /\ d > 0 /\ 0 \in 0..(d - 1)
      BY <1>3 DEF p, d
    <2> QED BY <2>1, DivideOnce
  <1>6. p * d + 0 = p * d
    <2>1. p \in Nat /\ d \in Nat
      BY <1>3
    <2> HIDE DEF p, d
    <2> QED BY <2>1
  <1>7. ASSUME j < u PROVE 2^(u - j) % 2 = 0
    <2>1. u - j \in 1..DB
      BY <1>1, <1>7
    <2>2. 2^(u - j) = 2 * 2^(u - j - 1)
      BY <2>1, Doubling
    <2>3. u - j - 1 \in 0..DB
      BY <1>1, <2>1, Widths
    <2>4. 2^(u - j - 1) \in Nat
      BY <2>3, Powers
    <2> QED BY <2>2, <2>4
  <1> QED BY <1>3, <1>4, <1>5, <1>6, <1>7

\* Powers of two grow.
LEMMA PowerOrder ==
    ASSUME NEW u \in 0..DB, NEW v \in 0..u
    PROVE  2^v <= 2^u
  <1>1. 2^u = 2^(u - v) * 2^v /\ 2^v \in Nat /\ 2^(u - v) \in Nat /\ 2^(u - v) > 0
    BY PowerMultiple
  <1> DEFINE p == 2^(u - v)
             d == 2^v
  <1>2. p \in Nat /\ p > 0 /\ d \in Nat /\ 2^u = p * d
    BY <1>1
  <1> HIDE DEF p, d
  <1>3. (p - 1) * d \in Nat /\ (p - 1) * d = p * d - d
    BY <1>2
  <1> QED BY <1>2, <1>3 DEF d

\* The bits from v to u - 1 are those of 2^u - 2^v.
LEMMA FieldBits ==
    ASSUME NEW u \in 0..DB, NEW v \in 0..u, NEW j \in 0..(DB - 1)
    PROVE  Bit0(2^u - 2^v, j) = IF v <= j /\ j < u THEN 1 ELSE 0
  <1>0. DB \in Nat /\ j \in 0..DB /\ v \in 0..DB /\ 2^u \in Nat /\ 2^v \in Nat /\ 2^j \in Nat
        /\ 2^j > 0 /\ 2^v > 0
    BY Widths, Powers
  <1>1. CASE j < v
    <2>1. /\ 2^u = 2^(u - j) * 2^j /\ 2^v = 2^(v - j) * 2^j
          /\ 2^(u - j) \in Nat /\ 2^(v - j) \in Nat
          /\ 2^(u - j) % 2 = 0 /\ 2^(v - j) % 2 = 0
      BY <1>0, <1>1, PowerMultiple
    <2> DEFINE p == 2^(u - j)
               q == 2^(v - j)
               d == 2^j
    <2>2. p \in Nat /\ q \in Nat /\ p % 2 = 0 /\ q % 2 = 0 /\ d \in Nat /\ d > 0 /\ 2^u - 2^v = p * d - q * d
      BY <1>0, <2>1
    <2> HIDE DEF p, q, d
    <2>3. p * d - q * d = (p - q) * d + 0 /\ p - q \in Int /\ 0 \in 0..(d - 1)
      BY <2>2
    <2>4. ((p - q) * d + 0) \div d = p - q
      BY <2>2, <2>3, DivideOnce
    <2>5. (p - q) % 2 = 0
      BY <2>2
    <2>6. Bit0(2^u - 2^v, j) = 0
      BY <2>2, <2>3, <2>4, <2>5 DEF Bit0, d
    <2> QED BY <1>0, <1>1, <2>6
  <1>2. CASE v <= j /\ j < u
    <2>1. /\ 2^u = 2^(u - j) * 2^j /\ 2^(u - j) \in Nat /\ 2^(u - j) % 2 = 0
          /\ 2^v <= 2^j
      BY <1>0, <1>2, PowerMultiple, PowerOrder
    <2> DEFINE p == 2^(u - j)
               d == 2^j
               e == 2^v
    <2>2. p \in Nat /\ p % 2 = 0 /\ d \in Nat /\ d > 0 /\ 2^u - 2^v = p * d - e /\ e \in Nat /\ e > 0 /\ e <= d
      BY <1>0, <2>1
    <2> HIDE DEF p, d, e
    <2>3. p * d - e = (p - 1) * d + (d - e) /\ p - 1 \in Int /\ d - e \in 0..(d - 1)
      BY <2>2
    <2>4. ((p - 1) * d + (d - e)) \div d = p - 1
      BY <2>2, <2>3, DivideOnce
    <2>5. (p - 1) % 2 = 1
      BY <2>2
    <2> QED BY <1>2, <2>2, <2>3, <2>4, <2>5 DEF Bit0, d
  <1>3. CASE u <= j
    <2>1. 2^u <= 2^j /\ 2^v <= 2^u
      BY <1>0, <1>3, PowerOrder
    <2> DEFINE x == 2^u - 2^v
               d == 2^j
    <2>2. d \in Nat /\ d > 0 /\ x \in 0..(d - 1)
      BY <1>0, <2>1
    <2> HIDE DEF x, d
    <2>3. x \div d = 0
      BY <2>2, Within
    <2>4. Bit0(2^u - 2^v, j) = (x \div d) % 2
      BY Zenon DEF Bit0, x, d
    <2>5. Bit0(2^u - 2^v, j) = 0
      BY <2>3, <2>4
    <2> QED BY <1>0, <1>3, <2>5
  <1> QED BY <1>1, <1>2, <1>3, <1>0

\* One more bit of a remainder.
LEMMA NextBit ==
    ASSUME NEW x \in Int, NEW n \in 1..DB
    PROVE  /\ x % 2^n = (x % 2^(n - 1)) + Bit0(x, n - 1) * 2^(n - 1)
           /\ x % 2^n \in Int /\ x % 2^(n - 1) \in Int /\ Bit0(x, n - 1) \in {0, 1}
  <1>1. n - 1 \in 0..DB /\ n \in 0..DB
    BY Widths
  <1>2. 2^n = 2 * 2^(n - 1) /\ 2^(n - 1) \in Nat /\ 2^(n - 1) > 0 /\ 2^n \in Nat /\ 2^n > 0
    BY <1>1, Doubling, Powers
  <1> DEFINE d == 2^(n - 1)
             b == (x \div d) % 2
  <1>3. d \in Nat /\ d > 0 /\ 2^n = d * 2
    BY <1>2
  <1> HIDE DEF d
  <1>4. x % (d * 2) = ((x \div d) % 2) * d + (x % d)
    BY <1>3, DivideByProduct
  <1>5. x % d \in Int /\ x \div d \in Int /\ x % 2^n \in Int
    BY <1>2, <1>3, Division
  <1>6. b \in {0, 1}
    BY <1>5
  <1>7. b * d \in Int
    <2> HIDE DEF b
    <2> QED BY <1>3, <1>6
  <1> QED BY <1>3, <1>4, <1>5, <1>6, <1>7 DEF Bit0, d

\* The conjunction with a field of ones keeps that field.
LEMMA AndField ==
    ASSUME NEW x \in Int, NEW u \in 0..DB, NEW v \in 0..u
    PROVE  (x & (2^u - 2^v)) = (x % 2^u) - (x % 2^v)
  <1> DEFINE y == 2^u - 2^v
             r(n) == x % 2^n
             cut(n) == (IF n <= u THEN r(n) ELSE r(u)) - (IF n <= v THEN r(n) ELSE r(v))
  <1>1. y \in Int /\ DB \in Nat /\ v \in 0..DB
    <2>1. v \in 0..DB /\ DB \in Nat
      BY Widths
    <2>2. 2^u \in Nat /\ 2^v \in Nat
      BY <2>1, Powers
    <2> QED BY <2>1, <2>2
  <1> HIDE DEF y
  <1>2. PICK g \in [0..DB -> Int] :
              /\ (x & y) = g[DB] /\ g[0] = 0
              /\ \A n \in 1..DB : g[n] = g[n - 1] + Bit0(x, n - 1) * Bit0(y, n - 1) * 2^(n - 1)
    BY <1>1, And
  <1>3. \A n \in 0..DB : r(n) \in Int
    <2> SUFFICES ASSUME NEW n \in 0..DB PROVE r(n) \in Int
      OBVIOUS
    <2>1. 2^n \in Nat /\ 2^n > 0
      BY Powers
    <2> QED BY <2>1, Division
  <1>4. \A n \in 1..DB : /\ r(n) = r(n - 1) + Bit0(x, n - 1) * 2^(n - 1)
                         /\ Bit0(x, n - 1) \in {0, 1} /\ 2^(n - 1) \in Nat
    <2> SUFFICES ASSUME NEW n \in 1..DB
                 PROVE  /\ r(n) = r(n - 1) + Bit0(x, n - 1) * 2^(n - 1)
                        /\ Bit0(x, n - 1) \in {0, 1} /\ 2^(n - 1) \in Nat
      OBVIOUS
    <2>1. n - 1 \in 0..DB
      BY <1>1
    <2> QED BY <2>1, NextBit, Powers
  <1>5. \A n \in 1..DB : Bit0(y, n - 1) = IF v <= n - 1 /\ n - 1 < u THEN 1 ELSE 0
    <2> SUFFICES ASSUME NEW n \in 1..DB
                 PROVE Bit0(y, n - 1) = IF v <= n - 1 /\ n - 1 < u THEN 1 ELSE 0
      OBVIOUS
    <2>1. n - 1 \in 0..(DB - 1)
      BY <1>1
    <2> QED BY <2>1, FieldBits DEF y
  <1> DEFINE S == {n \in 0..DB : g[n] # cut(n)}
  <1>6. S = {}
    <2> SUFFICES ASSUME S # {} PROVE FALSE
      OBVIOUS
    <2>0. S \subseteq Nat
      BY <1>1
    <2>1. PICK n \in S : \A i \in S : n <= i
      <3> HIDE DEF S
      <3> QED BY <2>0, LeastNatural
    <2>2. n # 0
      <3>1. cut(0) = 0
        <4>1. 0 <= u /\ 0 <= v /\ r(0) \in Int
          BY <1>1, <1>3
        <4> QED BY <4>1
      <3> HIDE DEF cut
      <3> QED BY <1>2, <2>1, <3>1
    <2>3. n \in 1..DB /\ n - 1 \in 0..DB
      BY <1>1, <2>1, <2>2
    <2>4. g[n - 1] = cut(n - 1)
      <3>1. n - 1 \notin S
        <4> HIDE DEF S
        <4> QED BY <1>1, <2>1, <2>3
      <3> QED BY <2>3, <3>1
    <2> DEFINE b == Bit0(x, n - 1)
               c == Bit0(y, n - 1)
               p == 2^(n - 1)
    <2>5. /\ g[n] = g[n - 1] + b * c * p /\ r(n) = r(n - 1) + b * p
          /\ b \in {0, 1} /\ p \in Nat /\ c = (IF v <= n - 1 /\ n - 1 < u THEN 1 ELSE 0)
      BY <1>2, <1>4, <1>5, <2>3
    <2>6. r(n) \in Int /\ r(n - 1) \in Int /\ r(u) \in Int /\ r(v) \in Int /\ n \in Int
      BY <1>1, <1>3, <2>3
    <2> HIDE DEF b, c, p, r
    <2>7. g[n] = cut(n)
      <3>1. CASE n <= v
        <4>1. c = 0 /\ n <= u /\ n - 1 <= v /\ n - 1 <= u
          BY <2>3, <2>5, <3>1
        <4>2. b * c * p = 0
          BY <2>5, <4>1
        <4> QED BY <2>4, <2>5, <2>6, <3>1, <4>1, <4>2
      <3>2. CASE v < n /\ n <= u
        <4>1. c = 1 /\ ~(n <= v) /\ n - 1 <= u /\ (n - 1 <= v => n - 1 = v)
          BY <2>3, <2>5, <3>2
        <4>2. b * c * p = b * p /\ b * p \in Int
          BY <2>5, <4>1
        <4>3. g[n - 1] = r(n - 1) - r(v)
          <5>1. CASE n - 1 <= v
            BY <2>4, <2>6, <4>1, <5>1
          <5>2. CASE ~(n - 1 <= v)
            BY <2>4, <2>6, <4>1, <5>2
          <5> QED BY <5>1, <5>2
        <4>4. cut(n) = r(n) - r(v)
          BY <3>2, <4>1
        <4> QED BY <2>5, <2>6, <4>2, <4>3, <4>4
      <3>3. CASE u < n
        <4>1. c = 0 /\ ~(n <= u) /\ ~(n <= v) /\ u <= n - 1 /\ v <= n - 1
          BY <2>3, <2>5, <3>3
        <4>2. b * c * p = 0
          BY <2>5, <4>1
        <4>3. (n - 1 <= u => n - 1 = u) /\ (n - 1 <= v => n - 1 = v)
          BY <2>3, <4>1
        <4>4. g[n - 1] = r(u) - r(v)
          BY <2>4, <4>3
        <4> QED BY <2>5, <2>6, <4>1, <4>2, <4>4
      <3> QED BY <3>1, <3>2, <3>3, <2>3
    <2> HIDE DEF cut
    <2> QED BY <2>1, <2>7
  <1>7. g[DB] = cut(DB)
    <2>1. DB \in 0..DB
      BY <1>1
    <2> HIDE DEF cut
    <2> QED BY <1>6, <2>1
  <1>8. cut(DB) = r(u) - r(v)
    <2>1. (DB <= u => u = DB) /\ (DB <= v => v = DB)
      BY <1>1
    <2> HIDE DEF r
    <2> QED BY <2>1
  <1> QED BY <1>2, <1>7, <1>8 DEF y

\* A conjunction with a number of low ones is a remainder; with no bits it is 0.
LEMMA AndLow ==
    ASSUME NEW x \in Int, NEW u \in 0..DB
    PROVE  /\ (x & (2^u - 1)) = x % 2^u /\ (x & 0) = 0
           /\ (x | 0) = x /\ x % 2^u \in 0..(2^u - 1) /\ 2^u \in Nat /\ 2^u > 0
  <1>1. 0 \in 0..u /\ 0 \in 0..DB /\ 0 \in 0..0 /\ 2^0 = 1 /\ DB \in Nat
    BY Widths, WidthAssumption
  <1>2. (x & (2^u - 2^0)) = (x % 2^u) - (x % 2^0)
    BY <1>1, AndField
  <1>3. (x & (2^0 - 2^0)) = (x % 2^0) - (x % 2^0)
    BY <1>1, AndField
  <1>4. 2^u \in Nat /\ 2^u > 0 /\ 2^0 - 2^0 = 0
    BY <1>1, Powers
  <1>5. x % 2^u \in 0..(2^u - 1)
    BY <1>4, Division
  <1>6. x % 2^0 = 0
    BY <1>1
  <1>7. (x & (2^u - 1)) = x % 2^u /\ (x & 0) = 0
    BY <1>1, <1>2, <1>3, <1>4, <1>5, <1>6
  <1>8. (x | 0) = x + 0 - (x & 0)
    BY DEF |
  <1> QED BY <1>4, <1>5, <1>7, <1>8

\* The low bits of a field of ones.
LEMMA LowOfOnes ==
    ASSUME NEW u \in 0..DB, NEW v \in 0..u
    PROVE  (2^u - 1) % 2^v = 2^v - 1
  <1> DEFINE p == 2^(u - v)
             d == 2^v
  <1>1. 2^u = p * d /\ p \in Nat /\ d \in Nat /\ d > 0
    BY PowerMultiple
  <1> HIDE DEF p, d
  <1>2. p * d - 1 = (p - 1) * d + (d - 1) /\ p - 1 \in Int /\ d - 1 \in 0..(d - 1)
    BY <1>1
  <1>3. ((p - 1) * d + (d - 1)) % d = d - 1
    BY <1>1, <1>2, DivideOnce
  <1> QED BY <1>1, <1>2, <1>3 DEF d

\* MASK is the field of ones it is named for, when its ends are in order.
LEMMA MaskField ==
    ASSUME NEW x \in 0..DB, NEW y \in 0..(DB - 1), x < y
    PROVE  /\ MASK(x, y) = 2^(DB - x) - 2^(DB - 1 - y)
           /\ DB - x \in 0..DB /\ DB - 1 - y \in 0..(DB - x)
  <1>1. /\ DB - x \in 0..DB /\ DB - (y + 1) \in 0..DB /\ DB - (y + 1) \in 0..(DB - x)
        /\ DB - 1 - y = DB - (y + 1)
    BY Widths
  <1> DEFINE a == gen_bmask(x)
             b == gen_bmask(y + 1)
             u == DB - x
             v == DB - (y + 1)
  <1>2. a = 2^u - 1 /\ b = 2^v - 1
    BY DEF gen_bmask
  <1>3. MASK(x, y) = a + b - 2 * (a & b)
    BY DEF MASK, ^^
  <1>4. 2^u \in Nat /\ 2^v \in Nat
    BY <1>1, Powers
  <1>5. (a & b) = a % 2^v
    <2>1. a \in Int
      BY <1>2, <1>4
    <2> HIDE DEF a, b
    <2>2. (a & (2^v - 1)) = a % 2^v
      BY <1>1, <2>1, AndLow
    <2> QED BY <1>2, <2>2
  <1>6. a % 2^v = b
    <2>1. (2^u - 1) % 2^v = 2^v - 1
      BY <1>1, LowOfOnes
    <2> HIDE DEF a, b
    <2> QED BY <1>2, <2>1
  <1> HIDE DEF a, b, u, v
  <1>7. MASK(x, y) = 2^u - 2^v
    BY <1>2, <1>3, <1>4, <1>5, <1>6
  <1> QED BY <1>1, <1>7 DEF u, v

\* A rotation exchanges the upper and the lower part of a word.
LEMMA Rotates ==
    ASSUME NEW w \in Words, NEW n \in Int
    PROVE  LET j == n % WB
               e == 2^(WB - j)
               d == 2^j
           IN  /\ j \in 0..(WB - 1)
               /\ ROTL32(w, n) = (w % e) * d + (w \div e)
               /\ ROTL32(w, n) \in Words
               /\ ToW(w * d) = (w % e) * d
               /\ w % e \in 0..(e - 1) /\ w \div e \in 0..(d - 1)
               /\ e \in Nat /\ e > 0 /\ d \in Nat /\ d > 0 /\ WordSize = e * d
  <1> DEFINE j == n % WB
             e == 2^(WB - j)
             d == 2^j
             a == w % e
             b == w \div e
  <1>1. WB \in Nat /\ WB > 0
    BY Widths
  <1>2. j \in 0..(WB - 1)
    BY <1>1, Division
  <1> HIDE DEF j
  <1>3. WB \in 0..DB /\ j \in 0..WB
    BY <1>2, Widths
  <1>4. WordSize = e * d /\ e \in Nat /\ e > 0 /\ d \in Nat /\ d > 0
    BY <1>3, PowerMultiple DEF WordSize
  <1>5. ROTL32(w, n) = ToW(w * d) + b
    BY DEF ROTL32, j
  <1> HIDE DEF e, d
  <1>6. w \in Nat /\ w < WordSize /\ w \in 0..(e * d - 1)
    BY <1>4, InSizes, Sizes
  <1>7. w = b * e + a /\ a \in 0..(e - 1) /\ b \in Int
    BY <1>4, <1>6, Division
  <1>8. b \in 0..(d - 1)
    <2>1. w % (e * d) = w
      <3>1. e * d \in Nat /\ e * d > 0
        BY <1>4
      <3> QED BY <1>6, <3>1, Within
    <2>2. (w % (e * d)) \div e = (w \div e) % d
      BY <1>4, <1>6, DivideByProduct
    <2>3. b % d \in 0..(d - 1)
      BY <1>4, <1>7, Division
    <2> QED BY <2>1, <2>2, <2>3
  <1> HIDE DEF a, b
  <1>9. a * d \in Nat /\ a * d + b \in 0..(e * d - 1)
    <2>1. a * d \in Nat /\ (e - 1 - a) * d \in Nat /\ (e - 1 - a) * d = e * d - d - a * d
      BY <1>4, <1>7
    <2> DEFINE t == a * d
               s == e * d
    <2>2. t \in Nat /\ s \in Nat /\ s - d - t \in Nat
      BY <1>4, <2>1
    <2> HIDE DEF t, s
    <2>3. t + b \in 0..(s - 1)
      BY <1>4, <1>8, <2>2
    <2> QED BY <2>1, <2>3 DEF t, s
  <1>10. ToW(w * d) = a * d
    <2>1. w * d = a * d + b * WordSize
      <3>1. w * d = (b * e) * d + a * d /\ (b * e) * d = b * (e * d)
        BY <1>4, <1>7
      <3>2. b * (e * d) \in Int /\ a * d \in Int
        BY <1>4, <1>7
      <3> QED BY <1>4, <3>1, <3>2
    <2> DEFINE t == a * d
    <2>2. t \in 0..(WordSize - 1) /\ b \in Int /\ t \in Int
      <3> DEFINE s == e * d
      <3>1. s \in Nat /\ t \in Nat /\ t + b \in 0..(s - 1) /\ s = WordSize
        BY <1>4, <1>9
      <3> HIDE DEF s, t
      <3> QED BY <1>8, <3>1
    <2> HIDE DEF t
    <2>3. (t + b * WordSize) % WordSize = t % WordSize
      <3>1. WordSize \in Nat /\ WordSize > 0
        BY Sizes
      <3> QED BY <2>2, <3>1, AddMultiple
    <2>4. t % WordSize = t
      BY <2>2, Sizes, Within
    <2>5. ToW(w * d) = (w * d) % WordSize
      BY InSizes
    <2> QED BY <2>1, <2>3, <2>4, <2>5 DEF t
  <1>11. ROTL32(w, n) = a * d + b /\ ROTL32(w, n) \in Words
    BY <1>4, <1>5, <1>9, <1>10, InSizes
  <1> QED BY <1>2, <1>4, <1>7, <1>8, <1>10, <1>11 DEF j, e, d, a, b

\* A rotation to the right by n.
LEMMA RotatesRight ==
    ASSUME NEW w \in Words, NEW n \in 0..(WB - 1)
    PROVE  LET d == 2^n
               e == 2^(WB - n)
               r == ROTL32(w, DB - n)
           IN  /\ r \in Words /\ r = (w % d) * e + (w \div d)
               /\ w % d \in 0..(d - 1) /\ w \div d \in 0..(e - 1)
               /\ d \in Nat /\ d > 0 /\ e \in Nat /\ e > 0 /\ WordSize = e * d
  <1> DEFINE j == (DB - n) % WB
             r == ROTL32(w, DB - n)
  <1>1. /\ WB \in Nat /\ WB > 1 /\ DB = 2 * WB /\ n \in Nat /\ DB - n \in Int
        /\ WB \in 0..DB /\ n \in 0..WB /\ WB - n \in 0..DB
    BY Widths
  <1>2. /\ r = (w % 2^(WB - j)) * 2^j + (w \div 2^(WB - j)) /\ r \in Words
        /\ w % 2^(WB - j) \in 0..(2^(WB - j) - 1)
        /\ w \div 2^(WB - j) \in 0..(2^j - 1)
    BY <1>1, Rotates
  <1>3. WordSize = 2^(WB - n) * 2^n /\ 2^(WB - n) \in Nat /\ 2^(WB - n) > 0 /\ 2^n \in Nat /\ 2^n > 0
    BY <1>1, PowerMultiple DEF WordSize
  <1>4. CASE n # 0
    <2>1. DB - n = 1 * WB + (WB - n) /\ WB - n \in 0..(WB - 1)
      BY <1>1, <1>4
    <2>2. (1 * WB + (WB - n)) % WB = WB - n
      BY <1>1, <2>1, DivideOnce
    <2>3. j = WB - n /\ WB - j = n
      BY <1>1, <2>1, <2>2
    <2> HIDE DEF j, r
    <2> QED BY <1>2, <1>3, <2>3 DEF r
  <1>5. CASE n = 0
    <2>1. DB - n = 2 * WB + 0 /\ 0 \in 0..(WB - 1)
      BY <1>1, <1>5
    <2>2. (2 * WB + 0) % WB = 0
      BY <1>1, <2>1, DivideOnce
    <2>3. j = 0 /\ WB - j = WB /\ WB - n = WB
      BY <1>1, <1>5, <2>1, <2>2
    <2>4. 2^n = 1 /\ 2^j = 1 /\ 2^(WB - j) = WordSize /\ 2^(WB - n) = WordSize
      BY <1>5, <2>3, WidthAssumption DEF WordSize
    <2>5. w \in 0..(WordSize - 1) /\ WordSize \in Nat /\ WordSize > 0
      BY Sizes, InSizes
    <2>6. w % WordSize = w /\ w \div WordSize = 0
      BY <2>5, Within
    <2>7. w % 1 = 0 /\ w \div 1 = w
      BY <2>5
    <2> HIDE DEF j, r
    <2>8. r = w
      <3>1. r = (w % WordSize) * 1 + (w \div WordSize)
        BY <1>2, <2>4
      <3> QED BY <2>5, <2>6, <3>1
    <2>9. /\ r = (w % 2^n) * 2^(WB - n) + (w \div 2^n) /\ w % 2^n \in 0..(2^n - 1)
          /\ w \div 2^n \in 0..(2^(WB - n) - 1)
      BY <2>4, <2>5, <2>7, <2>8
    <2> QED BY <1>2, <1>3, <2>9 DEF r
  <1> QED BY <1>4, <1>5

\* slw: the rotated word under the mask of its upper bits is the word times 2^n.
LEMMA ShiftsLeft ==
    ASSUME NEW w \in Words, NEW n \in 0..(WB - 2)
    PROVE  (ROTL32(w, n) & MASK(WB, DB - 1 - n)) = ToW(w * 2^n)
  <1> DEFINE d == 2^n
             e == 2^(WB - n)
             r == ROTL32(w, n)
             a == w % e
             b == w \div e
  <1>1. /\ WB \in Nat /\ DB = 2 * WB /\ n \in Int /\ n \in 0..(WB - 1) /\ WB \in 0..DB
        /\ DB - 1 - n \in 0..(DB - 1) /\ WB < DB - 1 - n /\ DB - WB = WB
        /\ DB - 1 - (DB - 1 - n) = n /\ n \in 0..WB
    BY Widths
  <1>2. n % WB = n
    BY <1>1
  <1>3. /\ r = a * d + b /\ r \in Words /\ ToW(w * d) = a * d
        /\ a \in 0..(e - 1) /\ b \in 0..(d - 1) /\ d \in Nat /\ d > 0
    BY <1>1, <1>2, Rotates
  <1>4. MASK(WB, DB - 1 - n) = 2^WB - 2^n
    <2>1. MASK(WB, DB - 1 - n) = 2^(DB - WB) - 2^(DB - 1 - (DB - 1 - n))
      BY <1>1, MaskField
    <2> QED BY <1>1, <2>1
  <1>5. r \in Int /\ r % 2^WB = r
    BY <1>3, CastWithin DEF ToW
  <1>6. (r & (2^WB - 2^n)) = (r % 2^WB) - (r % 2^n)
    <2> HIDE DEF r
    <2> QED BY <1>1, <1>5, AndField
  <1>7. r % d = b
    <2>1. a \in Int
      BY <1>3
    <2> HIDE DEF a, b, d
    <2>2. (a * d + b) % d = b
      BY <1>3, <2>1, DivideOnce
    <2> QED BY <1>3, <2>2
  <1>8. a \in Nat /\ b \in Nat
    BY <1>3
  <1>9. (r & (2^WB - 2^n)) = a * d
    <2>1. (r & (2^WB - 2^n)) = r - b
      BY <1>5, <1>6, <1>7
    <2>2. a * d \in Nat
      <3> HIDE DEF a, d
      <3> QED BY <1>3, <1>8
    <2> HIDE DEF a, b, d, r
    <2> QED BY <1>3, <1>8, <2>1, <2>2
  <1> QED BY <1>3, <1>4, <1>9

\* srw, sraw: under the mask of its lower bits it is the quotient by 2^n, and what the mask
\* cuts off is the remainder.
LEMMA ShiftsRight ==
    ASSUME NEW w \in Words, NEW n \in 0..(WB - 2)
    PROVE  LET m == MASK(WB + n, DB - 1)
               r == ROTL32(w, DB - n)
           IN  /\ m = 2^(WB - n) - 1 /\ m \in Nat
               /\ (r & m) = w \div 2^n
               /\ (r & Compl(m)) = (w % 2^n) * 2^(WB - n)
               /\ (r & Compl(m)) \in Words
  <1> DEFINE d == 2^n
             e == 2^(WB - n)
             m == MASK(WB + n, DB - 1)
             r == ROTL32(w, DB - n)
             a == w % d
             b == w \div d
  <1>1. /\ WB \in Nat /\ DB = 2 * WB /\ n \in Int /\ n \in 0..(WB - 1) /\ n \in 0..DB
        /\ WB + n \in 0..DB /\ DB - 1 \in 0..(DB - 1) /\ WB + n < DB - 1
        /\ DB - (WB + n) = WB - n /\ DB - 1 - (DB - 1) = 0 /\ WB - n \in 0..DB
        /\ DB \in 0..DB
    BY Widths
  <1>2. /\ r \in Words /\ r = a * e + b /\ a \in 0..(d - 1) /\ b \in 0..(e - 1)
        /\ d \in Nat /\ d > 0 /\ e \in Nat /\ e > 0 /\ WordSize = e * d
    BY <1>1, RotatesRight
  <1>3. m = e - 1
    <2>1. MASK(WB + n, DB - 1) = 2^(DB - (WB + n)) - 2^(DB - 1 - (DB - 1))
      BY <1>1, MaskField
    <2> QED BY <1>1, <2>1, WidthAssumption
  <1>4. r \in Int /\ r \in Doubles /\ r % 2^DB = r
    <2>1. r \in Int /\ r \in 0..(WordSize - 1)
      BY <1>2, CastWithin, InSizes
    <2>2. DoubleSize = WordSize * WordSize /\ WordSize \in Nat /\ WordSize > 0
      BY Sizes
    <2>3. DoubleSize >= WordSize
      <3>1. (WordSize - 1) * WordSize \in Nat /\ (WordSize - 1) * WordSize = WordSize * WordSize - WordSize
        BY <2>2
      <3> QED BY <2>2, <3>1
    <2>4. r \in Doubles
      <3>1. DoubleSize \in Nat
        BY Sizes
      <3>2. r \in 0..(DoubleSize - 1)
        <4> HIDE DEF r
        <4> QED BY <2>1, <2>2, <2>3, <3>1
      <3> QED BY <3>2, InSizes
    <2> QED BY <2>1, <2>4, CastWithin DEF ToD
  <1>5. (r & (e - 1)) = r % e
    <2> HIDE DEF r
    <2> QED BY <1>1, <1>4, AndLow
  <1>6. (r & (2^DB - 2^(WB - n))) = (r % 2^DB) - (r % 2^(WB - n))
    <2>1. WB - n \in 0..DB
      BY <1>1
    <2> HIDE DEF r
    <2> QED BY <1>1, <1>4, <2>1, AndField
  <1>7. r % e = b /\ a \in Nat /\ b \in Nat
    <2>1. a \in Int /\ a \in Nat /\ b \in Nat
      BY <1>2
    <2> HIDE DEF a, b, e
    <2>2. (a * e + b) % e = b
      BY <1>2, <2>1, DivideOnce
    <2> QED BY <1>2, <2>1, <2>2
  <1>8. Compl(m) = 2^DB - 2^(WB - n)
    <2>1. 2^DB \in Nat
      BY <1>1, Powers
    <2> QED BY <1>2, <1>3, <2>1 DEF Compl
  <1>9. (r & Compl(m)) = a * e
    <2>1. (r & Compl(m)) = r - b
      BY <1>4, <1>6, <1>7, <1>8
    <2>2. a * e \in Nat
      <3> HIDE DEF a, e
      <3> QED BY <1>2, <1>7
    <2> HIDE DEF a, b, e, r, m
    <2> QED BY <1>2, <1>7, <2>1, <2>2
  <1>10. a * e \in Words
    <2>1. r \in 0..(WordSize - 1) /\ WordSize \in Nat
      BY <1>2, InSizes, Sizes
    <2>2. a * e \in Nat
      <3> HIDE DEF a, e
      <3> QED BY <1>2, <1>7
    <2> DEFINE t == a * e
    <2>3. t \in Nat /\ r = t + b
      BY <1>2, <2>2
    <2> HIDE DEF t, b, r
    <2>4. t \in 0..(WordSize - 1)
      BY <1>7, <2>1, <2>3
    <2> QED BY <2>4, InSizes DEF t
  <1>11. m \in Nat
    BY <1>2, <1>3
  <1> QED BY <1>3, <1>5, <1>7, <1>9, <1>10, <1>11

\* The bits sraw fills in for a negative word.
LEMMA FillsOnes ==
    ASSUME NEW u \in 0..DB, NEW x \in 0..(2^u - 1)
    PROVE  (x | (2^DB - 2^u)) = x + (2^DB - 2^u)
  <1>1. DB \in 0..DB /\ u \in 0..DB /\ 2^u \in Nat /\ 2^u > 0 /\ 2^DB \in Nat /\ 2^DB > 0
        /\ 2^u <= 2^DB
    <2>1. DB \in 0..DB
      BY Widths
    <2> QED BY <2>1, Powers, PowerOrder
  <1>2. x \in Int /\ x \in 0..(2^DB - 1)
    BY <1>1
  <1>3. x % 2^u = x /\ x % 2^DB = x
    BY <1>1, <1>2, Within
  <1>4. (x & (2^DB - 2^u)) = (x % 2^DB) - (x % 2^u)
    BY <1>1, <1>2, AndField
  <1>5. (x & (2^DB - 2^u)) = 0
    BY <1>2, <1>3, <1>4
  <1>6. (x | (2^DB - 2^u)) = x + (2^DB - 2^u) - (x & (2^DB - 2^u))
    BY DEF |
  <1> QED BY <1>1, <1>2, <1>5, <1>6

\* A word as a signed number, by its size.
LEMMA SignedOfWord ==
    ASSUME NEW w \in Words
    PROVE  Signed(w, WB) = IF w >= MinW THEN w - WordSize ELSE w
  <1>1. w % 2^WB = w
    BY CastWithin DEF ToW
  <1> QED BY <1>1 DEF Signed, MinW, WordSize

\* sraw by less than a word: the quotient rounded down, and whether ones were lost.
LEMMA ShiftsAlgebraic ==
    ASSUME NEW w \in Words, NEW n \in 0..(WB - 2)
    PROVE  LET m == MASK(WB + n, DB - 1)
               r == ROTL32(w, DB - n)
           IN  /\ ((r & m) | (IF w >= MinW THEN Compl(m) ELSE 0)) = ToD(Signed(w, WB) \div 2^n)
               /\ Lo(r & Compl(m)) # 0 <=> w % 2^n # 0
  <1> DEFINE d == 2^n
             e == 2^(WB - n)
             m == MASK(WB + n, DB - 1)
             r == ROTL32(w, DB - n)
             a == w % d
             b == w \div d
  <1>1. n \in 0..(WB - 1) /\ WB - n \in 0..DB /\ WB \in Nat
    BY Widths
  <1>2. /\ m = e - 1 /\ (r & m) = b /\ (r & Compl(m)) = a * e /\ (r & Compl(m)) \in Words
    BY ShiftsRight
  <1>3. /\ a \in 0..(d - 1) /\ b \in 0..(e - 1) /\ d \in Nat /\ d > 0 /\ e \in Nat /\ e > 0
        /\ WordSize = e * d
    BY <1>1, RotatesRight
  <1>4. Lo(r & Compl(m)) = a * e
    BY <1>2, CastWithin
  <1>5. Lo(r & Compl(m)) # 0 <=> a # 0
    <2>1. a \in Nat /\ e \in Nat /\ e > 0
      BY <1>3
    <2> HIDE DEF a, e
    <2>2. a * e # 0 <=> a # 0
      BY <2>1
    <2> QED BY <1>4, <2>2
  <1>6. /\ w \in Nat /\ WordSize \in Nat /\ DoubleSize \in Nat /\ DoubleSize > 0
        /\ e <= WordSize /\ WordSize <= DoubleSize
    <2>1. w \in Nat /\ WordSize \in Nat /\ WordSize > 0 /\ DoubleSize \in Nat /\ DoubleSize > 0
          /\ DoubleSize = WordSize * WordSize
      BY Sizes, InSizes
    <2>2. WB \in 0..DB /\ WB - n \in 0..WB
      BY <1>1, Widths
    <2>3. e <= WordSize
      BY <2>2, PowerOrder DEF WordSize
    <2>4. WB \in 0..DB /\ DB \in 0..DB
      BY <2>2, Widths
    <2>5. WordSize <= DoubleSize
      BY <2>4, PowerOrder DEF WordSize, DoubleSize
    <2> QED BY <2>1, <2>3, <2>5
  <1>7. CASE w >= MinW
    <2>1. Signed(w, WB) = w + (-e) * d
      <3>1. Signed(w, WB) = w - WordSize
        BY <1>7, SignedOfWord
      <3>2. (-e) * d = -(e * d) /\ e * d \in Int
        <4> HIDE DEF e, d
        <4> QED BY <1>3
      <3> QED BY <1>3, <1>6, <3>1, <3>2
    <2>2. (w + (-e) * d) \div d = b + (-e)
      <3>1. -e \in Int /\ d \in Nat /\ d > 0 /\ w \in Int
        BY <1>3, <1>6
      <3> HIDE DEF e, d
      <3> QED BY <3>1, AddMultiple
    <2>3. Compl(m) = 2^DB - 2^(WB - n)
      BY <1>2, <1>3, <1>6 DEF Compl, DoubleSize
    <2>4. (b | (2^DB - 2^(WB - n))) = b + (2^DB - 2^(WB - n))
      <3>1. b \in 0..(2^(WB - n) - 1)
        BY <1>3
      <3> HIDE DEF b
      <3> QED BY <1>1, <3>1, FillsOnes
    <2>5. ToD(b + (-e)) = b + (DoubleSize - e)
      <3> DEFINE y == b + (-e)
                 z == b + (DoubleSize - e)
      <3>1. y \in Int /\ z \in 0..(DoubleSize - 1) /\ z = y + 1 * DoubleSize
        BY <1>3, <1>6
      <3> HIDE DEF y, z
      <3>2. (y + 1 * DoubleSize) % DoubleSize = y % DoubleSize
        BY <1>6, <3>1, AddMultiple
      <3>3. z % DoubleSize = z
        BY <1>6, <3>1, Within
      <3> QED BY <3>1, <3>2, <3>3, InSizes DEF y, z
    <2> QED BY <1>2, <1>5, <1>7, <2>1, <2>2, <2>3, <2>4, <2>5 DEF DoubleSize
  <1>8. CASE ~(w >= MinW)
    <2>1. Signed(w, WB) = w
      BY <1>8, SignedOfWord
    <2>2. b \in Int /\ b \in 0..(DoubleSize - 1)
      BY <1>3, <1>6
    <2>3. (b | 0) = b
      <3>1. 0 \in 0..DB
        BY Widths
      <3> HIDE DEF b
      <3> QED BY <2>2, <3>1, AndLow
    <2>4. ToD(b) = b
      <3> HIDE DEF b
      <3> QED BY <1>6, <2>2, Within, InSizes
    <2> QED BY <1>2, <1>5, <1>8, <2>1, <2>3, <2>4
  <1> QED BY <1>7, <1>8

\* sraw by a word or more: nothing but the sign is left.
LEMMA ShiftsOut ==
    ASSUME NEW w \in Words, NEW n \in 0..DB, WB <= n, NEW r \in Words, r = 0 <=> w = 0
    PROVE  /\ ((r & 0) | (IF w >= MinW THEN Compl(0) ELSE 0)) = ToD(Signed(w, WB) \div 2^n)
           /\ Lo(r & Compl(0)) # 0 <=> w % 2^n # 0
           /\ ToW(w * 2^n) = 0 /\ w \div 2^n = 0 /\ (r & 0) = 0
  <1> DEFINE d == 2^n
  <1>0. WB \in 0..DB /\ WB \in 0..n /\ DB \in 0..DB /\ DB \in Nat /\ 0 \in 0..DB
    BY Widths
  <1>1. d \in Nat /\ d > 0 /\ WordSize <= d /\ d <= DoubleSize /\ WordSize \in Nat /\ WordSize > 0
        /\ DoubleSize \in Nat /\ DoubleSize > 0
    <2>1. 2^WB <= 2^n /\ 2^n <= 2^DB /\ 2^n \in Nat /\ 2^n > 0
      BY <1>0, PowerOrder, Powers
    <2> QED BY <2>1, Sizes DEF WordSize, DoubleSize
  <1>2. w \in 0..(d - 1) /\ w \in Int /\ r \in Int /\ r \in 0..(DoubleSize - 1) /\ r \in 0..(WordSize - 1)
    <2>1. w \in 0..(WordSize - 1) /\ r \in 0..(WordSize - 1)
      BY InSizes
    <2> HIDE DEF d
    <2> QED BY <1>1, <2>1
  <1>3. w % d = w /\ w \div d = 0
    <2> HIDE DEF d
    <2> QED BY <1>1, <1>2, Within
  <1>4. (r & 0) = 0 /\ (0 | 0) = 0
    <2>1. 0 \in Int
      OBVIOUS
    <2> QED BY <1>0, <1>2, <2>1, AndLow
  <1>5. Compl(0) = 2^DB - 1 /\ 2^DB - 1 = 2^DB - 2^0
    BY <1>1, WidthAssumption DEF Compl, DoubleSize
  <1>6. (r & Compl(0)) = r
    <2>1. (r & (2^DB - 1)) = r % 2^DB
      BY <1>0, <1>2, AndLow
    <2>2. r % DoubleSize = r
      BY <1>1, <1>2, Within
    <2> QED BY <1>5, <2>1, <2>2 DEF DoubleSize
  <1>7. Lo(r & Compl(0)) # 0 <=> w % d # 0
    <2>1. Lo(r) = r
      BY CastWithin
    <2> QED BY <1>3, <1>6, <2>1
  <1>8. ToW(w * d) = 0
    <2>1. d = 2^(n - WB) * WordSize /\ 2^(n - WB) \in Nat
      BY <1>0, PowerMultiple DEF WordSize
    <2> DEFINE q == 2^(n - WB)
    <2>2. d = q * WordSize /\ q \in Nat
      BY <2>1
    <2> HIDE DEF q, d
    <2>3. w * d = 0 + (w * q) * WordSize /\ w * q \in Int
      BY <1>1, <1>2, <2>2
    <2>4. (0 + (w * q) * WordSize) % WordSize = 0 % WordSize
      BY <1>1, <2>3, AddMultiple
    <2>5. 0 % WordSize = 0
      BY <1>1, Within
    <2> QED BY <2>3, <2>4, <2>5, InSizes
  <1>9. CASE w >= MinW
    <2>1. Signed(w, WB) = (-1) * d + (d - (WordSize - w)) /\ d - (WordSize - w) \in 0..(d - 1)
      <3>1. Signed(w, WB) = w - WordSize /\ MinW \in Nat /\ MinW > 1
        BY <1>9, SignedOfWord, Sizes
      <3>2. w \in 0..(WordSize - 1)
        BY InSizes
      <3> HIDE DEF d
      <3> QED BY <1>1, <1>9, <3>1, <3>2
    <2>2. ((-1) * d + (d - (WordSize - w))) \div d = -1
      <3>1. -1 \in Int
        OBVIOUS
      <3> HIDE DEF d
      <3> QED BY <1>1, <2>1, <3>1, DivideOnce
    <2>3. (0 | (2^DB - 2^0)) = 0 + (2^DB - 2^0)
      <3>1. 0 \in 0..(2^0 - 1)
        BY WidthAssumption
      <3> QED BY <1>0, <3>1, FillsOnes
    <2>4. ToD(-1) = DoubleSize - 1
      <3>1. (-1 + 1 * DoubleSize) % DoubleSize = (-1) % DoubleSize
        <4>1. -1 \in Int /\ 1 \in Int
          OBVIOUS
        <4> QED BY <1>1, <4>1, AddMultiple
      <3>2. -1 + 1 * DoubleSize = DoubleSize - 1 /\ DoubleSize - 1 \in 0..(DoubleSize - 1)
        BY <1>1
      <3>3. (DoubleSize - 1) % DoubleSize = DoubleSize - 1
        BY <1>1, <3>2, Within
      <3> QED BY <3>1, <3>2, <3>3, InSizes
    <2>5. (0 | Compl(0)) = DoubleSize - 1
      BY <1>1, <1>5, <2>3 DEF DoubleSize
    <2> QED BY <1>3, <1>4, <1>7, <1>8, <1>9, <2>1, <2>2, <2>4, <2>5
  <1>10. CASE ~(w >= MinW)
    <2>1. Signed(w, WB) = w
      BY <1>10, SignedOfWord
    <2>2. ToD(0) = 0
      BY <1>1, Within, InSizes
    <2> QED BY <1>3, <1>4, <1>7, <1>8, <1>10, <2>1, <2>2
  <1> QED BY <1>9, <1>10

\* A rotated word is 0 when the word is.
LEMMA RotatedZero ==
    ASSUME NEW w \in Words, NEW n \in 0..(WB - 1)
    PROVE  ROTL32(w, DB - n) = 0 <=> w = 0
  <1> DEFINE d == 2^n
             e == 2^(WB - n)
             r == ROTL32(w, DB - n)
             a == w % d
             b == w \div d
  <1>1. /\ r = a * e + b /\ a \in 0..(d - 1) /\ b \in 0..(e - 1)
        /\ d \in Nat /\ d > 0 /\ e \in Nat /\ e > 0 /\ w \in Int
    BY RotatesRight, CastWithin
  <1>2. w = b * d + a
    <2> HIDE DEF d
    <2> QED BY <1>1, Division
  <1>3. a \in Nat /\ b \in Nat
    BY <1>1
  <1> HIDE DEF a, b, d, e, r
  <1>4. a * e \in Nat /\ b * d \in Nat /\ (a * e = 0 => a = 0) /\ (b * d = 0 => b = 0)
        /\ (a = 0 => a * e = 0) /\ (b = 0 => b * d = 0)
    BY <1>1, <1>3
  <1> DEFINE s == a * e
             t == b * d
  <1>5. s \in Nat /\ t \in Nat /\ (s = 0 <=> a = 0) /\ (t = 0 <=> b = 0) /\ r = s + b /\ w = t + a
    BY <1>1, <1>2, <1>4
  <1> HIDE DEF s, t
  <1>6. r = 0 <=> w = 0
    BY <1>3, <1>5
  <1> QED BY <1>6 DEF r

\* The low bits of an amount, and the bit above them.
LEMMA Amounts ==
    ASSUME NEW x \in Int
    PROVE  /\ x % WB \in 0..(WB - 1)
           /\ x % (2 * WB) = IF (x \div WB) % 2 = 1 THEN WB + (x % WB) ELSE x % WB
  <1>1. WB \in Nat /\ WB > 0
    BY Widths
  <1>2. x % (WB * 2) = ((x \div WB) % 2) * WB + (x % WB) /\ WB * 2 = 2 * WB
    BY <1>1, DivideByProduct
  <1>3. x % WB \in 0..(WB - 1) /\ x \div WB \in Int
    BY <1>1, Division
  <1>4. (x \div WB) % 2 \in {0, 1}
    BY <1>3
  <1> DEFINE c == (x \div WB) % 2
             l == x % WB
  <1>5. c \in {0, 1} /\ l \in Int /\ x % (2 * WB) = c * WB + l
    BY <1>2, <1>3, <1>4
  <1> HIDE DEF c, l
  <1>6. x % (2 * WB) = IF c = 1 THEN WB + l ELSE l
    BY <1>1, <1>5
  <1> QED BY <1>3, <1>6 DEF c, l

---------------------------------------------------------------------------
(* The integer instructions of the idioms *)

ShiftOps == {"slw", "srw", "sraw", "srawi"}
Idiomatic == {"mcrxr", "addc", "adde", "addze", "subf", "subfc", "subfe", "mullw", "mulhw",
              "cmp", "cmpl", "rlwinm"} \cup ShiftOps

\* Every one of them has its action.
LEMMA IdiomaticActions ==
    ASSUME Next, ic.op \in Idiomatic
    PROVE  /\ UNCHANGED speVars /\ k <= Len(prog)
           /\ ic.op = "mcrxr" => mcrxr
           /\ ic.op \in {"addc", "adde", "addze"} => Add
           /\ ic.op \in {"subf", "subfc", "subfe"} => Subtract
           /\ ic.op \in {"mullw", "mulhw"} => Multiply
           /\ ic.op \in {"cmp", "cmpl"} => Compare
           /\ ic.op \in {"slw", "srw"} => ShiftLogical
           /\ ic.op \in {"sraw", "srawi"} => ShiftAlgebraic
           /\ ic.op = "rlwinm" => Rotate
  <1> USE DEF Fetch, Idiomatic, ShiftOps
  <1>1. ~SpeNext
    <2>1. ~brinc /\ ~evabs_addiw /\ ~evadd_aaw /\ ~evaddw_and /\ ~evcmp /\ ~evcntl /\ ~evdivw
      BY DEF brinc, evabs_addiw, evadd_aaw, evaddw_and, evcmp, evcntl, evdivw
    <2>2. ~eveqv_ext /\ ~evmerge /\ ~evmheg /\ ~evmhesm /\ ~evmhessf /\ ~evmhessi
      BY DEF eveqv_ext, evmerge, evmheg, evmhesm, evmhessf, evmhessi
    <2>3. ~evmheumi /\ ~evmheusi /\ ~evmhog /\ ~evmhosm /\ ~evmhossf /\ ~evmhossi
      BY DEF evmheumi, evmheusi, evmhog, evmhosm, evmhossf, evmhossi
    <2>4. ~evmhoumi /\ ~evmhousi /\ ~evmra /\ ~evmwh /\ ~evmwl /\ ~evmws /\ ~evmwssf
      BY DEF evmhoumi, evmhousi, evmra, evmwh, evmwl, evmws, evmwssf
    <2>5. ~evlogic /\ ~evrotate_sel /\ ~evshift_left /\ ~evshift_right /\ ~evsubf /\ ~evxor
      BY DEF evlogic, evrotate_sel, evshift_left, evshift_right, evsubf, evxor
    <2>6. ~evfs_sign /\ ~evfs_arith /\ ~evfs_compare /\ ~efd_sign
      BY DEF evfs_sign, evfs_arith, evfs_compare, efd_sign
    <2> QED BY <2>1, <2>2, <2>3, <2>4, <2>5, <2>6, Zenon DEF SpeNext
  <1>2. IntegerNext /\ UNCHANGED speVars
    BY <1>1 DEF Next
  <1>3. /\ Add => ic.op \in AddOps /\ k <= Len(prog)
        /\ Subtract => ic.op \in SubtractOps /\ k <= Len(prog)
        /\ Multiply => ic.op \in {"mulhw", "mulhwu", "mullw", "mulli"} /\ k <= Len(prog)
    BY DEF Add, Subtract, Multiply
  <1>4. ~Divide /\ ~Logical /\ ~LogicalWide /\ ~CrLogic
    BY DEF Divide, Logical, LogicalWide, LogicalOps, CrLogic, CrOps
  <1>5. ~mcrf /\ ~mtcrf /\ ~mfcr /\ ~isel
    BY DEF mcrf, mtcrf, mfcr, isel
  <1>6. /\ Compare => ic.op \in {"cmp", "cmpi", "cmpl", "cmpli"} /\ k <= Len(prog)
        /\ mcrxr => ic.op = "mcrxr" /\ k <= Len(prog)
        /\ Rotate => ic.op \in {"rlwimi", "rlwinm", "rlwnm"} /\ k <= Len(prog)
        /\ ShiftLogical => ic.op \in {"slw", "srw"} /\ k <= Len(prog)
        /\ ShiftAlgebraic => ic.op \in {"sraw", "srawi"} /\ k <= Len(prog)
    BY DEF Compare, mcrxr, Rotate, ShiftLogical, ShiftAlgebraic
  <1>7. Add \/ Subtract \/ Multiply \/ Compare \/ mcrxr \/ Rotate \/ ShiftLogical \/ ShiftAlgebraic
    BY <1>2, <1>4, <1>5, Zenon DEF IntegerNext
  <1>8. k <= Len(prog)
    BY <1>3, <1>6, <1>7
  <1> HIDE DEF Fetch
  <1> QED BY <1>2, <1>3, <1>6, <1>7, <1>8 DEF AddOps, SubtractOps

\* What an instruction needs of the registers.
Supplied == gpr \in [Regs -> Doubles] /\ ic.a \in Regs /\ ic.b \in Regs /\ ic.d \in Regs

\* Its operands are registers, with a low word each.
LEMMA Supplies ==
    ASSUME Supplied
    PROVE  /\ REG1 \in Doubles /\ REG1 \in Int /\ Lo(REG1) \in Words /\ REG1 = gpr[ic.a]
           /\ REG2 \in Doubles /\ REG2 \in Int /\ Lo(REG2) \in Words /\ REG2 = gpr[ic.b]
  <1>1. REG1 \in Doubles /\ REG2 \in Doubles
    BY DEF Supplied, REG1, REG2
  <1>2. REG1 \in Int /\ REG2 \in Int
    BY <1>1, CastWithin
  <1> QED BY <1>1, <1>2, Casts DEF REG1, REG2

\* The amount of a shift as the documents have it, and its result.
Amount == IF ic.op = "srawi" THEN ic.i ELSE gpr[ic.b] % (2 * WB)
Shifted ==
    CASE ic.op = "slw" -> ToW(Lo(gpr[ic.a]) * 2^Amount)
      [] ic.op = "srw" -> Lo(gpr[ic.a]) \div 2^Amount
      [] ic.op \in {"sraw", "srawi"} -> ToD(Signed(Lo(gpr[ic.a]), WB) \div 2^Amount)

\* A shift completes with that result, sraw and srawi with the carry.
LEMMA ShiftStep ==
    ASSUME Next, Supplied, ic.op \in ShiftOps, ic.op = "srawi" => ic.i \in 0..(WB - 1),
           Amount # WB - 1
    PROVE  /\ Goes /\ gpr' = [gpr EXCEPT ![ic.d] = Shifted]
           /\ ic.op \in {"sraw", "srawi"} =>
                 xer' = update_xer_ca(xer, /\ Lo(gpr[ic.a]) >= MinW
                                           /\ Lo(gpr[ic.a]) % 2^Amount # 0)
  <1> DEFINE w == Lo(REG1)
             x == ShiftAmount
             n == x % WB
             right == ROTL32(w, DB - n)
             m == MASK(WB + n, DB - 1)
  <1>1. w \in Words /\ REG1 = gpr[ic.a] /\ REG2 = gpr[ic.b] /\ REG2 \in Int /\ WB \in Nat /\ WB > 1
    BY Supplies, Widths
  <1>2. x \in Int /\ n \in 0..(WB - 1)
    <2>1. x \in Int
      BY <1>1 DEF ShiftAmount
    <2> HIDE DEF x
    <2> QED BY <2>1, Amounts
  <1>3. \/ ic.op # "srawi" /\ (REG2 \div WB) % 2 = 1 /\ Amount = WB + n
        \/ ~(ic.op # "srawi" /\ (REG2 \div WB) % 2 = 1) /\ Amount = n
    <2>1. CASE ic.op = "srawi"
      <3>1. n = ic.i
        BY <1>1, <2>1 DEF ShiftAmount
      <3> QED BY <2>1, <3>1 DEF Amount
    <2>2. CASE ic.op # "srawi"
      <3>1. x = REG2 /\ Amount = REG2 % (2 * WB)
        BY <1>1, <2>2 DEF ShiftAmount, Amount
      <3>2. Amount = IF (REG2 \div WB) % 2 = 1 THEN WB + n ELSE n
        BY <1>1, <3>1, Amounts
      <3> QED BY <2>2, <3>2
    <2> QED BY <2>1, <2>2
  <1>4. /\ ShiftLogical => ic.op \in {"slw", "srw"}
        /\ ShiftAlgebraic => ic.op \in {"sraw", "srawi"}
        /\ ic.op \in {"slw", "srw"} => ShiftLogical
        /\ ic.op \in {"sraw", "srawi"} => ShiftAlgebraic
    BY IdiomaticActions DEF ShiftLogical, ShiftAlgebraic, Fetch, Idiomatic
  <1> DEFINE left == ROTL32(w, n)
             ml == MASK(WB, DB - 1 - n)
             out == ic.op # "srawi" /\ (REG2 \div WB) % 2 = 1
             keep(q) == IF out THEN 0 ELSE q
  <1>5. ShiftMask(n, m) = keep(m) /\ ShiftMask(n, ml) = keep(ml)
    BY DEF ShiftMask
  <1>6. right \in Words /\ (right = 0 <=> w = 0)
    BY <1>1, <1>2, RotatesRight, RotatedZero
  <1>7. left \in Words
    BY <1>1, <1>2, Rotates
  <1>8. \/ out /\ Amount = WB + n /\ Amount \in 0..DB /\ WB <= Amount
        \/ ~out /\ Amount = n /\ n \in 0..(WB - 2)
    BY <1>1, <1>2, <1>3, Widths
  <1>9. ASSUME ic.op = "slw" PROVE ShiftLogical /\ (left & keep(ml)) = ToW(w * 2^Amount)
    <2>1. CASE out
      <3>1. (left & 0) = 0
        <4>1. 0 \in 0..DB /\ left \in Int
          BY <1>7, CastWithin, Widths
        <4> QED BY <4>1, AndLow
      <3>2. ToW(w * 2^Amount) = 0
        BY <1>1, <1>6, <1>8, <2>1, ShiftsOut
      <3> QED BY <1>4, <1>9, <2>1, <3>1, <3>2
    <2>2. CASE ~out
      BY <1>1, <1>4, <1>8, <1>9, <2>2, ShiftsLeft
    <2> QED BY <2>1, <2>2
  <1>10. ASSUME ic.op = "srw" PROVE ShiftLogical /\ (right & keep(m)) = w \div 2^Amount
    <2>1. CASE out
      BY <1>1, <1>4, <1>6, <1>8, <1>10, <2>1, ShiftsOut
    <2>2. CASE ~out
      BY <1>1, <1>4, <1>8, <1>10, <2>2, ShiftsRight
    <2> QED BY <2>1, <2>2
  <1>11. ASSUME ic.op \in {"sraw", "srawi"}
         PROVE  /\ ShiftAlgebraic
                /\ ((right & keep(m)) | (IF w >= MinW THEN Compl(keep(m)) ELSE 0))
                     = ToD(Signed(w, WB) \div 2^Amount)
                /\ Lo(right & Compl(keep(m))) # 0 <=> w % 2^Amount # 0
    <2>1. CASE out
      BY <1>1, <1>4, <1>6, <1>8, <1>11, <2>1, ShiftsOut
    <2>2. CASE ~out
      BY <1>1, <1>4, <1>8, <1>11, <2>2, ShiftsAlgebraic
    <2> QED BY <2>1, <2>2
  <1>12. ASSUME ic.op = "slw" PROVE CompleteValue(left & keep(ml), xer)
    <2>1. CompleteValue(left & ShiftMask(n, ml), xer)
      BY <1>9, <1>12 DEF ShiftLogical
    <2> QED BY <1>5, <2>1
  <1>13. ASSUME ic.op = "srw" PROVE CompleteValue(right & keep(m), xer)
    <2>1. CompleteValue(right & ShiftMask(n, m), xer)
      BY <1>10, <1>13 DEF ShiftLogical
    <2> QED BY <1>5, <2>1
  <1>14. ASSUME ic.op \in {"sraw", "srawi"}
         PROVE  CompleteValue((right & keep(m)) | (IF w >= MinW THEN Compl(keep(m)) ELSE 0),
                              update_xer_ca(xer, w >= MinW /\ Lo(right & Compl(keep(m))) # 0))
    <2>1. CompleteValue((right & ShiftMask(n, m)) | (IF w >= MinW THEN Compl(ShiftMask(n, m)) ELSE 0),
               update_xer_ca(xer, w >= MinW /\ Lo(right & Compl(ShiftMask(n, m))) # 0))
      BY <1>11, <1>14 DEF ShiftAlgebraic
    <2> QED BY <1>5, <2>1
  <1> HIDE DEF w, left, right, keep, m, ml
  <1>15. ASSUME NEW v, NEW y, CompleteValue(v, y)
         PROVE  Goes /\ gpr' = [gpr EXCEPT ![ic.d] = v] /\ xer' = y
    BY <1>15 DEF CompleteValue, Complete, Goes
  <1>16. CASE ic.op = "slw"
    BY <1>1, <1>9, <1>12, <1>15, <1>16 DEF Shifted, w
  <1>17. CASE ic.op = "srw"
    BY <1>1, <1>10, <1>13, <1>15, <1>17 DEF Shifted, w
  <1>18. CASE ic.op \in {"sraw", "srawi"}
    <2>1. Shifted = ToD(Signed(w, WB) \div 2^Amount)
      BY <1>1, <1>18 DEF Shifted, w
    <2>2. xer' = update_xer_ca(xer, w >= MinW /\ Lo(right & Compl(keep(m))) # 0)
      BY <1>14, <1>15, <1>18
    <2>3. (w >= MinW /\ Lo(right & Compl(keep(m))) # 0) <=> (w >= MinW /\ w % 2^Amount # 0)
      BY <1>11, <1>18
    <2>4. xer' = update_xer_ca(xer, w >= MinW /\ w % 2^Amount # 0)
      BY <2>2, <2>3, Zenon DEF update_xer_ca
    <2> QED BY <1>1, <1>11, <1>14, <1>15, <1>18, <2>1, <2>4 DEF w
  <1> QED BY <1>16, <1>17, <1>18 DEF ShiftOps

\* A remainder by a power of two has the bits below it.
LEMMA BitOfRest ==
    ASSUME NEW x \in Int, NEW u \in 0..DB, NEW j \in 0..(u - 1)
    PROVE  Bit0(x % 2^u, j) = Bit0(x, j)
  <1>1. j \in 0..u /\ j < u /\ u - j \in 1..DB /\ j \in 0..DB
    BY Widths
  <1>2. 2^u = 2^(u - j) * 2^j /\ 2^j \in Nat /\ 2^j > 0 /\ 2^(u - j) \in Nat /\ 2^(u - j) > 0
    BY <1>1, PowerMultiple
  <1>3. 2^(u - j) = 2 * 2^(u - j - 1)
    BY <1>1, Doubling
  <1>4. u - j - 1 \in 0..DB
    BY <1>1, Widths
  <1>5. 2^(u - j - 1) \in Nat /\ 2^(u - j - 1) > 0
    BY <1>4, Powers
  <1> DEFINE d == 2^j
             e == 2^(u - j)
             f == 2^(u - j - 1)
             y == x \div d
  <1>6. d \in Nat /\ d > 0 /\ e \in Nat /\ e > 0 /\ f \in Nat /\ f > 0 /\ 2^u = d * e /\ e = 2 * f
    <2>1. d \in Nat /\ e \in Nat /\ 2^u = e * d
      BY <1>2
    <2> HIDE DEF d, e
    <2>2. e * d = d * e
      BY <2>1
    <2> USE DEF d, e
    <2> QED BY <1>2, <1>3, <1>5, <2>1, <2>2
  <1>7. (x % (d * e)) \div d = y % e
    <2> HIDE DEF d, e
    <2> QED BY <1>6, DivideByProduct
  <1>8. y \in Int
    <2> HIDE DEF d
    <2> QED BY <1>6, Division
  <1>9. (y % (2 * f)) % 2 = y % 2
    <2>1. 2 \in Nat /\ 2 > 0
      OBVIOUS
    <2> HIDE DEF y, f
    <2> QED BY <1>6, <1>8, <2>1, DivideByProduct
  <1>10. Bit0(x % 2^u, j) = ((x % 2^u) \div d) % 2 /\ Bit0(x, j) = y % 2
    BY DEF Bit0
  <1> HIDE DEF y, d, e, f
  <1> QED BY <1>6, <1>7, <1>9, <1>10

\* The bits of a quotient by a power of two are those above it.
LEMMA BitOfQuotient ==
    ASSUME NEW x \in Int, NEW u \in Nat, NEW j \in Nat, u + j <= DB
    PROVE  Bit0(x \div 2^u, j) = Bit0(x, u + j)
  <1>1. u \in 0..DB /\ j \in 0..DB /\ 2^(u + j) = 2^u * 2^j
    BY Widths, PowerOfSum
  <1>2. 2^u \in Nat /\ 2^u > 0 /\ 2^j \in Nat /\ 2^j > 0
    BY <1>1, Powers
  <1>3. x \div (2^u * 2^j) = (x \div 2^u) \div 2^j
    BY <1>2, DivideByProduct
  <1> QED BY <1>1, <1>3 DEF Bit0

\* A field cut out of a number has its bits there, and none elsewhere.
LEMMA BitOfField ==
    ASSUME NEW r \in Int, NEW u \in 0..DB, NEW v \in 0..u, NEW p \in 0..(DB - 1)
    PROVE  LET x == (r % 2^u) - (r % 2^v)
           IN  /\ Bit0(x, p) = IF v <= p /\ p < u THEN Bit0(r, p) ELSE 0
               /\ x \in 0..(2^u - 1)
  <1> DEFINE d == 2^v
             e == 2^(u - v)
             y == (r \div d) % e
             x == (r % 2^u) - (r % d)
  <1>0. DB \in Nat /\ v \in 0..DB /\ u - v \in 0..DB /\ p \in 0..DB
    BY Widths
  <1>1. 2^u = e * d /\ d \in Nat /\ d > 0 /\ e \in Nat /\ e > 0 /\ 2^u \in Nat /\ 2^u > 0
    BY PowerMultiple
  <1>2. r % (d * e) = y * d + (r % d) /\ d * e = e * d
    <2> HIDE DEF d, e
    <2> QED BY <1>1, DivideByProduct
  <1>3. r % d \in Int /\ r % d >= 0 /\ r % 2^u \in 0..(2^u - 1) /\ r \div d \in Int /\ y \in 0..(e - 1)
    <2>1. r % d \in 0..(d - 1) /\ r % 2^u \in 0..(2^u - 1) /\ r \div d \in Int
      <3> HIDE DEF d
      <3> QED BY <1>1, Division
    <2>2. y \in 0..(e - 1)
      <3> DEFINE q == r \div d
      <3>1. q \in Int
        BY <2>1
      <3> HIDE DEF q, e
      <3>2. q % e \in 0..(e - 1)
        BY <1>1, <3>1, Division
      <3> QED BY <3>2 DEF q
    <2> QED BY <1>1, <2>1, <2>2
  <1>4. x = y * d /\ x \in 0..(2^u - 1)
    <2>1. y * d \in Nat
      <3>1. y \in Nat
        BY <1>3
      <3> HIDE DEF y, d
      <3> QED BY <1>1, <3>1
    <2> DEFINE t == y * d
               s == r % d
               w == r % 2^u
    <2>2. w = t + s /\ t \in Nat /\ s \in Int /\ s >= 0 /\ w \in 0..(2^u - 1) /\ x = w - s
      BY <1>1, <1>2, <1>3, <2>1
    <2> HIDE DEF t, s, w, x
    <2>3. x = t /\ x \in 0..(2^u - 1)
      BY <1>1, <2>2
    <2> QED BY <2>3 DEF t
  <1>5. CASE p < v
    <2>1. p \in 0..v /\ v \in 0..DB
      BY <1>0, <1>5
    <2>2. d = 2^(v - p) * 2^p /\ 2^p \in Nat /\ 2^p > 0 /\ 2^(v - p) \in Nat /\ 2^(v - p) % 2 = 0
      BY <1>5, <2>1, PowerMultiple
    <2> DEFINE f == 2^(v - p)
               g == 2^p
    <2>3. x = (y * f) * g + 0
      <3>1. y \in Nat /\ f \in Nat /\ g \in Nat /\ d = f * g
        BY <1>3, <2>2
      <3> HIDE DEF y, f, g, d
      <3>2. y * (f * g) = (y * f) * g /\ (y * f) * g \in Int
        BY <3>1
      <3> QED BY <1>4, <3>1, <3>2
    <2>4. y \in Nat /\ f \in Nat /\ f % 2 = 0 /\ g \in Nat /\ g > 0
      BY <1>3, <2>2
    <2> HIDE DEF y, f, g, x
    <2>5. y * f \in Int /\ 0 \in 0..(g - 1)
      BY <2>4
    <2>6. x \div g = y * f
      BY <2>3, <2>4, <2>5, DivideOnce
    <2>7. (y * f) % 2 = 0
      <3>1. PICK h \in Nat : f = h * 2 + 0
        BY <2>4, Division
      <3>2. y * f = 0 + (y * h) * 2 /\ y * h \in Int
        BY <2>4, <3>1
      <3>3. (0 + (y * h) * 2) % 2 = 0 % 2
        BY <3>2, AddMultiple
      <3> QED BY <3>2, <3>3
    <2>8. Bit0(x, p) = (x \div g) % 2
      BY DEF Bit0, g
    <2>9. Bit0(x, p) = 0
      BY <2>6, <2>7, <2>8
    <2> QED BY <1>0, <1>4, <1>5, <2>9 DEF x
  <1>6. CASE v <= p /\ p < u
    <2> DEFINE j == p - v
               q == r \div d
    <2>1. j \in 0..(u - v - 1) /\ j \in Nat /\ v \in Nat /\ v + j = p /\ v + j <= DB
      BY <1>0, <1>6
    <2>2. x \in Int /\ q \in Int
      BY <1>3, <1>4
    <2>3. Bit0(x, p) = Bit0(x \div d, j)
      <3> HIDE DEF x, j
      <3> QED BY <2>1, <2>2, BitOfQuotient
    <2>4. x \div d = y
      <3>1. y * d = y * d + 0 /\ y \in Int /\ 0 \in 0..(d - 1)
        <4>1. y \in Nat
          BY <1>3
        <4> HIDE DEF y, d
        <4> QED BY <1>1, <4>1
      <3>2. (y * d + 0) \div d = y
        <4> HIDE DEF y, d
        <4> QED BY <1>1, <3>1, DivideOnce
      <3> QED BY <1>4, <3>1, <3>2
    <2>5. Bit0(y, j) = Bit0(q, j)
      <3>1. Bit0(q % 2^(u - v), j) = Bit0(q, j)
        <4> HIDE DEF q, j
        <4> QED BY <1>0, <2>1, <2>2, BitOfRest
      <3> QED BY <3>1
    <2>6. Bit0(q, j) = Bit0(r, p)
      <3> HIDE DEF j
      <3> QED BY <2>1, BitOfQuotient
    <2> HIDE DEF x, y, j, q
    <2>7. Bit0(x, p) = Bit0(r, p)
      BY <2>3, <2>4, <2>5, <2>6
    <2> QED BY <1>4, <1>6, <2>7 DEF x
  <1>7. CASE u <= p
    <2>1. 2^u <= 2^p /\ 2^p \in Nat /\ 2^p > 0
      BY <1>0, <1>7, PowerOrder, Powers
    <2> DEFINE g == 2^p
    <2>2. x \in 0..(g - 1) /\ g \in Nat /\ g > 0
      BY <1>1, <1>4, <2>1
    <2> HIDE DEF x, g
    <2>3. x \div g = 0
      BY <2>2, Within
    <2>4. Bit0(x, p) = (x \div g) % 2
      BY DEF Bit0, g
    <2>5. Bit0(x, p) = 0
      BY <2>3, <2>4
    <2> QED BY <1>0, <1>4, <1>7, <2>5 DEF x
  <1> QED BY <1>0, <1>5, <1>6, <1>7

\* The bits of a rotated word.
LEMMA BitOfRotated ==
    ASSUME NEW w \in Words, NEW i \in 0..(WB - 1), NEW p \in 0..(WB - 1)
    PROVE  Bit0(ROTL32(w, i), p) = Bit0(w, IF p >= i THEN p - i ELSE p + WB - i)
  <1> DEFINE d == 2^i
             e == 2^(WB - i)
             r == ROTL32(w, i)
             a == w % e
             b == w \div e
  <1>1. /\ WB \in Nat /\ WB > 0 /\ i \in Int /\ i \in Nat /\ p \in Nat /\ DB = 2 * WB
        /\ WB - i \in 0..DB /\ WB - i \in Nat /\ i \in 0..DB /\ i % WB = i
    <2>1. WB \in Nat /\ WB > 0 /\ DB = 2 * WB
      BY Widths
    <2>2. i % WB = i
      BY <2>1, Within
    <2> QED BY <2>1, <2>2
  <1>2. /\ r = a * d + b /\ r \in Words /\ r \in Int /\ w \in Int
        /\ a \in 0..(e - 1) /\ b \in 0..(d - 1) /\ d \in Nat /\ d > 0
    BY <1>1, Rotates, CastWithin
  <1>3. r \div d = a /\ r % d = b
    <2>1. a \in Int
      BY <1>2
    <2> HIDE DEF a, b, d
    <2>2. (a * d + b) \div d = a /\ (a * d + b) % d = b
      BY <1>2, <2>1, DivideOnce
    <2> QED BY <1>2, <2>2
  <1>4. CASE p >= i
    <2> DEFINE j == p - i
    <2>1. j \in Nat /\ i + j = p /\ i + j <= DB /\ j \in 0..(WB - i - 1)
      BY <1>1, <1>4
    <2>2. Bit0(r \div d, j) = Bit0(r, p)
      <3> HIDE DEF r, j
      <3> QED BY <1>1, <1>2, <2>1, BitOfQuotient
    <2>3. Bit0(a, j) = Bit0(w, j)
      <3> HIDE DEF j
      <3> QED BY <1>1, <1>2, <2>1, BitOfRest
    <2> HIDE DEF a, r
    <2> QED BY <1>3, <1>4, <2>2, <2>3 DEF r
  <1>5. CASE ~(p >= i)
    <2>1. p \in 0..(i - 1) /\ (WB - i) + p <= DB /\ (WB - i) + p = p + WB - i
      BY <1>1, <1>5
    <2>2. Bit0(r % d, p) = Bit0(r, p)
      <3> HIDE DEF r
      <3> QED BY <1>1, <1>2, <2>1, BitOfRest
    <2>3. Bit0(b, p) = Bit0(w, p + WB - i)
      <3>1. Bit0(w \div 2^(WB - i), p) = Bit0(w, (WB - i) + p)
        BY <1>1, <1>2, <2>1, BitOfQuotient
      <3> QED BY <2>1, <3>1
    <2> HIDE DEF b, r
    <2> QED BY <1>3, <1>5, <2>2, <2>3 DEF r
  <1> QED BY <1>4, <1>5

\* rlwinm keeps the bits mb to me of the rotated word and nothing else.
LEMMA RotatedField ==
    ASSUME NEW w \in Words, NEW i \in 0..(WB - 1), NEW mb \in 0..(WB - 1), NEW me \in 0..(WB - 1),
           mb < me
    PROVE  LET x == ROTL32(w, i) & MASK(mb + WB, me + WB)
               bit(y, j) == (y \div 2^(WB - 1 - j)) % 2
           IN  /\ x \in Words /\ Hi(x) = 0
               /\ \A j \in 0..(WB - 1) :
                     bit(x, j) = IF j \in mb..me THEN bit(w, (j + i) % WB) ELSE 0
  <1> DEFINE r == ROTL32(w, i)
             u == WB - mb
             v == WB - 1 - me
             x == r & MASK(mb + WB, me + WB)
             bit(y, j) == (y \div 2^(WB - 1 - j)) % 2
  <1>1. /\ WB \in Nat /\ WB > 0 /\ DB = 2 * WB /\ i \in Int /\ i \in Nat
        /\ mb + WB \in 0..DB /\ me + WB \in 0..(DB - 1) /\ mb + WB < me + WB
        /\ DB - (mb + WB) = u /\ DB - 1 - (me + WB) = v
        /\ u \in 0..DB /\ v \in 0..u /\ u \in 0..WB /\ WB \in 0..DB
    BY Widths
  <1>2. MASK(mb + WB, me + WB) = 2^u - 2^v
    <2>1. MASK(mb + WB, me + WB) = 2^(DB - (mb + WB)) - 2^(DB - 1 - (me + WB))
      BY <1>1, MaskField
    <2> QED BY <1>1, <2>1
  <1>3. r \in Words /\ r \in Int
    BY <1>1, Rotates, CastWithin
  <1>4. x = (r % 2^u) - (r % 2^v)
    <2>1. (r & (2^u - 2^v)) = (r % 2^u) - (r % 2^v)
      <3> HIDE DEF r, u, v
      <3> QED BY <1>1, <1>3, AndField
    <2> QED BY <1>2, <2>1
  <1> HIDE DEF r, u, v
  <1>5. x \in 0..(WordSize - 1) /\ WordSize \in Nat /\ WordSize > 0
    <2>1. 0 \in 0..(DB - 1)
      BY <1>1
    <2>2. x \in 0..(2^u - 1)
      BY <1>1, <1>3, <1>4, <2>1, BitOfField
    <2>3. 2^u <= WordSize /\ 2^u \in Nat
      BY <1>1, PowerOrder, Powers DEF WordSize
    <2>4. WordSize \in Nat /\ WordSize > 0
      BY Sizes
    <2> HIDE DEF x
    <2> QED BY <2>2, <2>3, <2>4
  <1>6. x \in Words /\ Hi(x) = 0
    <2> HIDE DEF x
    <2> QED BY <1>5, Within, InSizes
  <1>7. ASSUME NEW j \in 0..(WB - 1)
        PROVE  bit(x, j) = IF j \in mb..me THEN bit(w, (j + i) % WB) ELSE 0
    <2> DEFINE p == WB - 1 - j
    <2>1. p \in 0..(WB - 1) /\ p \in 0..(DB - 1) /\ j \in Nat
      BY <1>1
    <2>2. Bit0(x, p) = IF v <= p /\ p < u THEN Bit0(r, p) ELSE 0
      <3> HIDE DEF p, x
      <3> QED BY <1>1, <1>3, <1>4, <2>1, BitOfField
    <2>3. v <= p /\ p < u <=> j \in mb..me
      BY <1>1 DEF u, v
    <2>4. Bit0(r, p) = bit(w, (j + i) % WB)
      <3>1. Bit0(r, p) = Bit0(w, IF p >= i THEN p - i ELSE p + WB - i)
        <4> HIDE DEF p
        <4> QED BY <2>1, BitOfRotated DEF r
      <3>2. CASE p >= i
        <4>1. j + i \in 0..(WB - 1) /\ p - i = WB - 1 - (j + i)
          BY <1>1, <2>1, <3>2
        <4>2. (j + i) % WB = j + i
          BY <1>1, <4>1, Within
        <4> QED BY <3>1, <3>2, <4>1, <4>2 DEF Bit0
      <3>3. CASE ~(p >= i)
        <4>1. j + i - WB \in 0..(WB - 1) /\ p + WB - i = WB - 1 - (j + i - WB)
              /\ j + i = 1 * WB + (j + i - WB) /\ 1 \in Int
          BY <1>1, <2>1, <3>3
        <4>2. (1 * WB + (j + i - WB)) % WB = j + i - WB
          BY <1>1, <4>1, DivideOnce
        <4> QED BY <3>1, <3>3, <4>1, <4>2 DEF Bit0
      <3> QED BY <3>2, <3>3
    <2>5. bit(x, j) = Bit0(x, p)
      BY DEF Bit0
    <2> HIDE DEF x, p, bit
    <2> QED BY <2>2, <2>3, <2>4, <2>5
  <1> QED BY <1>6, <1>7 DEF r

\* XER and CR while no instruction of a program has run, and after an mcrxr.
Started ==
    /\ k = 1 => DOMAIN xer = {"so", "ov", "ca"} /\ xer.ca \in BOOLEAN /\ DOMAIN cr = CrFields
    /\ (k = 2 /\ prog[1].op = "mcrxr") =>
          /\ 1 <= Len(prog) /\ gpr \in [Regs -> Doubles]
          /\ xer = [so |-> FALSE, ov |-> FALSE, ca |-> FALSE] /\ DOMAIN cr = CrFields

\* They are so in every run.
LEMMA StartedInvariance == (Init => Started) /\ (Begun /\ Started /\ [Next]_vars => Started')
  <1>1. ASSUME Init PROVE Started
    BY <1>1 DEF Init, Started
  <1>2. ASSUME Begun, Started, Next PROVE Started'
    <2>1. CASE Stops
      BY <1>2, <2>1 DEF Started, Stops
    <2>2. CASE Goes
      <3>1. CASE k = 1 /\ prog[1].op = "mcrxr"
        <4>1. mcrxr /\ ic = prog[1] /\ 1 <= Len(prog)
          BY <1>2, <3>1, IdiomaticActions DEF ic, Idiomatic
        <4>2. gpr' = gpr /\ xer' = [so |-> FALSE, ov |-> FALSE, ca |-> FALSE] /\ DOMAIN cr' = DOMAIN cr
          BY <4>1 DEF mcrxr, Complete
        <4> QED BY <1>2, <2>2, <3>1, <4>1, <4>2 DEF Begun, Started, Goes
      <3>2. CASE ~(k = 1 /\ prog[1].op = "mcrxr")
        BY <1>2, <2>2, <3>2 DEF Begun, Started, Goes
      <3> QED BY <3>1, <3>2
    <2> QED BY <1>2, <2>1, <2>2, Steps
  <1>3. Started /\ UNCHANGED vars => Started'
    BY DEF Started, vars
  <1> QED BY <1>1, <1>2, <1>3

\* Of a program that cleared XER first: its second instruction has all it needs.
LEMMA Cleared ==
    ASSUME Begun, Started, k = 2, prog[1].op = "mcrxr", 2 <= Len(prog)
    PROVE  /\ Supplied /\ ic = prog[2]
           /\ xer = [so |-> FALSE, ov |-> FALSE, ca |-> FALSE] /\ DOMAIN cr = CrFields
  BY DEF Begun, Started, Supplied, ic

---------------------------------------------------------------------------
(* Shifts and rotations *)

\* rlwinm of a word.
LEMMA MaskStep ==
    ASSUME Next, Supplied, ic.op = "rlwinm", ic.i \in 0..(WB - 1), ic.mb \in 0..(WB - 1),
           ic.me \in 0..(WB - 1), ic.mb < ic.me
    PROVE  /\ Goes
           /\ gpr' = [gpr EXCEPT ![ic.d] =
                         ROTL32(Lo(gpr[ic.a]), ic.i) & MASK(ic.mb + WB, ic.me + WB)]
  <1> DEFINE x == ROTL32(Lo(gpr[ic.a]), ic.i) & MASK(ic.mb + WB, ic.me + WB)
  <1>1. Rotate
    BY IdiomaticActions DEF Idiomatic
  <1>2. CompleteValue((ROTL32(Lo(REG1), ic.i) & RotateMask) | 0, xer)
    BY <1>1 DEF Rotate
  <1>3. Lo(gpr[ic.a]) \in Words /\ REG1 = gpr[ic.a]
    BY Supplies
  <1>4. x \in Words
    BY <1>3, RotatedField
  <1>5. (x | 0) = x
    <2>1. 0 \in 0..DB /\ x \in Int
      BY <1>4, Widths, CastWithin
    <2> HIDE DEF x
    <2> QED BY <2>1, AndLow
  <1>6. CompleteValue(x, xer)
    BY <1>2, <1>3, <1>5 DEF RotateMask
  <1> HIDE DEF x
  <1>7. Goes /\ gpr' = [gpr EXCEPT ![ic.d] = x]
    BY <1>6 DEF CompleteValue, Complete, Goes
  <1> QED BY <1>7 DEF x

\* The second instruction of a program that cleared XER first.
LEMMA ReferenceStep ==
    ASSUME Begun, Started, Next, Goes, k = 2, Len(prog) = 2, prog[1].op = "mcrxr",
           prog[2].d \notin {prog[2].a, prog[2].b},
           prog[2].op \in {"srawi", "rlwinm"} => prog[2].i \in 0..(WB - 1)
    PROVE  ShiftsMatchReference'
  <1> DEFINE i == prog[2]
             w == Lo(gpr[i.a])
             n == IF i.op = "srawi" THEN i.i ELSE gpr[i.b] % (2 * WB)
             result == gpr'[i.d]
             bit(x, j) == (x \div 2^(WB - 1 - j)) % 2
             lost == w >= MinW /\ w % 2^n # 0
  <1>1. Supplied /\ ic = i /\ xer = [so |-> FALSE, ov |-> FALSE, ca |-> FALSE]
    BY Cleared
  <1>2. n = Amount
    BY <1>1 DEF Amount
  <1>3. ASSUME i.op \in ShiftOps, n # WB - 1
        PROVE  /\ gpr' = [gpr EXCEPT ![i.d] = Shifted]
               /\ i.op \in {"sraw", "srawi"} => xer' = update_xer_ca(xer, lost)
    <2>1. ic.op \in ShiftOps /\ (ic.op = "srawi" => ic.i \in 0..(WB - 1)) /\ Amount # WB - 1
      BY <1>1, <1>2, <1>3
    <2>2. /\ gpr' = [gpr EXCEPT ![ic.d] = Shifted]
          /\ ic.op \in {"sraw", "srawi"} =>
                 xer' = update_xer_ca(xer, /\ Lo(gpr[ic.a]) >= MinW
                                           /\ Lo(gpr[ic.a]) % 2^Amount # 0)
      BY <1>1, <2>1, ShiftStep
    <2> QED BY <1>1, <1>2, <2>2
  <1>4. ASSUME i.op = "rlwinm", i.mb \in 0..(WB - 1), i.me \in 0..(WB - 1), i.mb < i.me
        PROVE  gpr' = [gpr EXCEPT ![i.d] = ROTL32(w, i.i) & MASK(i.mb + WB, i.me + WB)]
    BY <1>1, <1>4, MaskStep
  <1>5. ASSUME NEW v, gpr' = [gpr EXCEPT ![i.d] = v]
        PROVE  gpr'[i.d] = v /\ gpr'[i.a] = gpr[i.a] /\ gpr'[i.b] = gpr[i.b]
    BY <1>1, <1>5 DEF Supplied
  <1>6. prog' = prog
    BY DEF Goes
  <1>7. ASSUME i.op = "slw", n # WB - 1
        PROVE  gpr'[i.a] = gpr[i.a] /\ gpr'[i.b] = gpr[i.b] /\ result = ToW(w * 2^n)
    BY <1>1, <1>2, <1>3, <1>5, <1>7 DEF Shifted, ShiftOps
  <1>8. ASSUME i.op = "srw", n # WB - 1
        PROVE  gpr'[i.a] = gpr[i.a] /\ gpr'[i.b] = gpr[i.b] /\ result = w \div 2^n
    BY <1>1, <1>2, <1>3, <1>5, <1>8 DEF Shifted, ShiftOps
  <1>9. ASSUME i.op \in {"sraw", "srawi"}, n # WB - 1
        PROVE  /\ gpr'[i.a] = gpr[i.a] /\ gpr'[i.b] = gpr[i.b]
               /\ result = ToD(Signed(w, WB) \div 2^n)
               /\ xer'.ca = lost
    <2>1. Shifted = ToD(Signed(w, WB) \div 2^n)
      BY <1>1, <1>2, <1>9 DEF Shifted
    <2>2. gpr'[i.a] = gpr[i.a] /\ gpr'[i.b] = gpr[i.b] /\ result = Shifted
      BY <1>3, <1>5, <1>9 DEF ShiftOps
    <2>3. xer' = update_xer_ca(xer, lost)
      BY <1>3, <1>9 DEF ShiftOps
    <2>4. xer["ca"] = FALSE
      BY <1>1
    <2>5. xer'["ca"] = (xer["ca"] \/ lost)
      BY <2>3, Zenon DEF update_xer_ca
    <2>6. xer'["ca"] = lost
      BY <2>4, <2>5, Zenon
    <2> QED BY <2>1, <2>2, <2>6
  <1>10. ASSUME i.op = "rlwinm", i.mb \in 0..(WB - 1), i.me \in 0..(WB - 1), i.mb < i.me
         PROVE  /\ gpr'[i.a] = gpr[i.a] /\ Hi(result) = 0
                /\ \A j \in 0..(WB - 1) :
                      bit(result, j) = IF j \in i.mb..i.me THEN bit(w, (j + i.i) % WB) ELSE 0
    <2> DEFINE x == ROTL32(w, i.i) & MASK(i.mb + WB, i.me + WB)
    <2>1. gpr'[i.a] = gpr[i.a] /\ result = x
      BY <1>4, <1>5, <1>10
    <2>2. w \in Words /\ i.i \in 0..(WB - 1)
      BY <1>1, <1>10, Supplies
    <2>3. /\ Hi(x) = 0
          /\ \A j \in 0..(WB - 1) :
                bit(x, j) = IF j \in i.mb..i.me THEN bit(w, (j + i.i) % WB) ELSE 0
      <3> HIDE DEF w
      <3> QED BY <1>10, <2>2, RotatedField
    <2> HIDE DEF x
    <2> QED BY <2>1, <2>3
  <1>11. ASSUME i.op \in ShiftOps PROVE gpr'[i.a] = gpr[i.a] /\ gpr'[i.b] = gpr[i.b]
    <2>1. PICK v : gpr' = [gpr EXCEPT ![ic.d] = v]
      BY <1>1, <1>11, IdiomaticActions
      DEF ShiftOps, Idiomatic, ShiftLogical, ShiftAlgebraic, CompleteValue, Complete
    <2> QED BY <1>1, <1>5, <2>1
  <1> DEFINE v == Lo(gpr'[i.a])
             m == IF i.op = "srawi" THEN i.i ELSE gpr'[i.b] % (2 * WB)
  <1>12. /\ i.op \in ShiftOps => v = w /\ m = n
         /\ i.op = "rlwinm" /\ i.mb \in 0..(WB - 1) /\ i.me \in 0..(WB - 1) /\ i.mb < i.me => v = w
    BY <1>10, <1>11
  <1> HIDE DEF v, m, w, n, result, bit
  <1>13. (i.op = "slw" /\ m # WB - 1) => result = ToW(v * 2^m)
    BY <1>7, <1>12 DEF ShiftOps
  <1>14. (i.op = "srw" /\ m # WB - 1) => result = v \div 2^m
    BY <1>8, <1>12 DEF ShiftOps
  <1>15. (i.op \in {"sraw", "srawi"} /\ m # WB - 1) =>
           result = ToD(Signed(v, WB) \div 2^m) /\ xer'.ca = (v >= MinW /\ v % 2^m # 0)
    BY <1>9, <1>12, Zenon DEF ShiftOps
  <1>16. (i.op = "rlwinm" /\ i.mb \in 0..(WB - 1) /\ i.me \in 0..(WB - 1) /\ i.mb < i.me) =>
              /\ Hi(result) = 0
              /\ \A j \in 0..(WB - 1) :
                    bit(result, j) = IF j \in i.mb..i.me THEN bit(v, (j + i.i) % WB) ELSE 0
    BY <1>10, <1>12
  <1> QED BY <1>6, <1>13, <1>14, <1>15, <1>16, Zenon DEF ShiftsMatchReference, v, m, result, bit

\* ShiftsMatchReference: shifts by a word's width or less or more, and masked rotations, are
\* what the documents say of them, for words of any width.
THEOREM ShiftsMatch == Spec => []ShiftsMatchReference
  <1> DEFINE Inv == Begun /\ Started /\ ShiftsMatchReference
  <1>1. Init => Inv
    <2> SUFFICES ASSUME Init PROVE ShiftsMatchReference
      BY BegunInvariance, StartedInvariance
    <2> QED BY DEF Init, ShiftsMatchReference
  <1>2. Inv /\ [Next]_vars => Inv'
    <2> SUFFICES ASSUME Inv, [Next]_vars PROVE ShiftsMatchReference'
      BY BegunInvariance, StartedInvariance
    <2>1. CASE Goes /\ Next
      <3>1. CASE k = 2
        <4> DEFINE H == /\ Len(prog) = 2 /\ prog[1].op = "mcrxr"
                        /\ prog[2].d \notin {prog[2].a, prog[2].b}
                        /\ (prog[2].op \in {"srawi", "rlwinm"} => prog[2].i \in 0..(WB - 1))
        <4>1. CASE H
          BY <2>1, <3>1, <4>1, ReferenceStep
        <4>2. CASE ~H
          BY <2>1, <4>2 DEF ShiftsMatchReference, Goes
        <4> QED BY <4>1, <4>2
      <3>2. CASE k # 2
        <4>1. k' # 3
          BY <2>1, <3>2 DEF Goes, Begun
        <4> QED BY <4>1 DEF ShiftsMatchReference
      <3> QED BY <3>1, <3>2
    <2>2. CASE Stops \/ UNCHANGED vars
      <3>1. UNCHANGED <<gpr, prog, k, xer>>
        BY <2>2 DEF Stops, vars
      <3> QED BY <3>1, Zenon DEF ShiftsMatchReference
    <2> QED BY <2>1, <2>2, Steps
  <1>3. Inv => ShiftsMatchReference
    OBVIOUS
  <1> QED BY <1>1, <1>2, <1>3, PTL DEF Spec

---------------------------------------------------------------------------
(* Carries *)

\* The end of an instruction that takes its flags from the host's.
LEMMA HostEnd ==
    ASSUME NEW v, NEW f, CompleteHost(v, f, TRUE)
    PROVE  Goes /\ gpr' = [gpr EXCEPT ![ic.d] = v] /\ xer'.ca = (xer.ca \/ f.cf)
  <1> DEFINE x1 == update_xer_ca(xer, f.cf)
             x2 == IF ic.oe THEN update_xer_so_ov_host(x1, f) ELSE x1
  <1>1. xer' = x2 /\ gpr' = [gpr EXCEPT ![ic.d] = v] /\ Goes
    BY DEF CompleteHost, Complete, Goes
  <1>2. DOMAIN x1 = {"so", "ov", "ca"} /\ x1["ca"] = (xer["ca"] \/ f.cf)
    BY Zenon DEF update_xer_ca
  <1>3. x2["ca"] = x1["ca"]
    <2> HIDE DEF x1
    <2> QED BY <1>2 DEF update_xer_so_ov_host
  <1> HIDE DEF x1, x2
  <1> QED BY <1>1, <1>2, <1>3, Zenon

\* The word of a complement, and of a difference.
LEMMA Complements ==
    ASSUME NEW x \in Int
    PROVE  /\ ToW(Compl(x)) = WordSize - 1 - Lo(x) /\ Compl(x) \in Int
           /\ \A y \in Int : ToW(Compl(x) + y) = ToW(y - Lo(x) - 1)
  <1> DEFINE q == x \div WordSize
             l == x % WordSize
  <1>1. WordSize \in Nat /\ WordSize > 0 /\ DoubleSize = WordSize * WordSize /\ DoubleSize \in Nat
    BY Sizes
  <1>2. x = q * WordSize + l /\ l \in 0..(WordSize - 1) /\ q \in Int
    BY <1>1, Division
  <1> HIDE DEF q, l
  <1>3. Compl(x) = (WordSize - q - 1) * WordSize + (WordSize - 1 - l)
    <2>1. (WordSize - q - 1) * WordSize = WordSize * WordSize - q * WordSize - WordSize
      BY <1>1, <1>2
    <2>2. q * WordSize \in Int /\ Compl(x) = DoubleSize - 1 - x
      BY <1>1, <1>2, InSizes
    <2> QED BY <1>1, <1>2, <2>1, <2>2
  <1>4. WordSize - q - 1 \in Int /\ WordSize - 1 - l \in 0..(WordSize - 1)
    BY <1>1, <1>2
  <1>5. Compl(x) % WordSize = WordSize - 1 - l
    <2> DEFINE p == WordSize - q - 1
               r == WordSize - 1 - l
    <2>1. p \in Int /\ r \in 0..(WordSize - 1) /\ Compl(x) = p * WordSize + r
      BY <1>3, <1>4
    <2> HIDE DEF p, r
    <2>2. (p * WordSize + r) % WordSize = r
      BY <1>1, <2>1, DivideOnce
    <2> QED BY <2>1, <2>2 DEF r
  <1>6. Compl(x) \in Int
    BY <1>1, InSizes
  <1>7. ASSUME NEW y \in Int PROVE ToW(Compl(x) + y) = ToW(y - l - 1)
    <2>1. ToW(ToW(Compl(x)) + y) = ToW(Compl(x) + y)
      BY <1>6, CastOfSum
    <2>2. ToW(Compl(x)) = WordSize - 1 - l
      BY <1>5, InSizes
    <2> DEFINE z == y - l - 1
    <2>3. z \in Int /\ (WordSize - 1 - l) + y = z + 1 * WordSize
      BY <1>1, <1>2
    <2> DEFINE one == 1
    <2>4. one \in Int
      OBVIOUS
    <2> HIDE DEF z, one
    <2>5. (z + one * WordSize) % WordSize = z % WordSize
      BY <1>1, <2>3, <2>4, AddMultiple
    <2>6. (z + 1 * WordSize) % WordSize = z % WordSize
      BY <2>5 DEF one
    <2> QED BY <2>1, <2>2, <2>3, <2>6, InSizes DEF z
  <1> QED BY <1>5, <1>6, <1>7, InSizes DEF l

\* The successor of a word that has one.
LEMMA Successor1 ==
    ASSUME NEW x \in Int, Lo(x) # WordSize - 1
    PROVE  ToW(x + 1) = Lo(x) + 1
  <1> DEFINE l == Lo(x)
  <1>1. WordSize \in Nat /\ WordSize > 0 /\ l \in 0..(WordSize - 1)
    BY Sizes, Casts, InSizes
  <1>2. ToW(ToW(x) + 1) = ToW(x + 1) /\ ToW(x) = l
    BY Casts, CastOfSum
  <1> HIDE DEF l
  <1>3. l + 1 \in 0..(WordSize - 1)
    BY <1>1 DEF l
  <1>4. (l + 1) % WordSize = l + 1
    BY <1>1, <1>3, Within
  <1> QED BY <1>2, <1>4, InSizes DEF l

\* addc, adde and addze: the sum modulo the word, and the carry of addc. addze carries only
\* where a carry is: it keeps it.
LEMMA AddStep ==
    ASSUME Next, Supplied, ic.op \in {"addc", "adde", "addze"}
    PROVE  /\ Goes /\ CA \in {0, 1}
           /\ \E v \in Doubles :
                /\ gpr' = [gpr EXCEPT ![ic.d] = v]
                /\ ic.op = "addc" => Lo(v) = ToW(Lo(gpr[ic.a]) + Lo(gpr[ic.b]))
                /\ ic.op = "adde" => Lo(v) = ToW(Lo(gpr[ic.a]) + Lo(gpr[ic.b]) + CA)
                /\ ic.op = "addze" => v = ExtsW(ToW(gpr[ic.a] + CA))
           /\ ic.op = "addc" =>
                xer'.ca = (xer.ca \/ Lo(gpr[ic.a]) + Lo(gpr[ic.b]) >= WordSize)
           /\ (ic.op = "addze" /\ xer.ca \in BOOLEAN) => xer'.ca = xer.ca
  <1> DEFINE y == Addend(ic.op)
             f == x86_add(REG1, y)
             v == ExtsW(ToW(REG1 + y))
  <1>1. /\ REG1 \in Int /\ REG1 = gpr[ic.a] /\ Lo(REG1) \in Words /\ Lo(REG1) \in Int
        /\ REG2 \in Int /\ REG2 = gpr[ic.b] /\ Lo(REG2) \in Words /\ Lo(REG2) \in Int
    BY Supplies, CastWithin
  <1>2. CA \in {0, 1}
    BY DEF CA, Bit
  <1>3. CompleteHost(ExtsW(f.r), f, TRUE)
    <2>1. Add
      BY IdiomaticActions DEF Idiomatic
    <2>2. /\ (IF ic.op \in {"addi", "addis"} /\ ic.a = 0 THEN 0 ELSE REG1) = REG1
          /\ (ic.op \in {"addc", "adde", "addic", "addme", "addze"}) = TRUE
      BY Zenon
    <2> QED BY <2>1, <2>2 DEF Add
  <1>4. f.r = ToW(REG1 + y) /\ f.cf = (ToW(REG1) + ToW(y) >= WordSize)
    BY Zenon DEF x86_add, Flags, WordSize
  <1>5. Goes /\ gpr' = [gpr EXCEPT ![ic.d] = v] /\ xer'.ca = (xer.ca \/ f.cf)
    <2> HIDE DEF f
    <2> QED BY <1>3, <1>4, HostEnd
  <1>6. y \in Int
    <2>1. ToW(REG2 + CA) \in Words
      BY <1>1, <1>2, Casts
    <2> QED BY <1>1, <1>2, <2>1, CastWithin DEF Addend
  <1>7. v \in Doubles /\ Lo(v) = ToW(REG1 + y)
    <2>1. REG1 + y \in Int
      BY <1>1, <1>6
    <2> HIDE DEF y
    <2>2. ToW(REG1 + y) \in Words /\ ToW(REG1 + y) \in Int
      BY <2>1, Casts, CastWithin
    <2> QED BY <2>2, Extended, CastWithin
  <1>8. ASSUME ic.op \in {"addc", "adde"}
        PROVE  Lo(v) = ToW(Lo(REG1) + Lo(REG2) + (IF ic.op = "adde" THEN CA ELSE 0))
    <2> DEFINE c == IF ic.op = "adde" THEN CA ELSE 0
               s == REG2 + c
    <2>1. c \in Int
      BY <1>2
    <2>2. y = (IF ic.op = "adde" THEN ToW(s) ELSE s)
      BY <1>1, <1>8 DEF Addend
    <2> HIDE DEF c, y
    <2>3. s \in Int /\ Lo(REG1) + c \in Int /\ (Lo(REG1) + c) + REG2 = Lo(REG1) + s
          /\ (Lo(REG1) + c) + Lo(REG2) = Lo(REG1) + Lo(REG2) + c
      BY <1>1, <2>1
    <2> HIDE DEF s
    <2>4. ToW(REG1 + ToW(s)) = ToW(REG1 + s)
      BY <1>1, <2>3, CastOfSum
    <2>5. ToW(REG1 + y) = ToW(REG1 + s)
      BY <2>2, <2>4
    <2>6. ToW(ToW(REG1) + s) = ToW(REG1 + s) /\ Lo(REG1) = ToW(REG1) /\ Lo(REG2) = ToW(REG2)
      BY <1>1, <2>3, CastOfSum, Casts
    <2>7. ToW((Lo(REG1) + c) + ToW(REG2)) = ToW((Lo(REG1) + c) + REG2)
      BY <1>1, <2>3, CastOfSum
    <2> QED BY <1>7, <2>3, <2>5, <2>6, <2>7 DEF c
  <1>9. ic.op = "addc" => f.cf = (Lo(REG1) + Lo(REG2) >= WordSize)
    <2>1. ic.op = "addc" => y = REG2
      BY DEF Addend
    <2>2. ToW(REG1) = Lo(REG1) /\ ToW(REG2) = Lo(REG2)
      BY <1>1, Casts
    <2> HIDE DEF y, f
    <2> QED BY <1>4, <2>1, <2>2, Zenon
  <1>10. ic.op = "addze" => y = CA
    BY DEF Addend
  <1> HIDE DEF f
  <1>11. ic.op = "addc" => Lo(v) = ToW(Lo(REG1) + Lo(REG2))
    BY <1>1, <1>8
  <1>12. ic.op = "adde" => Lo(v) = ToW(Lo(REG1) + Lo(REG2) + CA)
    BY <1>8
  <1>13. ic.op = "addze" => v = ExtsW(ToW(REG1 + CA))
    BY <1>10
  <1>14. ic.op = "addc" => xer'.ca = (xer.ca \/ Lo(REG1) + Lo(REG2) >= WordSize)
    BY <1>5, <1>9, Zenon
  <1>15. ASSUME ic.op = "addze", xer.ca \in BOOLEAN PROVE xer'.ca = xer.ca
    <2>1. CASE xer.ca
      BY <1>5, <2>1, Zenon
    <2>2. CASE ~xer.ca
      <3>1. y = 0
        BY <1>10, <1>15, <2>2 DEF CA, Bit
      <3>2. ToW(REG1) \in 0..(WordSize - 1) /\ 0 \in 0..(WordSize - 1)
        BY <1>1, Casts, InSizes, Sizes
      <3>3. ToW(0) = 0
        BY <3>2, CastWithin, InSizes
      <3>4. ~(ToW(REG1) + ToW(y) >= WordSize)
        <4> HIDE DEF y
        <4>1. ToW(y) = 0
          BY <3>1, <3>3
        <4> QED BY <3>2, <4>1, Sizes
      <3> HIDE DEF y, f
      <3>5. ~f.cf
        BY <1>4, <3>4, Zenon
      <3> QED BY <1>5, <1>15, <2>2, <3>5, Zenon
    <2> QED BY <1>15, <2>1, <2>2
  <1> HIDE DEF v, y
  <1> QED BY <1>1, <1>2, <1>5, <1>7, <1>11, <1>12, <1>13, <1>14, <1>15, Zenon

\* subfc and subfe: the difference modulo the word, and the carry of subfc, which says that
\* nothing was borrowed.
LEMMA SubtractStep ==
    ASSUME Next, Supplied, ic.op \in {"subfc", "subfe"}
    PROVE  /\ Goes /\ CA \in {0, 1}
           /\ \E v \in Doubles :
                /\ gpr' = [gpr EXCEPT ![ic.d] = v]
                /\ ic.op = "subfc" => Lo(v) = ToW(Lo(gpr[ic.b]) - Lo(gpr[ic.a]))
                /\ ic.op = "subfe" => Lo(v) = ToW(Lo(gpr[ic.b]) - Lo(gpr[ic.a]) - 1 + CA)
           /\ (ic.op = "subfc" /\ Lo(gpr[ic.b]) # WordSize - 1) =>
                xer'.ca = (xer.ca \/ Lo(gpr[ic.b]) >= Lo(gpr[ic.a]))
           /\ (ic.op = "subfc" /\ Lo(gpr[ic.b]) = WordSize - 1 /\ xer.ca \in BOOLEAN) =>
                xer'.ca = xer.ca
  <1> DEFINE c == Compl(REG1)
             y == Minuend(ic.op)
             f == x86_add(c, y)
             v == ExtsW(ToW(c + y))
             l1 == Lo(REG1)
             l2 == Lo(REG2)
  <1>1. /\ REG1 \in Int /\ REG1 = gpr[ic.a] /\ l1 \in Words /\ l1 \in Int
        /\ REG2 \in Int /\ REG2 = gpr[ic.b] /\ l2 \in Words /\ l2 \in Int /\ l2 = ToW(REG2)
    BY Supplies, CastWithin, Casts
  <1>2. CA \in {0, 1}
    BY DEF CA, Bit
  <1>3. c \in Int /\ ToW(c) = WordSize - 1 - l1 /\ \A z \in Int : ToW(c + z) = ToW(z - l1 - 1)
    BY <1>1, Complements
  <1>4. CompleteHost(ExtsW(f.r), f, TRUE)
    <2>1. Subtract
      BY IdiomaticActions DEF Idiomatic
    <2>2. (ic.op # "subf") = TRUE
      OBVIOUS
    <2> QED BY <2>1, <2>2 DEF Subtract
  <1>5. f.r = ToW(c + y) /\ f.cf = (ToW(c) + ToW(y) >= WordSize)
    <2> HIDE DEF c, y
    <2> QED BY Zenon DEF x86_add, Flags, WordSize
  <1>6. Goes /\ gpr' = [gpr EXCEPT ![ic.d] = v] /\ xer'.ca = (xer.ca \/ f.cf)
    <2> HIDE DEF f, c, y
    <2> QED BY <1>4, <1>5, HostEnd
  <1>7. y = (IF ic.op = "subfc" THEN REG2 + 1 ELSE ToW(CA + REG2))
    BY DEF Minuend
  <1>8. ToW(CA + REG2) \in Int
    <2> DEFINE s == CA + REG2
    <2>1. s \in Int
      BY <1>1, <1>2
    <2> HIDE DEF s
    <2>2. ToW(s) \in Int
      BY <2>1, Casts, CastWithin
    <2> QED BY <2>2 DEF s
  <1>9. y \in Int
    BY <1>1, <1>7, <1>8
  <1>10. v \in Doubles /\ Lo(v) = ToW(y - l1 - 1)
    <2>1. c + y \in Int
      BY <1>3, <1>9
    <2> HIDE DEF c, y
    <2>2. ToW(c + y) \in Words /\ ToW(c + y) \in Int
      BY <2>1, Casts, CastWithin
    <2> QED BY <1>3, <1>9, <2>2, Extended, CastWithin
  <1>11. ic.op = "subfc" => Lo(v) = ToW(l2 - l1)
    <2>1. ic.op = "subfc" => y - l1 - 1 = REG2 - l1
      BY <1>1, <1>7
    <2>2. ToW(ToW(REG2) - l1) = ToW(REG2 - l1)
      BY <1>1, CastOfSum
    <2> HIDE DEF v, l1, l2, y
    <2> QED BY <1>1, <1>10, <2>1, <2>2
  <1>12. ASSUME ic.op = "subfe" PROVE Lo(v) = ToW(l2 - l1 - 1 + CA)
    <2> DEFINE s == CA + REG2
               t == l1 + 1
               u == CA - t
    <2>1. s \in Int /\ t \in Int /\ u \in Int
      BY <1>1, <1>2
    <2>2. y = ToW(s) /\ ToW(s) \in Int
      BY <1>7, <1>8, <1>12
    <2>3. y - l1 - 1 = ToW(s) - t
      BY <1>1, <2>2
    <2>4. s - t = REG2 + u /\ l2 + u = l2 - l1 - 1 + CA
      BY <1>1, <1>2
    <2> HIDE DEF v, l1, l2, y, s, t, u
    <2>5. ToW(ToW(s) - t) = ToW(s - t)
      BY <2>1, CastOfSum
    <2>6. ToW(ToW(REG2) + u) = ToW(REG2 + u)
      BY <1>1, <2>1, CastOfSum
    <2> QED BY <1>1, <1>10, <2>3, <2>4, <2>5, <2>6
  <1>13. ASSUME ic.op = "subfc", l2 # WordSize - 1 PROVE f.cf = (l2 >= l1)
    <2>1. y = REG2 + 1
      BY <1>7, <1>13
    <2>2. ToW(REG2 + 1) = l2 + 1
      <3>1. Lo(REG2) # WordSize - 1
        BY <1>13
      <3> QED BY <1>1, <3>1, Successor1
    <2>3. (WordSize - 1 - l1) + (l2 + 1) >= WordSize <=> l2 >= l1
      BY <1>1, Sizes
    <2> HIDE DEF c, y, f, l1, l2
    <2>4. f.cf = ((WordSize - 1 - l1) + (l2 + 1) >= WordSize)
      BY <1>3, <1>5, <2>1, <2>2
    <2> QED BY <2>3, <2>4
  <1>15. ASSUME ic.op = "subfc", l2 = WordSize - 1, xer.ca \in BOOLEAN PROVE xer'.ca = xer.ca
    <2>1. y = REG2 + 1
      BY <1>7, <1>15
    <2>2. ToW(REG2 + 1) = 0
      <3>1. ToW(ToW(REG2) + 1) = ToW(REG2 + 1) /\ ToW(REG2) = WordSize - 1
        <4>1. 1 \in Int /\ REG2 \in Int
          BY <1>1
        <4>2. ToW(ToW(REG2) + 1) = ToW(REG2 + 1)
          BY <4>1, CastOfSum
        <4>3. ToW(REG2) = WordSize - 1
          BY <1>1, <1>15
        <4> QED BY <4>2, <4>3
      <3>2. ToW((WordSize - 1) + 1) = 0
        <4>1. (WordSize - 1) + 1 = 1 * WordSize + 0 /\ 0 \in 0..(WordSize - 1)
          BY Sizes
        <4>2. WordSize \in Nat /\ WordSize > 0
          BY Sizes
        <4>3. (1 * WordSize + 0) % WordSize = 0
          BY <4>1, <4>2, DivideOnce
        <4> QED BY <4>1, <4>3, InSizes
      <3> QED BY <3>1, <3>2
    <2>3. ~((WordSize - 1 - l1) + 0 >= WordSize)
      <3>1. l1 \in 0..(WordSize - 1)
        BY <1>1, InSizes
      <3> HIDE DEF l1
      <3> QED BY <3>1, Sizes
    <2> HIDE DEF c, y, f, l1, l2
    <2>4. ~f.cf
      BY <1>3, <1>5, <2>1, <2>2, <2>3
    <2> QED BY <1>6, <1>15, <2>4
  <1> HIDE DEF v, f, l1, l2
  <1>14. (ic.op = "subfc" /\ l2 # WordSize - 1) => xer'.ca = (xer.ca \/ l2 >= l1)
    BY <1>6, <1>13, Zenon
  <1> QED BY <1>1, <1>2, <1>6, <1>10, <1>11, <1>12, <1>14, <1>15, Zenon DEF l1, l2

\* The two words of h * 2^WB + l: what l is above a word is carried into the high one.
LEMMA Carries ==
    ASSUME NEW h \in Int, NEW l \in Int
    PROVE  ToD(h * WordSize + l) = ToW(h + (l \div WordSize)) * WordSize + ToW(l)
  <1> DEFINE q == l \div WordSize
             r == l % WordSize
             s == h + q
             p == s \div WordSize
             t == s % WordSize
             low == t * WordSize + r
  <1>1. WordSize \in Nat /\ WordSize > 0 /\ DoubleSize = WordSize * WordSize /\ DoubleSize \in Nat
        /\ DoubleSize > 0
    BY Sizes
  <1>2. l = q * WordSize + r /\ r \in 0..(WordSize - 1) /\ q \in Int
    BY <1>1, Division
  <1>3. s \in Int
    BY <1>2
  <1> HIDE DEF q, r
  <1>4. s = p * WordSize + t /\ t \in 0..(WordSize - 1) /\ p \in Int
    <2> HIDE DEF s
    <2> QED BY <1>1, <1>3, Division
  <1>5. h * WordSize + l = s * WordSize + r
    BY <1>1, <1>2
  <1> HIDE DEF s, p, t
  <1>6. low \in 0..(DoubleSize - 1)
    <2>1. t * WordSize \in Int /\ t * WordSize >= 0
      BY <1>1, <1>4
    <2>2. t * WordSize <= (WordSize - 1) * WordSize
      BY <1>1, <1>4
    <2>3. (WordSize - 1) * WordSize = DoubleSize - WordSize
      BY <1>1
    <2> QED BY <1>1, <1>2, <2>1, <2>2, <2>3
  <1>7. s * WordSize + r = p * DoubleSize + low
    <2>1. s * WordSize = (p * WordSize) * WordSize + t * WordSize
      BY <1>1, <1>4
    <2>2. (p * WordSize) * WordSize = p * DoubleSize
      BY <1>1, <1>4
    <2>3. p * DoubleSize \in Int /\ t * WordSize \in Int
      BY <1>1, <1>4, Times
    <2> QED BY <1>2, <2>1, <2>2, <2>3
  <1> HIDE DEF low
  <1>8. (p * DoubleSize + low) % DoubleSize = low
    BY <1>1, <1>4, <1>6, DivideOnce
  <1> QED BY <1>5, <1>7, <1>8, InSizes DEF low, s, t, r, q

\* Sums and differences of two words in two words, with e more in the high one.
LEMMA TwoWordSums ==
    ASSUME NEW ah \in Words, NEW al \in Words, NEW bh \in Words, NEW bl \in Words, NEW e \in Int
    PROVE  /\ ToD((ah * WordSize + al) + (bh * WordSize + bl) + e * WordSize)
                = ToW(ah + bh + (Bit(al + bl >= WordSize) + e)) * WordSize + ToW(al + bl)
           /\ ToD((bh * WordSize + bl) - (ah * WordSize + al) + e * WordSize)
                = ToW(bh - ah - 1 + (Bit(bl >= al) + e)) * WordSize + ToW(bl - al)
  <1> DEFINE s == al + bl
             h == ah + bh + e
             d == bl - al
             g == bh - ah + e
  <1>1. WordSize \in Nat /\ WordSize > 0
    BY Sizes
  <1>2. /\ ah \in 0..(WordSize - 1) /\ al \in 0..(WordSize - 1)
        /\ bh \in 0..(WordSize - 1) /\ bl \in 0..(WordSize - 1)
    BY InSizes
  <1>3. s \in Int /\ h \in Int /\ d \in Int /\ g \in Int
    BY <1>1, <1>2
  <1>4. s \div WordSize = Bit(s >= WordSize)
    <2>1. CASE s >= WordSize
      <3> DEFINE r == s - WordSize
      <3>1. r \in 0..(WordSize - 1) /\ 1 \in Int /\ s = 1 * WordSize + r
        BY <1>1, <1>2, <2>1
      <3> HIDE DEF r, s
      <3>2. (1 * WordSize + r) \div WordSize = 1
        BY <1>1, <3>1, DivideOnce
      <3> QED BY <2>1, <3>1, <3>2 DEF Bit
    <2>2. CASE ~(s >= WordSize)
      <3>1. s \in 0..(WordSize - 1)
        BY <1>1, <1>2, <2>2
      <3> HIDE DEF s
      <3> QED BY <1>1, <2>2, <3>1, Within DEF Bit
    <2> QED BY <2>1, <2>2
  <1>5. d \div WordSize = Bit(bl >= al) - 1
    <2>1. CASE bl >= al
      <3>1. d \in 0..(WordSize - 1)
        BY <1>1, <1>2, <2>1
      <3> HIDE DEF d
      <3>2. d \div WordSize = 0
        BY <1>1, <3>1, Within
      <3> QED BY <2>1, <3>2 DEF Bit
    <2>2. CASE ~(bl >= al)
      <3> DEFINE r == d + WordSize
                 m == -1
      <3>1. r \in 0..(WordSize - 1) /\ m \in Int /\ d = m * WordSize + r
        BY <1>1, <1>2, <2>2
      <3> HIDE DEF r, d, m
      <3>2. (m * WordSize + r) \div WordSize = m
        BY <1>1, <3>1, DivideOnce
      <3> QED BY <2>2, <3>1, <3>2 DEF Bit, m
    <2> QED BY <2>1, <2>2
  <1>6. (ah * WordSize + al) + (bh * WordSize + bl) + e * WordSize = h * WordSize + s
    BY <1>1, <1>2
  <1>7. (bh * WordSize + bl) - (ah * WordSize + al) + e * WordSize = g * WordSize + d
    BY <1>1, <1>2
  <1>8. Bit(bl >= al) \in Int /\ Bit(al + bl >= WordSize) \in Int
    BY DEF Bit
  <1>9. h + Bit(s >= WordSize) = ah + bh + (Bit(al + bl >= WordSize) + e)
    BY <1>2, <1>8
  <1>10. g + (Bit(bl >= al) - 1) = bh - ah - 1 + (Bit(bl >= al) + e)
    BY <1>2, <1>8
  <1> HIDE DEF s, h, d, g
  <1>11. ToD(h * WordSize + s) = ToW(h + (s \div WordSize)) * WordSize + ToW(s)
    BY <1>3, Carries
  <1>12. ToD(g * WordSize + d) = ToW(g + (d \div WordSize)) * WordSize + ToW(d)
    BY <1>3, Carries
  <1>13. ToD((ah * WordSize + al) + (bh * WordSize + bl) + e * WordSize)
                = ToW(ah + bh + (Bit(al + bl >= WordSize) + e)) * WordSize + ToW(al + bl)
    BY <1>4, <1>6, <1>9, <1>11 DEF s
  <1>14. ToD((bh * WordSize + bl) - (ah * WordSize + al) + e * WordSize)
                = ToW(bh - ah - 1 + (Bit(bl >= al) + e)) * WordSize + ToW(bl - al)
    BY <1>5, <1>7, <1>10, <1>12 DEF d
  <1> QED BY <1>13, <1>14

\* The product of two words fits two words: OV of mullwo says that it fits no word.
LEMMA ProductOfWords ==
    ASSUME NEW a \in (-MinW)..MaxW, NEW b \in (-MinW)..MaxW
    PROVE  LET p == a * b
               d == ToD(p)
           IN  /\ p \in Int /\ d \in Doubles /\ d \in Int
               /\ d # ExtsW(Lo(d)) <=> p \notin (-MinW)..MaxW
  <1> DEFINE p == a * b
             q == MinW * MinW
             d == ToD(p)
             s == Signed(Lo(d), WB)
  <1>1. MinW \in Nat /\ MinW > 1 /\ MaxW = MinW - 1 /\ DoubleSize = 4 * q /\ q \in Nat /\ q > MinW
    <2>1. MinW \in Nat /\ MinW > 1 /\ MaxW = MinW - 1 /\ WordSize = 2 * MinW
          /\ DoubleSize = WordSize * WordSize
      BY Sizes
    <2>2. DoubleSize = 4 * q /\ q \in Nat
      BY <2>1
    <2>3. q > MinW
      BY <2>1
    <2> QED BY <2>1, <2>2, <2>3
  <1>2. p \in Int /\ p >= -q /\ p <= q
    <2>1. a \in (-MinW)..(MinW - 1) /\ b \in (-MinW)..(MinW - 1) /\ MinW > 0
      BY <1>1
    <2> QED BY <1>1, <2>1, SignedProduct
  <1>3. 2^(DB - 1) = 2 * q /\ DB \in 1..DB
    <2>1. DB \in 1..DB
      BY Widths
    <2>2. 2^DB = 2 * 2^(DB - 1) /\ 2^(DB - 1) \in Nat
      BY <2>1, Doubling, Powers, Widths
    <2> DEFINE e == 2^(DB - 1)
    <2>3. DoubleSize = 2 * e /\ e \in Nat
      BY <2>2 DEF DoubleSize
    <2> HIDE DEF e, q
    <2>4. e = 2 * q
      BY <1>1, <2>3
    <2> QED BY <2>1, <2>4 DEF e
  <1> HIDE DEF p, q
  <1>4. d \in Doubles /\ d \in Int /\ Lo(d) \in Int /\ Lo(d) = ToW(p)
    BY <1>2, Casts, CastWithin
  <1>5. s \in (-MinW)..MaxW /\ s \in Int /\ \A t \in (-MinW)..MaxW : ToW(t) = ToW(Lo(d)) => s = t
    BY <1>4, SignedWord
  <1>6. ToW(Lo(d)) = ToW(p)
    BY <1>2, <1>4, Casts, CastWithin
  <1>7. ExtsW(Lo(d)) = ToD(s)
    BY DEF ExtsW
  <1> HIDE DEF s
  <1>8. p \in (-MinW)..MaxW => d = ToD(s)
    BY <1>5, <1>6
  <1>9. ASSUME d = ToD(s) PROVE p \in (-MinW)..MaxW
    <2>1. p % 2^DB = s % 2^DB
      BY <1>9 DEF ToD
    <2>2. p \in (-2^(DB - 1))..(2^(DB - 1) - 1) /\ s \in (-2^(DB - 1))..(2^(DB - 1) - 1)
      <3>1. p \in (-(2 * q))..(2 * q - 1) /\ s \in (-(2 * q))..(2 * q - 1)
        BY <1>1, <1>2, <1>5
      <3> QED BY <1>3, <3>1
    <2>3. Signed(p, DB) = s
      BY <1>2, <1>3, <2>1, <2>2, SignedField
    <2>4. Signed(p, DB) = p
      BY <1>2, <1>3, <2>2, SignedField
    <2> QED BY <1>5, <2>3, <2>4
  <1>10. d # ExtsW(Lo(d)) <=> p \notin (-MinW)..MaxW
    BY <1>7, <1>8, <1>9
  <1> QED BY <1>2, <1>4, <1>10 DEF p

\* mullw and mulhw: the halves of the product, and OV.
LEMMA MultiplyStep ==
    ASSUME Next, Supplied, ic.op \in {"mullw", "mulhw"}
    PROVE  LET p == Signed(gpr[ic.a], WB) * Signed(gpr[ic.b], WB)
           IN  /\ Goes /\ p \in Int
               /\ \E v \in Doubles :
                    /\ gpr' = [gpr EXCEPT ![ic.d] = v]
                    /\ ic.op = "mullw" => Lo(v) = Lo(ToD(p))
                    /\ ic.op = "mulhw" => Lo(v) = Hi(ToD(p))
               /\ (ic.oe /\ "ov" \in DOMAIN xer) => xer'.ov = (p \notin (-MinW)..MaxW)
               /\ ~ic.oe => xer' = xer
               /\ DOMAIN xer' = DOMAIN xer
  <1> DEFINE a == Signed(gpr[ic.a], WB)
             b == Signed(gpr[ic.b], WB)
             p == a * b
             d == ToD(p)
             v == IF ic.op = "mullw" THEN ExtsW(Lo(d)) ELSE ExtsW(Hi(d))
             over == d # ExtsW(Lo(d))
  <1>1. REG1 \in Int /\ REG1 = gpr[ic.a] /\ REG2 \in Int /\ REG2 = gpr[ic.b]
    BY Supplies
  <1>2. a \in (-MinW)..MaxW /\ b \in (-MinW)..MaxW
    BY <1>1, SignedWord
  <1>3. x86_imul(REG1, REG2) = d
    BY <1>1 DEF x86_imul
  <1>4. CompleteValue(v, IF ic.oe THEN update_xer_so_ov_host(xer, [of |-> over]) ELSE xer)
    <2>1. Multiply
      BY IdiomaticActions DEF Idiomatic
    <2>2. Product(ic.op) = v
      BY <1>3 DEF Product
    <2> HIDE DEF v
    <2> QED BY <1>3, <2>1, <2>2 DEF Multiply
  <1> HIDE DEF a, b
  <1>5. /\ p \in Int /\ d \in Doubles /\ d \in Int
        /\ over <=> p \notin (-MinW)..MaxW
    BY <1>2, ProductOfWords
  <1> HIDE DEF p
  <1>6. Lo(d) \in Words /\ Hi(d) \in Words
    BY <1>5, Unpacked
  <1>7. v \in Doubles /\ (ic.op = "mullw" => Lo(v) = Lo(d)) /\ (ic.op = "mulhw" => Lo(v) = Hi(d))
    <2> DEFINE l == Lo(d)
               h == Hi(d)
    <2>1. l \in Int /\ h \in Int /\ ToW(l) = l /\ ToW(h) = h
      BY <1>6, CastWithin
    <2> HIDE DEF l, h
    <2>2. /\ ExtsW(l) \in Doubles /\ Lo(ExtsW(l)) = l
          /\ ExtsW(h) \in Doubles /\ Lo(ExtsW(h)) = h
      BY <2>1, Extended
    <2> QED BY <2>2 DEF l, h
  <1> HIDE DEF v, d, over
  <1>8. /\ Goes /\ gpr' = [gpr EXCEPT ![ic.d] = v]
        /\ xer' = IF ic.oe THEN update_xer_so_ov_host(xer, [of |-> over]) ELSE xer
    BY <1>4 DEF CompleteValue, Complete, Goes
  <1>9. ~ic.oe => xer' = xer
    BY <1>8
  <1>10. ic.oe => xer' = [xer EXCEPT !.so = over, !.ov = over]
    BY <1>8 DEF update_xer_so_ov_host
  <1>11. DOMAIN xer' = DOMAIN xer
    BY <1>9, <1>10
  <1>12. (ic.oe /\ "ov" \in DOMAIN xer) => xer'.ov = over
    BY <1>10
  <1>13. over = (p \notin (-MinW)..MaxW)
    BY <1>5, Zenon DEF over
  <1>14. (ic.oe /\ "ov" \in DOMAIN xer) => xer'.ov = (p \notin (-MinW)..MaxW)
    BY <1>12, <1>13, Zenon
  <1> QED BY <1>5, <1>7, <1>8, <1>9, <1>11, <1>14, Zenon DEF p, a, b, d

\* A division by a power of two, toward zero: what its rounding down lacks when it is not exact.
LEMMA TowardZero ==
    ASSUME NEW w \in Words, NEW n \in 0..(WB - 2)
    PROVE  LET s == Signed(w, WB)
               t == (s \div 2^n) + Bit(w >= MinW /\ w % 2^n # 0)
           IN  s \div 2^n \in Int /\ Quotient(s, 2^n) = t /\ t \in (-MinW)..MaxW
  <1> DEFINE s == Signed(w, WB)
             d == 2^n
             q == s \div d
             r == s % d
             e == 2^(WB - n)
  <1>1. /\ n \in 0..WB /\ WB \in 0..DB /\ MinW \in Nat /\ WordSize = 2 * MinW
        /\ MaxW = MinW - 1 /\ w \in 0..(WordSize - 1)
    BY Sizes, InSizes, Widths
  <1>2. d \in Nat /\ d > 0 /\ e \in Nat /\ WordSize = e * d
    BY <1>1, PowerMultiple DEF WordSize
  <1>3. s = IF w >= MinW THEN w - WordSize ELSE w
    BY SignedOfWord
  <1> HIDE DEF s, d, e
  <1>4. s \in Int /\ (s < 0 <=> w >= MinW) /\ s \in (-MinW)..MaxW
    BY <1>1, <1>3
  <1>5. s = q * d + r /\ r \in 0..(d - 1) /\ q \in Int
    BY <1>2, <1>4, Division
  <1>6. w % d = r
    <2>1. CASE w >= MinW
      <3>1. w = s + e * d /\ e \in Int
        BY <1>1, <1>2, <1>3, <2>1
      <3>2. (s + e * d) % d = s % d
        BY <1>2, <1>4, <3>1, AddMultiple
      <3> QED BY <3>1, <3>2
    <2>2. CASE ~(w >= MinW)
      BY <1>3, <2>2
    <2> QED BY <2>1, <2>2
  <1> DEFINE c == Bit(w >= MinW /\ w % d # 0)
             t == q + c
  <1>7. c = IF s < 0 /\ r # 0 THEN 1 ELSE 0
    BY <1>4, <1>6 DEF Bit
  <1>8. Quotient(s, d) = IF s < 0 THEN -((-s) \div d) ELSE s \div d
    BY <1>2, <1>4 DEF Quotient
  <1> HIDE DEF q, r, c
  <1>9. CASE s >= 0
    <2>1. q >= 0
      <3> SUFFICES ASSUME q < 0 PROVE FALSE
        BY <1>5
      <3>1. (-1 - q) * d >= 0 /\ (-1 - q) * d = -d - q * d /\ q * d \in Int
        BY <1>2, <1>5
      <3> QED BY <1>2, <1>5, <1>9, <3>1
    <2>2. q * (d - 1) >= 0 /\ q * (d - 1) = q * d - q /\ q * d \in Int
      BY <1>2, <1>5, <2>1
    <2>3. q <= s
      BY <1>5, <1>2, <2>2
    <2>4. t = q /\ t \in (-MinW)..MaxW
      BY <1>1, <1>4, <1>5, <1>7, <1>9, <2>1, <2>3
    <2>5. Quotient(s, d) = q
      BY <1>4, <1>8, <1>9 DEF q
    <2> QED BY <1>5, <2>4, <2>5 DEF s, d, q, c
  <1>10. CASE s < 0
    <2>1. q < 0
      <3> SUFFICES ASSUME q >= 0 PROVE FALSE
        BY <1>5
      <3>1. q * d >= 0 /\ q * d \in Int
        BY <1>2, <1>5
      <3> QED BY <1>2, <1>5, <1>10, <3>1
    <2>2. q >= s
      <3>1. (-1 - q) * (d - 1) >= 0 /\ (-1 - q) * (d - 1) = -d + 1 - q * d + q /\ q * d \in Int
        BY <1>2, <1>5, <2>1
      <3> QED BY <1>2, <1>5, <3>1
    <2>3. t \in (-MinW)..MaxW
      BY <1>1, <1>4, <1>5, <1>7, <2>1, <2>2
    <2> DEFINE p == -q - c
               m == IF r = 0 THEN 0 ELSE d - r
    <2>4. p \in Int /\ m \in 0..(d - 1) /\ -s = p * d + m
      <3>1. CASE r = 0
        <4>1. c = 0 /\ p = -q /\ m = 0 /\ (-q) * d = -(q * d) /\ q * d \in Int
          BY <1>2, <1>5, <1>7, <3>1
        <4> QED BY <1>2, <1>4, <1>5, <3>1, <4>1
      <3>2. CASE r # 0
        <4>1. c = 1 /\ p = -q - 1 /\ m = d - r /\ (-q - 1) * d = -(q * d) - d /\ q * d \in Int
          BY <1>2, <1>5, <1>7, <1>10, <3>2
        <4> HIDE DEF p, m
        <4> QED BY <1>2, <1>4, <1>5, <3>2, <4>1
      <3> QED BY <3>1, <3>2
    <2> HIDE DEF p, m
    <2>5. (p * d + m) \div d = p
      BY <1>2, <2>4, DivideOnce
    <2>6. (-s) \div d = p
      BY <2>4, <2>5
    <2>7. Quotient(s, d) = -p /\ c \in Int
      BY <1>7, <1>8, <1>10, <2>6
    <2>8. t = -p
      BY <1>5, <2>7 DEF p
    <2> QED BY <1>5, <2>3, <2>7, <2>8 DEF s, d, q, c
  <1> QED BY <1>4, <1>9, <1>10

---------------------------------------------------------------------------
(* The idioms *)

\* Before the last instruction of a pair or an idiom: the registers and what the others left
\* in XER.
Prepared ==
    /\ (k = 3 /\ 3 <= Len(prog) /\ prog[1].op = "mcrxr" /\ prog[2].op = "subfc"
          /\ prog[2].d \notin {prog[2].a, prog[2].b}) =>
          LET i == prog[2]
              a == Lo(gpr[i.a])
              b == Lo(gpr[i.b])
          IN  /\ gpr \in [Regs -> Doubles] /\ DOMAIN cr = CrFields
              /\ b # WordSize - 1 => (xer.ca = (b >= a))
    /\ (k = 2 /\ 2 <= Len(prog) /\ prog[1].op = "mullw" /\ prog[1].d \notin {prog[1].a, prog[1].b}) =>
          LET i == prog[1]
              p == Signed(gpr[i.a], WB) * Signed(gpr[i.b], WB)
          IN  /\ gpr \in [Regs -> Doubles] /\ Lo(gpr[i.d]) = Lo(ToD(p))
              /\ DOMAIN xer = {"so", "ov", "ca"}
              /\ i.oe => (xer.ov = (p \notin (-MinW)..MaxW))

\* The program begins with an addze that the second instruction leaves to be seen.
Seen ==
    /\ prog[1].op = "addze" /\ prog[1].d # prog[1].a
    /\ prog[2].d # prog[1].d /\ prog[2].d # prog[1].a

\* Between the instructions of such a program: the registers, and what is in XER beside the
\* carry of before.
Carried ==
    /\ (k = 2 /\ 2 <= Len(prog) /\ prog[1].op = "addze" /\ prog[1].d # prog[1].a) =>
          gpr \in [Regs -> Doubles] /\ xer.ca = CarryBefore
    /\ (k = 3 /\ 3 <= Len(prog) /\ Seen /\ prog[2].op \in {"addc", "subfc", "srawi"}) =>
          LET i == prog[2]
              a == Lo(gpr[i.a])
              b == Lo(gpr[i.b])
          IN  /\ (i.op = "addc" /\ i.d \notin {i.a, i.b}) =>
                    /\ gpr \in [Regs -> Doubles] /\ Lo(gpr[i.d]) = ToW(a + b)
                    /\ xer.ca = (CarryBefore \/ a + b >= WordSize)
              /\ (i.op = "subfc" /\ i.d \notin {i.a, i.b}) =>
                    /\ gpr \in [Regs -> Doubles] /\ Lo(gpr[i.d]) = ToW(b - a)
                    /\ xer.ca = (CarryBefore \/ (b >= a /\ b # WordSize - 1))
              /\ (i.op = "srawi" /\ i.d # i.a /\ i.i \in 0..(WB - 2)) =>
                    /\ gpr \in [Regs -> Doubles] /\ gpr[i.d] = ToD(Signed(a, WB) \div 2^(i.i))
                    /\ xer.ca = (CarryBefore \/ (a >= MinW /\ a % 2^(i.i) # 0))

\* The registers after an instruction has written one.
LEMMA Written ==
    ASSUME gpr \in [Regs -> Doubles], NEW d \in Regs, NEW v \in Doubles,
           gpr' = [gpr EXCEPT ![d] = v]
    PROVE  gpr' \in [Regs -> Doubles] /\ gpr'[d] = v /\ \A n : n # d => gpr'[n] = gpr[n]
  <1>1. gpr' \in [Regs -> Doubles] /\ gpr'[d] = v
    OBVIOUS
  <1>2. ASSUME NEW n, n # d PROVE gpr'[n] = gpr[n]
    BY <1>2
  <1> QED BY <1>1, <1>2

\* A word is as signed as the register it is in.
LEMMA SignedLow ==
    ASSUME NEW x \in Int
    PROVE  Signed(Lo(x), WB) = Signed(x, WB)
  <1>1. Lo(x) \in Int /\ ToW(Lo(x)) = ToW(x)
    BY Casts, CastWithin
  <1>2. Signed(x, WB) \in (-MinW)..MaxW /\ ToW(Signed(x, WB)) = ToW(x)
    BY SignedWord
  <1> DEFINE l == Lo(x)
             s == Signed(x, WB)
  <1> HIDE DEF l, s
  <1>3. l \in Int /\ s \in (-MinW)..MaxW /\ ToW(s) = ToW(l)
    BY <1>1, <1>2 DEF l, s
  <1>4. Signed(l, WB) = s
    BY <1>3, SignedWord
  <1> QED BY <1>4 DEF l, s

\* The steps to there.
LEMMA PreparedStep ==
    ASSUME Begun, Started, Next, Goes
    PROVE  Prepared'
  <1>1. prog' = prog /\ k' = k + 1
    BY DEF Goes
  <1>3. ASSUME k = 2, 3 <= Len(prog), prog[1].op = "mcrxr", prog[2].op = "subfc",
               prog[2].d \notin {prog[2].a, prog[2].b}
        PROVE  LET i == prog[2]
                   a == Lo(gpr'[i.a])
                   b == Lo(gpr'[i.b])
               IN  /\ gpr' \in [Regs -> Doubles] /\ DOMAIN cr' = CrFields
                   /\ b # WordSize - 1 => (xer'.ca = (b >= a))
    <2>1. Supplied /\ ic = prog[2] /\ xer = [so |-> FALSE, ov |-> FALSE, ca |-> FALSE]
          /\ DOMAIN cr = CrFields
      BY <1>3, Cleared
    <2>2. PICK v \in Doubles : /\ gpr' = [gpr EXCEPT ![ic.d] = v]
                               /\ Lo(v) = ToW(Lo(gpr[ic.b]) - Lo(gpr[ic.a]))
      BY <1>3, <2>1, SubtractStep
    <2>3. Lo(gpr[ic.b]) # WordSize - 1 => xer'.ca = (xer.ca \/ Lo(gpr[ic.b]) >= Lo(gpr[ic.a]))
      <3>1. ic.op = "subfc"
        BY <1>3, <2>1
      <3> QED BY <2>1, <3>1, SubtractStep
    <2>4. xer["ca"] = FALSE
      BY <2>1
    <2>5. Lo(gpr[ic.b]) # WordSize - 1 => (xer'.ca = (Lo(gpr[ic.b]) >= Lo(gpr[ic.a])))
      BY <2>3, <2>4
    <2>6. /\ gpr' \in [Regs -> Doubles] /\ gpr'[ic.d] = v
          /\ gpr'[ic.a] = gpr[ic.a] /\ gpr'[ic.b] = gpr[ic.b]
      BY <1>3, <2>1, <2>2, Written DEF Supplied
    <2>7. DOMAIN cr' = DOMAIN cr
      <3>1. Subtract
        BY <1>3, <2>1, IdiomaticActions DEF Idiomatic
      <3> QED BY <3>1 DEF Subtract, CompleteHost, Complete
    <2> QED BY <2>1, <2>5, <2>6, <2>7
  <1>5. ASSUME k = 1, 2 <= Len(prog), prog[1].op = "mullw", prog[1].d \notin {prog[1].a, prog[1].b}
        PROVE  LET i == prog[1]
                   p == Signed(gpr'[i.a], WB) * Signed(gpr'[i.b], WB)
               IN  /\ gpr' \in [Regs -> Doubles] /\ Lo(gpr'[i.d]) = Lo(ToD(p))
                   /\ DOMAIN xer' = {"so", "ov", "ca"}
                   /\ i.oe => (xer'.ov = (p \notin (-MinW)..MaxW))
    <2> DEFINE p == Signed(gpr[ic.a], WB) * Signed(gpr[ic.b], WB)
    <2>1. Supplied /\ ic = prog[1] /\ DOMAIN xer = {"so", "ov", "ca"} /\ ic.op = "mullw"
      BY <1>5 DEF Begun, Started, Supplied, ic
    <2>2. /\ \E v \in Doubles : gpr' = [gpr EXCEPT ![ic.d] = v] /\ Lo(v) = Lo(ToD(p))
          /\ (ic.oe /\ "ov" \in DOMAIN xer) => xer'.ov = (p \notin (-MinW)..MaxW)
          /\ DOMAIN xer' = DOMAIN xer
      <3> HIDE DEF p
      <3> QED BY <2>1, MultiplyStep DEF p
    <2>3. PICK v \in Doubles : gpr' = [gpr EXCEPT ![ic.d] = v] /\ Lo(v) = Lo(ToD(p))
      BY <2>2
    <2>4. /\ gpr' \in [Regs -> Doubles] /\ gpr'[ic.d] = v
          /\ gpr'[ic.a] = gpr[ic.a] /\ gpr'[ic.b] = gpr[ic.b]
      BY <1>5, <2>1, <2>3, Written DEF Supplied
    <2>5. p = Signed(gpr'[ic.a], WB) * Signed(gpr'[ic.b], WB)
      BY <2>4
    <2> HIDE DEF p
    <2>6. ic.oe => (xer'.ov = (p \notin (-MinW)..MaxW))
      BY <2>1, <2>2
    <2>7. gpr' \in [Regs -> Doubles] /\ Lo(gpr'[ic.d]) = Lo(ToD(p)) /\ DOMAIN xer' = {"so", "ov", "ca"}
      BY <2>1, <2>2, <2>3, <2>4
    <2> QED BY <2>1, <2>5, <2>6, <2>7, Zenon
  <1>6. k' = 3 => k = 2
    BY <1>1 DEF Begun
  <1>7. k' = 2 => k = 1
    BY <1>1 DEF Begun
  <1> QED BY <1>1, <1>3, <1>5, <1>6, <1>7, Zenon DEF Prepared

\* An addze shows the carry: a word and its sum with one differ.
LEMMA Shows ==
    ASSUME NEW x \in Int, NEW c \in {0, 1}
    PROVE  (Lo(ExtsW(ToW(x + c))) # Lo(x)) = (c = 1)
  <1> DEFINE l == Lo(x)
  <1>1. WordSize \in Nat /\ WordSize > 1
    BY Sizes
  <1>2. l \in 0..(WordSize - 1) /\ ToW(x) = l /\ l \in Words
    BY Casts, InSizes
  <1>3. Lo(ExtsW(ToW(x + c))) = ToW(l + c)
    <2>1. x + c \in Int
      OBVIOUS
    <2> DEFINE w == ToW(x + c)
    <2>2. w \in Words /\ w \in Int
      BY <2>1, Casts, CastWithin
    <2>3. Lo(ExtsW(w)) = w
      <3> HIDE DEF w
      <3> QED BY <2>2, Extended, CastWithin
    <2>4. ToW(ToW(x) + c) = ToW(x + c)
      BY CastOfSum
    <2> QED BY <1>2, <2>3, <2>4
  <1> HIDE DEF l
  <1>4. CASE c = 0
    BY <1>2, <1>3, <1>4, CastWithin DEF l
  <1>5. CASE c = 1 /\ l # WordSize - 1
    <2>1. l + 1 \in Words
      BY <1>1, <1>2, <1>5, InSizes
    <2> QED BY <1>2, <1>3, <1>5, <2>1, CastWithin DEF l
  <1>6. CASE c = 1 /\ l = WordSize - 1
    <2>1. l + 1 = 1 * WordSize + 0 /\ 0 \in 0..(WordSize - 1)
      BY <1>1, <1>6
    <2>2. (1 * WordSize + 0) % WordSize = 0
      BY <1>1, <2>1, DivideOnce
    <2>3. ToW(l + c) = 0
      BY <1>6, <2>1, <2>2, InSizes
    <2> QED BY <1>1, <1>3, <1>6, <2>3 DEF l
  <1> QED BY <1>4, <1>5, <1>6

\* The steps to the middle of an idiom.
LEMMA CarriedStep ==
    ASSUME Begun, Started, Carried, Next, Goes
    PROVE  Carried'
  <1>1. prog' = prog /\ k' = k + 1
    BY DEF Goes
  <1>2. ASSUME k = 1, 2 <= Len(prog), prog[1].op = "addze", prog[1].d # prog[1].a
        PROVE  gpr' \in [Regs -> Doubles] /\ xer'.ca = CarryBefore'
    <2>1. Supplied /\ ic = prog[1] /\ ic.op = "addze" /\ xer.ca \in BOOLEAN
      BY <1>2 DEF Begun, Started, Supplied, ic
    <2>2. PICK v \in Doubles : gpr' = [gpr EXCEPT ![ic.d] = v] /\ v = ExtsW(ToW(gpr[ic.a] + CA))
      BY <2>1, AddStep
    <2>3. xer'.ca = xer.ca
      BY <2>1, AddStep
    <2>4. gpr' \in [Regs -> Doubles] /\ gpr'[ic.d] = v /\ gpr'[ic.a] = gpr[ic.a]
      BY <1>2, <2>1, <2>2, Written DEF Supplied
    <2>5. gpr[ic.a] \in Int /\ CA \in {0, 1} /\ xer.ca = (CA = 1)
      BY <2>1, Supplies DEF CA, Bit
    <2>6. (Lo(v) # Lo(gpr[ic.a])) = (CA = 1)
      BY <2>2, <2>5, Shows
    <2>7. CarryBefore' = (Lo(gpr'[ic.d]) # Lo(gpr'[ic.a]))
      BY <1>1, <2>1, Zenon DEF CarryBefore
    <2> QED BY <2>3, <2>4, <2>5, <2>6, <2>7
  <1>3. ASSUME k = 2, 3 <= Len(prog), Seen
        PROVE  /\ Supplied /\ ic = prog[2] /\ xer.ca = CarryBefore /\ xer.ca \in BOOLEAN
               /\ prog[1].d \in Regs /\ prog[1].a \in Regs
    <2>1. 2 <= Len(prog) /\ Len(prog) \in Nat
      BY <1>3 DEF Begun
    <2>2. gpr \in [Regs -> Doubles] /\ xer.ca = CarryBefore
      BY <1>3, <2>1 DEF Carried, Seen
    <2> QED BY <1>3, <2>1, <2>2 DEF Begun, Supplied, ic, CarryBefore
  <1>4. ASSUME k = 2, 3 <= Len(prog), Seen, NEW v \in Doubles, gpr' = [gpr EXCEPT ![ic.d] = v]
        PROVE  /\ gpr' \in [Regs -> Doubles] /\ gpr'[ic.d] = v /\ CarryBefore' = CarryBefore
               /\ \A n : n # ic.d => gpr'[n] = gpr[n]
    <2>1. /\ gpr' \in [Regs -> Doubles] /\ gpr'[ic.d] = v
          /\ \A n : n # ic.d => gpr'[n] = gpr[n]
      BY <1>3, <1>4, Written DEF Supplied
    <2>2. gpr'[prog[1].d] = gpr[prog[1].d] /\ gpr'[prog[1].a] = gpr[prog[1].a]
      BY <1>3, <1>4, <2>1 DEF Seen
    <2>3. CarryBefore' = CarryBefore
      BY <1>1, <2>2, Zenon DEF CarryBefore
    <2> QED BY <2>1, <2>3
  <1>5. ASSUME k = 2, 3 <= Len(prog), Seen, prog[2].op = "addc",
               prog[2].d \notin {prog[2].a, prog[2].b}
        PROVE  LET i == prog[2]
                   a == Lo(gpr'[i.a])
                   b == Lo(gpr'[i.b])
               IN  /\ gpr' \in [Regs -> Doubles] /\ Lo(gpr'[i.d]) = ToW(a + b)
                   /\ xer'.ca = (CarryBefore' \/ a + b >= WordSize)
    <2>1. Supplied /\ ic = prog[2] /\ xer.ca = CarryBefore
      BY <1>3, <1>5
    <2>2. PICK v \in Doubles : /\ gpr' = [gpr EXCEPT ![ic.d] = v]
                               /\ Lo(v) = ToW(Lo(gpr[ic.a]) + Lo(gpr[ic.b]))
      BY <1>5, <2>1, AddStep
    <2>3. xer'.ca = (xer.ca \/ Lo(gpr[ic.a]) + Lo(gpr[ic.b]) >= WordSize)
      <3>1. ic.op = "addc"
        BY <1>5, <2>1
      <3> QED BY <2>1, <3>1, AddStep
    <2>4. /\ gpr' \in [Regs -> Doubles] /\ gpr'[ic.d] = v /\ CarryBefore' = CarryBefore
          /\ gpr'[ic.a] = gpr[ic.a] /\ gpr'[ic.b] = gpr[ic.b]
      BY <1>4, <1>5, <2>1, <2>2
    <2> QED BY <2>1, <2>2, <2>3, <2>4
  <1>6. ASSUME k = 2, 3 <= Len(prog), Seen, prog[2].op = "subfc",
               prog[2].d \notin {prog[2].a, prog[2].b}
        PROVE  LET i == prog[2]
                   a == Lo(gpr'[i.a])
                   b == Lo(gpr'[i.b])
               IN  /\ gpr' \in [Regs -> Doubles] /\ Lo(gpr'[i.d]) = ToW(b - a)
                   /\ xer'.ca = (CarryBefore' \/ (b >= a /\ b # WordSize - 1))
    <2>1. Supplied /\ ic = prog[2] /\ xer.ca = CarryBefore /\ xer.ca \in BOOLEAN
      BY <1>3, <1>6
    <2>2. PICK v \in Doubles : /\ gpr' = [gpr EXCEPT ![ic.d] = v]
                               /\ Lo(v) = ToW(Lo(gpr[ic.b]) - Lo(gpr[ic.a]))
      BY <1>6, <2>1, SubtractStep
    <2> DEFINE a == Lo(gpr[ic.a])
               b == Lo(gpr[ic.b])
    <2>3. /\ b # WordSize - 1 => xer'.ca = (xer.ca \/ b >= a)
          /\ b = WordSize - 1 => xer'.ca = xer.ca
      <3>1. ic.op = "subfc"
        BY <1>6, <2>1
      <3> QED BY <2>1, <3>1, SubtractStep
    <2>4. /\ gpr' \in [Regs -> Doubles] /\ gpr'[ic.d] = v /\ CarryBefore' = CarryBefore
          /\ gpr'[ic.a] = gpr[ic.a] /\ gpr'[ic.b] = gpr[ic.b]
      BY <1>4, <1>6, <2>1, <2>2
    <2>5. xer'.ca = (CarryBefore \/ (b >= a /\ b # WordSize - 1))
      <3> HIDE DEF a, b
      <3>1. CASE b # WordSize - 1
        BY <2>1, <2>3, <3>1, Zenon
      <3>2. CASE b = WordSize - 1
        BY <2>1, <2>3, <3>2, Zenon
      <3> QED BY <3>1, <3>2
    <2> QED BY <2>1, <2>2, <2>4, <2>5
  <1>7. ASSUME k = 2, 3 <= Len(prog), Seen, prog[2].op = "srawi",
               prog[2].d # prog[2].a, prog[2].i \in 0..(WB - 2)
        PROVE  LET i == prog[2]
                   a == Lo(gpr'[i.a])
               IN  /\ gpr' \in [Regs -> Doubles]
                   /\ gpr'[i.d] = ToD(Signed(a, WB) \div 2^(i.i))
                   /\ xer'.ca = (CarryBefore' \/ (a >= MinW /\ a % 2^(i.i) # 0))
    <2> DEFINE i == prog[2]
               w == Lo(gpr[i.a])
               v == ToD(Signed(w, WB) \div 2^(i.i))
               lost == w >= MinW /\ w % 2^(i.i) # 0
    <2>1. Supplied /\ ic = i /\ xer.ca = CarryBefore
      BY <1>3, <1>7
    <2>2. Amount = i.i /\ Amount # WB - 1 /\ ic.i \in 0..(WB - 1) /\ ic.op = "srawi"
      BY <1>7, <2>1, Widths DEF Amount
    <2>3. gpr' = [gpr EXCEPT ![ic.d] = Shifted] /\ xer' = update_xer_ca(xer, lost)
      BY <2>1, <2>2, ShiftStep DEF ShiftOps
    <2>4. Shifted = v
      BY <2>1, <2>2 DEF Shifted
    <2>5. v \in Doubles
      <3>1. w \in Words
        BY <2>1, Supplies
      <3> HIDE DEF w
      <3>2. Signed(w, WB) \div 2^(i.i) \in Int
        BY <1>7, <3>1, TowardZero
      <3> QED BY <3>2, Casts
    <2> HIDE DEF v, lost
    <2>6. /\ gpr' \in [Regs -> Doubles] /\ gpr'[i.d] = v /\ gpr'[i.a] = gpr[i.a]
          /\ CarryBefore' = CarryBefore
      BY <1>4, <1>7, <2>1, <2>3, <2>4, <2>5
    <2>7. xer'["ca"] = (xer["ca"] \/ lost)
      BY <2>3, Zenon DEF update_xer_ca
    <2>8. xer'["ca"] = (CarryBefore \/ lost)
      BY <2>1, <2>7, Zenon
    <2> QED BY <2>6, <2>8 DEF v, lost
  <1>8. Seen' <=> Seen
    BY <1>1, Zenon DEF Seen
  <1>9. k' = 3 => k = 2
    BY <1>1 DEF Begun
  <1>10. k' = 2 => k = 1
    BY <1>1 DEF Begun
  <1> QED BY <1>1, <1>2, <1>5, <1>6, <1>7, <1>8, <1>9, <1>10, Zenon DEF Carried

\* The last step of a program of two instructions.
LEMMA EndsOfTwo ==
    ASSUME Begun, Goes, NEW x, NEW y, Ended(<<x, y>>)'
    PROVE  prog' = prog /\ k = 2 /\ Len(prog) = 2 /\ prog[1].op = x /\ prog[2].op = y
  BY DEF Begun, Goes, Ended

\* And of three.
LEMMA EndsOfThree ==
    ASSUME Begun, Goes, NEW x, NEW y, NEW z, Ended(<<x, y, z>>)'
    PROVE  /\ prog' = prog /\ k = 3 /\ Len(prog) = 3
           /\ prog[1].op = x /\ prog[2].op = y /\ prog[3].op = z
  BY DEF Begun, Goes, Ended

\* A program of three that ends: its first instruction was seen by the second.
LEMMA SeenAtEnd ==
    ASSUME Begun, Goes, NEW y, NEW z, Ended(<<"addze", y, z>>)', Observed'
    PROVE  Seen /\ prog[3].d # prog[1].d /\ prog[3].d # prog[1].a
  <1>1. prog' = prog /\ k = 3 /\ Len(prog) = 3 /\ prog[1].op = "addze"
    BY EndsOfThree
  <1>2. Observed
    BY <1>1, Zenon DEF Observed
  <1>3. \A x : x \in {prog[1].d, prog[1].a} => x \notin {prog[2].d, prog[3].d}
    BY <1>2 DEF Observed
  <1> QED BY <1>1, <1>2, <1>3 DEF Observed, Seen

\* Addition in two words.
LEMMA AddIdiom ==
    ASSUME Begun, Carried, Next, Goes
    PROVE  TwoWordAdd'
  <1> SUFFICES ASSUME Ended(<<"addze", "addc", "adde">>)', Observed', Apart(2, 3)'
               PROVE  LET stale == /\ CarryBefore'
                                   /\ Lo(gpr'[prog[2].a]) + Lo(gpr'[prog[2].b]) < WordSize
                      IN  TwoWords(prog[3].d, prog[2].d)'
                            = ToD(TwoWords(prog[3].a, prog[2].a)' + TwoWords(prog[3].b, prog[2].b)'
                                      + Bit(stale) * WordSize)
    <2>1. prog' = prog
      BY DEF Goes
    <2> QED BY <2>1, Zenon DEF TwoWordAdd, WordSize
  <1> DEFINE ah == Lo(gpr[prog[3].a])
             al == Lo(gpr[prog[2].a])
             bh == Lo(gpr[prog[3].b])
             bl == Lo(gpr[prog[2].b])
             d == prog[3].d
             stale == CarryBefore /\ al + bl < WordSize
  <1>1. /\ prog' = prog /\ k = 3 /\ Len(prog) = 3
        /\ prog[1].op = "addze" /\ prog[2].op = "addc" /\ prog[3].op = "adde"
    BY EndsOfThree
  <1>2. /\ prog[2].d # d /\ prog[2].d # prog[2].a /\ prog[2].d # prog[2].b
        /\ d # prog[2].a /\ d # prog[2].b /\ d # prog[3].a /\ d # prog[3].b
        /\ prog[2].d \notin {prog[2].a, prog[2].b}
    <2>1. Apart(2, 3)
      BY <1>1, Zenon DEF Apart
    <2>2. \A x : x \in {prog[2].d, d} => x \notin {prog[2].a, prog[2].b, prog[3].a, prog[3].b}
      BY <2>1 DEF Apart
    <2> QED BY <2>1, <2>2 DEF Apart
  <1>3. /\ gpr \in [Regs -> Doubles] /\ Lo(gpr[prog[2].d]) = ToW(al + bl)
        /\ xer.ca = (CarryBefore \/ al + bl >= WordSize)
    BY <1>1, <1>2, SeenAtEnd DEF Carried
  <1>4. Supplied /\ ic = prog[3] /\ ic.op = "adde" /\ prog[2].d \in Regs
        /\ prog[2].a \in Regs /\ prog[2].b \in Regs
    BY <1>1, <1>3 DEF Begun, Supplied, ic
  <1>5. PICK v \in Doubles : gpr' = [gpr EXCEPT ![d] = v] /\ Lo(v) = ToW(ah + bh + CA)
    BY <1>4, AddStep
  <1>6. ah \in Words /\ al \in Words /\ bh \in Words /\ bl \in Words
    <2>1. \A n \in Regs : Lo(gpr[n]) \in Words
      BY <1>3, Casts, CastWithin
    <2> QED BY <1>4, <2>1 DEF Supplied
  <1>7. CA = Bit(al + bl >= WordSize) + Bit(stale) /\ Bit(stale) \in Int
    <2>1. al + bl \in Int
      BY <1>6, CastWithin
    <2>2. CarryBefore \in BOOLEAN
      BY DEF CarryBefore
    <2> HIDE DEF al, bl
    <2>3. CASE al + bl >= WordSize
      <3>1. ~(al + bl < WordSize)
        BY <2>1, <2>3, Sizes
      <3>2. xer.ca /\ ~stale
        BY <1>3, <2>3, <3>1, Zenon
      <3> QED BY <2>3, <3>2 DEF CA, Bit
    <2>4. CASE ~(al + bl >= WordSize)
      <3>1. al + bl < WordSize
        BY <2>1, <2>4, Sizes
      <3>2. xer.ca = CarryBefore /\ stale = CarryBefore
        BY <1>3, <2>2, <2>4, <3>1, Zenon
      <3> HIDE DEF stale
      <3> QED BY <2>2, <2>4, <3>2 DEF CA, Bit
    <2> QED BY <2>3, <2>4
  <1>8. /\ gpr'[d] = v /\ gpr'[prog[2].d] = gpr[prog[2].d]
        /\ gpr'[prog[2].a] = gpr[prog[2].a] /\ gpr'[prog[3].a] = gpr[prog[3].a]
        /\ gpr'[prog[2].b] = gpr[prog[2].b] /\ gpr'[prog[3].b] = gpr[prog[3].b]
        /\ gpr'[prog[1].d] = gpr[prog[1].d] /\ gpr'[prog[1].a] = gpr[prog[1].a]
    BY <1>2, <1>3, <1>4, <1>5, SeenAtEnd, Written DEF Supplied
  <1>9. CarryBefore' = CarryBefore
    BY <1>1, <1>8, Zenon DEF CarryBefore
  <1>10. /\ TwoWords(d, prog[2].d)' = ToW(ah + bh + CA) * WordSize + ToW(al + bl)
         /\ TwoWords(prog[3].a, prog[2].a)' = ah * WordSize + al
         /\ TwoWords(prog[3].b, prog[2].b)' = bh * WordSize + bl
         /\ Lo(gpr'[prog[2].a]) = al /\ Lo(gpr'[prog[2].b]) = bl
    <2>1. /\ Lo(gpr'[d]) = ToW(ah + bh + CA) /\ Lo(gpr'[prog[2].d]) = ToW(al + bl)
          /\ Lo(gpr'[prog[2].a]) = al /\ Lo(gpr'[prog[3].a]) = ah
          /\ Lo(gpr'[prog[2].b]) = bl /\ Lo(gpr'[prog[3].b]) = bh
      BY <1>3, <1>5, <1>8
    <2> HIDE DEF ah, al, bh, bl
    <2> QED BY <1>1, <2>1, Zenon DEF TwoWords, WordSize
  <1> HIDE DEF ah, al, bh, bl
  <1>11. ToD((ah * WordSize + al) + (bh * WordSize + bl) + Bit(stale) * WordSize)
            = ToW(ah + bh + CA) * WordSize + ToW(al + bl)
    <2> DEFINE e == Bit(stale)
    <2> HIDE DEF stale
    <2>1. e \in Int /\ CA = Bit(al + bl >= WordSize) + e
      BY <1>7
    <2> HIDE DEF e
    <2>2. ToD((ah * WordSize + al) + (bh * WordSize + bl) + e * WordSize)
            = ToW(ah + bh + (Bit(al + bl >= WordSize) + e)) * WordSize + ToW(al + bl)
      BY <1>6, <2>1, TwoWordSums
    <2> QED BY <2>1, <2>2 DEF e
  <1> QED BY <1>9, <1>10, <1>11

\* The carry of a difference, beside the one of before, against the one it should have.
LEMMA BorrowBits ==
    ASSUME NEW before \in BOOLEAN, NEW a \in Int, NEW b \in Int, NEW m \in Int, a <= m
    PROVE  LET e == Bit(before /\ b < a) - Bit(~before /\ b = m)
           IN  e \in Int /\ Bit(before \/ (b >= a /\ b # m)) = Bit(b >= a) + e
  <1>1. CASE before
    BY <1>1 DEF Bit
  <1>2. CASE ~before
    BY <1>2 DEF Bit
  <1> QED BY <1>1, <1>2

\* Subtraction in two words.
LEMMA SubtractIdiom ==
    ASSUME Begun, Carried, Next, Goes
    PROVE  TwoWordSubtract'
  <1> SUFFICES ASSUME Ended(<<"addze", "subfc", "subfe">>)', Observed', Apart(2, 3)'
               PROVE  LET stale == CarryBefore' /\ Lo(gpr'[prog[2].b]) < Lo(gpr'[prog[2].a])
                          early == ~CarryBefore' /\ Lo(gpr'[prog[2].b]) = WordSize - 1
                      IN  TwoWords(prog[3].d, prog[2].d)'
                            = ToD(TwoWords(prog[3].b, prog[2].b)' - TwoWords(prog[3].a, prog[2].a)'
                                      + (Bit(stale) - Bit(early)) * WordSize)
    <2>1. prog' = prog
      BY DEF Goes
    <2> QED BY <2>1, Zenon DEF TwoWordSubtract, WordSize
  <1> DEFINE ah == Lo(gpr[prog[3].a])
             al == Lo(gpr[prog[2].a])
             bh == Lo(gpr[prog[3].b])
             bl == Lo(gpr[prog[2].b])
             d == prog[3].d
             stale == CarryBefore /\ bl < al
             early == ~CarryBefore /\ bl = WordSize - 1
             e == Bit(stale) - Bit(early)
  <1>1. /\ prog' = prog /\ k = 3 /\ Len(prog) = 3
        /\ prog[1].op = "addze" /\ prog[2].op = "subfc" /\ prog[3].op = "subfe"
    BY EndsOfThree
  <1>2. /\ prog[2].d # d /\ prog[2].d # prog[2].a /\ prog[2].d # prog[2].b
        /\ d # prog[2].a /\ d # prog[2].b /\ d # prog[3].a /\ d # prog[3].b
        /\ prog[2].d \notin {prog[2].a, prog[2].b}
    <2>1. Apart(2, 3)
      BY <1>1, Zenon DEF Apart
    <2>2. \A x : x \in {prog[2].d, d} => x \notin {prog[2].a, prog[2].b, prog[3].a, prog[3].b}
      BY <2>1 DEF Apart
    <2> QED BY <2>1, <2>2 DEF Apart
  <1>3. /\ gpr \in [Regs -> Doubles] /\ Lo(gpr[prog[2].d]) = ToW(bl - al)
        /\ xer.ca = (CarryBefore \/ (bl >= al /\ bl # WordSize - 1))
    BY <1>1, <1>2, SeenAtEnd DEF Carried
  <1>4. Supplied /\ ic = prog[3] /\ ic.op = "subfe" /\ prog[2].d \in Regs
        /\ prog[2].a \in Regs /\ prog[2].b \in Regs
    BY <1>1, <1>3 DEF Begun, Supplied, ic
  <1>5. PICK v \in Doubles : gpr' = [gpr EXCEPT ![d] = v] /\ Lo(v) = ToW(bh - ah - 1 + CA)
    BY <1>4, SubtractStep
  <1>6. ah \in Words /\ al \in Words /\ bh \in Words /\ bl \in Words
    <2>1. \A n \in Regs : Lo(gpr[n]) \in Words
      BY <1>3, Casts, CastWithin
    <2> QED BY <1>4, <2>1 DEF Supplied
  <1>7. CA = Bit(bl >= al) + e /\ e \in Int
    <2>1. /\ al \in Int /\ bl \in Int /\ WordSize - 1 \in Int /\ al <= WordSize - 1
          /\ CarryBefore \in BOOLEAN
      BY <1>6, InSizes, Sizes DEF CarryBefore
    <2>2. CA = Bit(CarryBefore \/ (bl >= al /\ bl # WordSize - 1))
      <3>1. CA = Bit(xer.ca)
        BY Zenon DEF CA
      <3> QED BY <1>3, <3>1, Zenon
    <2> HIDE DEF al, bl
    <2> QED BY <2>1, <2>2, BorrowBits
  <1>8. /\ gpr'[d] = v /\ gpr'[prog[2].d] = gpr[prog[2].d]
        /\ gpr'[prog[2].a] = gpr[prog[2].a] /\ gpr'[prog[3].a] = gpr[prog[3].a]
        /\ gpr'[prog[2].b] = gpr[prog[2].b] /\ gpr'[prog[3].b] = gpr[prog[3].b]
        /\ gpr'[prog[1].d] = gpr[prog[1].d] /\ gpr'[prog[1].a] = gpr[prog[1].a]
    BY <1>2, <1>3, <1>4, <1>5, SeenAtEnd, Written DEF Supplied
  <1>9. CarryBefore' = CarryBefore
    BY <1>1, <1>8, Zenon DEF CarryBefore
  <1>10. /\ TwoWords(d, prog[2].d)' = ToW(bh - ah - 1 + CA) * WordSize + ToW(bl - al)
         /\ TwoWords(prog[3].a, prog[2].a)' = ah * WordSize + al
         /\ TwoWords(prog[3].b, prog[2].b)' = bh * WordSize + bl
         /\ Lo(gpr'[prog[2].a]) = al /\ Lo(gpr'[prog[2].b]) = bl
    <2>1. /\ Lo(gpr'[d]) = ToW(bh - ah - 1 + CA) /\ Lo(gpr'[prog[2].d]) = ToW(bl - al)
          /\ Lo(gpr'[prog[2].a]) = al /\ Lo(gpr'[prog[3].a]) = ah
          /\ Lo(gpr'[prog[2].b]) = bl /\ Lo(gpr'[prog[3].b]) = bh
      BY <1>3, <1>5, <1>8
    <2> HIDE DEF ah, al, bh, bl
    <2> QED BY <1>1, <2>1, Zenon DEF TwoWords, WordSize
  <1> HIDE DEF ah, al, bh, bl
  <1>11. ToD((bh * WordSize + bl) - (ah * WordSize + al) + e * WordSize)
            = ToW(bh - ah - 1 + CA) * WordSize + ToW(bl - al)
    <2> HIDE DEF e
    <2>1. ToD((bh * WordSize + bl) - (ah * WordSize + al) + e * WordSize)
            = ToW(bh - ah - 1 + (Bit(bl >= al) + e)) * WordSize + ToW(bl - al)
      BY <1>6, <1>7, TwoWordSums
    <2> QED BY <1>7, <2>1
  <1> QED BY <1>9, <1>10, <1>11

\* Multiplication into two words.
LEMMA MultiplyIdiom ==
    ASSUME Begun, Prepared, Next, Goes
    PROVE  WideProduct'
  <1> DEFINE i == prog[1]
             j == prog[2]
             p == Signed(gpr[i.a], WB) * Signed(gpr[i.b], WB)
             out == p \notin (-MinW)..MaxW
  <1> SUFFICES ASSUME Ended(<<"mullw", "mulhw">>)', Apart(1, 2)', i.a = j.a, i.b = j.b
               PROVE  LET q == Signed(gpr'[i.a], WB) * Signed(gpr'[i.b], WB)
                      IN  /\ TwoWords(j.d, i.d)' = ToD(q)
                          /\ i.oe => (xer'.ov = (q \notin (-MinW)..MaxW))
    <2>1. prog' = prog
      BY DEF Goes
    <2> QED BY <2>1, Zenon DEF WideProduct
  <1>1. prog' = prog /\ k = 2 /\ Len(prog) = 2 /\ i.op = "mullw" /\ j.op = "mulhw"
    BY EndsOfTwo
  <1>2. /\ i.d # j.d /\ j.d # i.a /\ j.d # i.b /\ i.d \notin {i.a, i.b}
    <2>1. Apart(1, 2)
      BY <1>1, Zenon DEF Apart
    <2>2. \A x : x \in {i.d, j.d} => x \notin {i.a, i.b, j.a, j.b}
      BY <2>1 DEF Apart
    <2> QED BY <2>1, <2>2 DEF Apart
  <1>3. /\ gpr \in [Regs -> Doubles] /\ Lo(gpr[i.d]) = Lo(ToD(p))
        /\ DOMAIN xer = {"so", "ov", "ca"}
        /\ i.oe => (xer.ov = out)
    <2>1. 2 <= Len(prog)
      BY <1>1
    <2> QED BY <1>1, <1>2, <2>1, Zenon DEF Prepared
  <1>4. Supplied /\ ic = j /\ ic.op = "mulhw" /\ i.d \in Regs /\ ic.a = i.a /\ ic.b = i.b
    BY <1>1, <1>3 DEF Begun, Supplied, ic
  <1>5. /\ p \in Int
        /\ \E v \in Doubles : gpr' = [gpr EXCEPT ![ic.d] = v] /\ Lo(v) = Hi(ToD(p))
        /\ (ic.oe /\ "ov" \in DOMAIN xer) => xer'.ov = out
        /\ ~ic.oe => xer' = xer
    <2>1. p = Signed(gpr[ic.a], WB) * Signed(gpr[ic.b], WB)
      BY <1>4
    <2> QED BY <1>4, <2>1, MultiplyStep
  <1> HIDE DEF p
  <1>6. PICK v \in Doubles : gpr' = [gpr EXCEPT ![j.d] = v] /\ Lo(v) = Hi(ToD(p))
    BY <1>4, <1>5
  <1>7. gpr'[j.d] = v /\ gpr'[i.d] = gpr[i.d] /\ gpr'[i.a] = gpr[i.a] /\ gpr'[i.b] = gpr[i.b]
    BY <1>2, <1>3, <1>4, <1>6, Written DEF Supplied
  <1>8. i.oe => (xer'.ov = out)
    BY <1>3, <1>5
  <1>9. TwoWords(j.d, i.d)' = ToD(p)
    <2> DEFINE d == ToD(p)
    <2>1. d \in Doubles
      BY <1>5, Casts
    <2>2. Lo(gpr'[j.d]) = Hi(d) /\ Lo(gpr'[i.d]) = Lo(d)
      BY <1>3, <1>6, <1>7
    <2> HIDE DEF d
    <2>3. PACK_2W(Hi(d), Lo(d)) = d
      BY <2>1, Unpacked
    <2>4. TwoWords(j.d, i.d)' = Hi(d) * WordSize + Lo(d)
      BY <1>1, <2>2, Zenon DEF TwoWords, WordSize
    <2> QED BY <2>3, <2>4, InSizes DEF d
  <1> QED BY <1>7, <1>8, <1>9, Zenon DEF p

\* Division by a power of two.
LEMMA PowerIdiom ==
    ASSUME Begun, Carried, Next, Goes
    PROVE  DivideIdiom'
  <1> DEFINE i == prog[2]
             j == prog[3]
  <1> SUFFICES ASSUME Ended(<<"addze", "srawi", "addze">>)', Observed', i.i \in 0..(WB - 2),
                      j.a = i.d, i.a \notin {i.d, j.d}
               PROVE  LET w == Lo(gpr'[i.a])
                          d == 2^(i.i)
                          stale == CarryBefore' /\ (w < MinW \/ w % d = 0)
                      IN  Lo(gpr'[j.d]) = ToW(Quotient(Signed(w, WB), d) + Bit(stale))
    <2>1. prog' = prog
      BY DEF Goes
    <2> QED BY <2>1, Zenon DEF DivideIdiom
  <1> DEFINE w == Lo(gpr[i.a])
             d == 2^(i.i)
             q == Signed(w, WB) \div d
             lost == w >= MinW /\ w % d # 0
             stale == CarryBefore /\ (w < MinW \/ w % d = 0)
             t == q + Bit(lost)
  <1>1. /\ prog' = prog /\ k = 3 /\ Len(prog) = 3
        /\ prog[1].op = "addze" /\ i.op = "srawi" /\ j.op = "addze"
    BY EndsOfThree
  <1>2. gpr \in [Regs -> Doubles] /\ gpr[i.d] = ToD(q) /\ xer.ca = (CarryBefore \/ lost)
    BY <1>1, SeenAtEnd DEF Carried
  <1>3. Supplied /\ ic = j /\ ic.op = "addze" /\ i.a \in Regs
    BY <1>1, <1>2 DEF Begun, Supplied, ic
  <1>4. gpr[i.a] \in Int /\ w \in Words /\ w \in Int /\ MinW \in Int
    <2>1. gpr[i.a] \in Doubles
      BY <1>2, <1>3
    <2> QED BY <2>1, Casts, CastWithin, Sizes
  <1> HIDE DEF w
  <1>5. q \in Int /\ Quotient(Signed(w, WB), d) = t
    BY <1>4, TowardZero
  <1>6. PICK v \in Doubles : gpr' = [gpr EXCEPT ![j.d] = v] /\ v = ExtsW(ToW(gpr[i.d] + CA))
    BY <1>3, AddStep
  <1>7. /\ gpr'[j.d] = v /\ gpr'[i.a] = gpr[i.a]
        /\ gpr'[prog[1].d] = gpr[prog[1].d] /\ gpr'[prog[1].a] = gpr[prog[1].a]
    BY <1>2, <1>3, <1>6, SeenAtEnd, Written DEF Supplied
  <1>8. CarryBefore' = CarryBefore
    BY <1>1, <1>7, Zenon DEF CarryBefore
  <1>9. CA = Bit(lost) + Bit(stale) /\ Bit(lost) \in Int /\ Bit(stale) \in Int
    <2>1. CarryBefore \in BOOLEAN
      BY DEF CarryBefore
    <2>2. (w < MinW \/ w % d = 0) = ~lost
      <3> DEFINE r == w % d
      <3> HIDE DEF r
      <3>1. (w < MinW \/ r = 0) = ~(w >= MinW /\ r # 0)
        BY <1>4
      <3> QED BY <3>1 DEF r
    <2>3. stale = (CarryBefore /\ ~lost)
      BY <2>2
    <2>4. CASE lost
      <3>1. xer.ca = TRUE /\ lost = TRUE /\ stale = FALSE
        BY <1>2, <2>3, <2>4, Zenon
      <3> HIDE DEF lost, stale
      <3> QED BY <3>1 DEF CA, Bit
    <2>5. CASE ~lost /\ CarryBefore
      <3>1. xer.ca = TRUE /\ lost = FALSE /\ stale = TRUE
        BY <1>2, <2>3, <2>5, Zenon
      <3> HIDE DEF lost, stale
      <3> QED BY <3>1 DEF CA, Bit
    <2>6. CASE ~lost /\ ~CarryBefore
      <3>1. xer.ca = FALSE /\ lost = FALSE /\ stale = FALSE
        BY <1>2, <2>3, <2>6, Zenon
      <3> HIDE DEF lost, stale
      <3> QED BY <3>1 DEF CA, Bit
    <2> HIDE DEF lost, stale
    <2> QED BY <2>4, <2>5, <2>6, Zenon
  <1>10. CA \in Int /\ t + Bit(stale) = q + CA
    <2> HIDE DEF q, lost, stale
    <2> QED BY <1>5, <1>9
  <1> HIDE DEF q, lost, stale, t
  <1>11. Lo(v) = ToW(q + CA)
    <2>1. ToD(q) \in Int /\ ToW(ToD(q)) = ToW(q)
      <3>1. ToD(q) \in Int
        BY <1>5, Casts, CastWithin
      <3> QED BY <1>5, <3>1, Casts
    <2> DEFINE e == ToD(q)
    <2> HIDE DEF e
    <2>2. ToW(ToW(e) + CA) = ToW(e + CA) /\ ToW(ToW(q) + CA) = ToW(q + CA)
      BY <1>5, <1>10, <2>1, CastOfSum DEF e
    <2>3. ToW(e + CA) = ToW(q + CA)
      BY <2>1, <2>2 DEF e
    <2> DEFINE n == ToW(q + CA)
    <2>4. n \in Int /\ ToW(n) = n
      <3> DEFINE m == q + CA
      <3>1. m \in Int
        BY <1>5, <1>10
      <3> HIDE DEF m
      <3> QED BY <3>1, Casts, CastWithin DEF m
    <2>5. v = ExtsW(n)
      BY <1>2, <1>6, <2>3 DEF e
    <2> HIDE DEF n
    <2>6. Lo(v) = n
      BY <2>4, <2>5, Extended, Casts, CastWithin
    <2> QED BY <2>6 DEF n
  <1>12. Lo(gpr'[i.a]) = w /\ Lo(gpr'[j.d]) = Lo(v)
    BY <1>7 DEF w
  <1>13. Lo(gpr'[j.d]) = ToW(Quotient(Signed(w, WB), d) + Bit(stale))
    BY <1>5, <1>10, <1>11, <1>12
  <1> QED BY <1>8, <1>12, <1>13, Zenon DEF stale

\* MultiWordArithmetic: additions, subtractions and multiplications of two words, and the
\* division by a power of two, compute what compilers use them for, but for the carry that
\* was there before, whatever the operands and for words of any width.
THEOREM IdiomsCompute == Spec => []MultiWordArithmetic
  <1> DEFINE Inv == Begun /\ Started /\ Prepared /\ Carried /\ MultiWordArithmetic
  <1>1. Init => Inv
    <2> SUFFICES ASSUME Init PROVE Prepared /\ Carried /\ MultiWordArithmetic
      BY BegunInvariance, StartedInvariance
    <2>1. k = 1 /\ Len(prog) \in Nat
      BY BegunInvariance DEF Init, Begun
    <2>2. Prepared /\ Carried
      BY <2>1 DEF Prepared, Carried
    <2>3. \A x, y, z : ~Ended(<<x, y, z>>) /\ ~Ended(<<x, y>>)
      BY <2>1 DEF Ended
    <2> QED BY <2>2, <2>3 DEF MultiWordArithmetic, TwoWordAdd, TwoWordSubtract, WideProduct, DivideIdiom
  <1>2. Inv /\ [Next]_vars => Inv'
    <2> SUFFICES ASSUME Inv, [Next]_vars PROVE Prepared' /\ Carried' /\ MultiWordArithmetic'
      BY BegunInvariance, StartedInvariance
    <2>1. CASE Goes /\ Next
      BY <2>1, PreparedStep, CarriedStep, AddIdiom, SubtractIdiom, MultiplyIdiom, PowerIdiom, Zenon
      DEF MultiWordArithmetic
    <2>2. CASE Stops \/ UNCHANGED vars
      <3>1. UNCHANGED <<gpr, xer, cr, prog, k>>
        BY <2>2 DEF Stops, vars
      <3>2. Prepared'
        BY <3>1, Zenon DEF Prepared
      <3>3. Carried'
        BY <3>1, Zenon DEF Carried, Seen, CarryBefore
      <3>4. MultiWordArithmetic'
        BY <3>1, Zenon DEF MultiWordArithmetic, TwoWordAdd, TwoWordSubtract, WideProduct,
                           DivideIdiom, Ended, Apart, Observed, CarryBefore, TwoWords
      <3> QED BY <3>2, <3>3, <3>4
    <2> QED BY <2>1, <2>2, Steps
  <1>3. Inv => MultiWordArithmetic
    OBVIOUS
  <1> QED BY <1>1, <1>2, <1>3, PTL DEF Spec

---------------------------------------------------------------------------
(* Compares *)

\* The sign of a complement and of a successor.
LEMMA SignedComplement ==
    ASSUME NEW x \in Int
    PROVE  /\ Signed(Compl(x), WB) = -1 - Signed(x, WB)
           /\ Lo(x) # MaxW => Signed(x + 1, WB) = Signed(x, WB) + 1
  <1> DEFINE s == Signed(x, WB)
             l == Lo(x)
  <1>1. MinW \in Nat /\ MinW > 1 /\ MaxW = MinW - 1 /\ WordSize = 2 * MinW /\ WordSize \in Nat
    BY Sizes
  <1>2. s \in (-MinW)..MaxW /\ s \in Int /\ ToW(s) = ToW(x) /\ ToW(x) = l /\ l \in Words /\ l \in Int
    BY SignedWord, Casts, CastWithin
  <1>3. l \in 0..(WordSize - 1) /\ s = IF l >= MinW THEN l - WordSize ELSE l
    <2>1. Signed(l, WB) = s
      BY SignedLow
    <2> QED BY <1>2, <2>1, SignedOfWord, InSizes
  <1> HIDE DEF s, l
  <1>4. Compl(x) \in Int /\ ToW(Compl(x)) = WordSize - 1 - l
    BY Complements DEF l
  <1>5. Signed(Compl(x), WB) = -1 - s
    <2> DEFINE c == Compl(x)
               z == WordSize - 1 - l
    <2>1. z \in Words /\ c \in Int /\ ToW(c) = z
      BY <1>1, <1>3, <1>4, InSizes
    <2>2. z >= MinW <=> ~(l >= MinW)
      BY <1>1, <1>3
    <2>3. (IF z >= MinW THEN z - WordSize ELSE z) = -1 - s
      BY <1>1, <1>3, <2>2
    <2> HIDE DEF c, z
    <2>4. Signed(c, WB) = Signed(z, WB)
      <3>1. Lo(c) = z
        BY <2>1, Casts
      <3> QED BY <2>1, <3>1, SignedLow
    <2>5. Signed(z, WB) = IF z >= MinW THEN z - WordSize ELSE z
      BY <2>1, SignedOfWord
    <2> QED BY <2>3, <2>4, <2>5 DEF c
  <1>6. ASSUME l # MaxW PROVE Signed(x + 1, WB) = s + 1
    <2>1. s + 1 \in (-MinW)..MaxW /\ x + 1 \in Int
      BY <1>1, <1>2, <1>3, <1>6
    <2>2. ToW(ToW(s) + 1) = ToW(s + 1) /\ ToW(ToW(x) + 1) = ToW(x + 1)
      <3> DEFINE one == 1
      <3>1. one \in Int
        OBVIOUS
      <3> HIDE DEF one
      <3>2. ToW(ToW(s) + one) = ToW(s + one) /\ ToW(ToW(x) + one) = ToW(x + one)
        BY <1>2, <3>1, CastOfSum
      <3> QED BY <3>2 DEF one
    <2>3. ToW(s + 1) = ToW(x + 1)
      BY <1>2, <2>2
    <2> DEFINE y == x + 1
               t == s + 1
    <2> HIDE DEF y, t
    <2>4. y \in Int /\ t \in (-MinW)..MaxW /\ ToW(t) = ToW(y)
      BY <2>1, <2>3 DEF y, t
    <2>5. Signed(y, WB) = t
      BY <2>4, SignedWord
    <2> QED BY <2>5 DEF y, t
  <1> QED BY <1>5, <1>6 DEF s, l

\* The flags of a subtraction, which the host computes as an addition.
LEMMA SubtractionFlags ==
    ASSUME NEW x \in Int, NEW y \in Int, Lo(y) # MaxW
    PROVE  LET f == x86_add(Compl(x), y + 1)
               a == Signed(x, WB)
               b == Signed(y, WB)
           IN  /\ (b < a) <=> ~(f.sf <=> f.of)
               /\ f.zf <=> (a = b)
  <1> DEFINE c == Compl(x)
             z == y + 1
             f == x86_add(c, z)
             a == Signed(x, WB)
             b == Signed(y, WB)
             d == b - a
             r == ToW(c + z)
             s == Signed(c + z, WB)
  <1>1. MinW \in Nat /\ MinW > 1 /\ MaxW = MinW - 1 /\ WordSize = 2 * MinW /\ WordSize \in Nat
    BY Sizes
  <1>2. /\ a \in (-MinW)..MaxW /\ a \in Int /\ b \in (-MinW)..MaxW /\ b \in Int
        /\ c \in Int /\ z \in Int /\ Signed(c, WB) = -1 - a /\ Signed(z, WB) = b + 1
    <2>1. a \in (-MinW)..MaxW /\ a \in Int /\ b \in (-MinW)..MaxW /\ b \in Int
      BY SignedWord
    <2>2. c \in Int /\ Signed(c, WB) = -1 - a
      BY SignedComplement, Complements
    <2>3. Signed(z, WB) = b + 1
      BY SignedComplement
    <2>4. z \in Int
      OBVIOUS
    <2> QED BY <2>1, <2>2, <2>3, <2>4
  <1> HIDE DEF a, b, c, z
  <1>3. c + z \in Int
    BY <1>2
  <1>4. /\ f.sf = (r >= MinW) /\ f.zf = (r = 0)
        /\ f.of = (Signed(c, WB) + Signed(z, WB) # s)
    BY Zenon DEF x86_add, Flags
  <1>5. Signed(c, WB) + Signed(z, WB) = d
    BY <1>2
  <1>6. d \in Int /\ d > -WordSize /\ d < WordSize
    BY <1>1, <1>2
  <1>7. r = ToW(d)
    <2> DEFINE u == Signed(c, WB)
               v == Signed(z, WB)
    <2>1. u \in Int /\ v \in Int /\ ToW(u) = ToW(c) /\ ToW(v) = ToW(z) /\ ToW(c) \in Int
      BY <1>2, SignedWord, Casts, CastWithin
    <2>2. u + v = d
      BY <1>5
    <2> HIDE DEF u, v, d
    <2>3. ToW(ToW(c) + z) = ToW(c + z) /\ ToW(ToW(u) + v) = ToW(u + v)
      BY <1>2, <2>1, CastOfSum
    <2>4. ToW(ToW(c) + ToW(z)) = ToW(ToW(c) + z) /\ ToW(ToW(c) + ToW(v)) = ToW(ToW(c) + v)
      BY <1>2, <2>1, CastOfSum
    <2> QED BY <2>1, <2>2, <2>3, <2>4
  <1>8. r \in 0..(WordSize - 1) /\ s = IF r >= MinW THEN r - WordSize ELSE r
    <2> DEFINE e == c + z
    <2>1. e \in Int
      BY <1>3
    <2> HIDE DEF e
    <2>2. ToW(e) \in Words /\ Lo(e) = ToW(e) /\ Signed(Lo(e), WB) = Signed(e, WB)
      BY <2>1, Casts, SignedLow
    <2> QED BY <2>2, SignedOfWord, InSizes DEF e
  <1> HIDE DEF r, s, d
  <1>9. r = IF d >= 0 THEN d ELSE d + WordSize
    <2>1. CASE d >= 0
      <3>1. d \in 0..(WordSize - 1)
        BY <1>1, <1>6, <2>1
      <3> QED BY <1>1, <1>7, <2>1, <3>1, Within, InSizes
    <2>2. CASE ~(d >= 0)
      <3> DEFINE g == d + WordSize
                 m == -1
      <3>1. g \in 0..(WordSize - 1) /\ m \in Int /\ d = m * WordSize + g
        BY <1>1, <1>6, <2>2
      <3> HIDE DEF g, m
      <3>2. (m * WordSize + g) % WordSize = g
        BY <1>1, <3>1, DivideOnce
      <3> QED BY <1>7, <2>2, <3>1, <3>2, InSizes DEF g
    <2> QED BY <2>1, <2>2
  <1>10. (d < 0) <=> ~((r >= MinW) <=> (d # s))
    BY <1>1, <1>6, <1>8, <1>9
  <1>11. (r = 0) <=> (d = 0)
    BY <1>1, <1>6, <1>9
  <1>12. (d < 0 <=> b < a) /\ (d = 0 <=> a = b)
    BY <1>2 DEF d
  <1> HIDE DEF f
  <1>13. (f.sf <=> (r >= MinW)) /\ (f.zf <=> r = 0) /\ (f.of <=> (d # s))
    BY <1>4, <1>5, Zenon
  <1>14. (b < a) <=> ~(f.sf <=> f.of)
    BY <1>10, <1>12, <1>13, Zenon
  <1>15. f.zf <=> (a = b)
    BY <1>11, <1>12, <1>13, Zenon
  <1> QED BY <1>14, <1>15, Zenon DEF f, a, b, c, z

\* cmp and cmpl of words.
LEMMA CompareStep ==
    ASSUME Next, ic.op \in {"cmp", "cmpl"}, ic.i = 0, DOMAIN cr = CrFields,
           ic.d \in CrFields \ {0}
    PROVE  LET a == IF ic.op = "cmp" THEN Signed(gpr[ic.a], WB) ELSE Lo(gpr[ic.a])
               b == IF ic.op = "cmp" THEN Signed(gpr[ic.b], WB) ELSE Lo(gpr[ic.b])
           IN  /\ Goes /\ gpr' = gpr /\ xer' = xer /\ cr'[0] = cr[0]
               /\ cr'[ic.d] = (IF a < b THEN 8 ELSE IF a > b THEN 4 ELSE 2) + Bit(xer.so)
  <1> DEFINE a == IF ic.op = "cmp" THEN Signed(gpr[ic.a], WB) ELSE Lo(gpr[ic.a])
             b == IF ic.op = "cmp" THEN Signed(gpr[ic.b], WB) ELSE Lo(gpr[ic.b])
             logical == ic.op \in {"cmpl", "cmpli"}
             c == IF a < b THEN 4 ELSE IF a > b THEN 2 ELSE 1
             e == c * 2 + Bit(xer.so)
  <1>1. Compare
    BY IdiomaticActions DEF Idiomatic
  <1>2. Comparand(REG1, logical) = a /\ Comparand(REG2, logical) = b
    BY DEF Comparand, REG1, REG2
  <1>3. Complete(gpr, xer, [cr EXCEPT ![ic.d] = e])
    <2> HIDE DEF a, b, logical
    <2>1. /\ (ic.op = "cmpi") = FALSE /\ (ic.op = "cmpli") = FALSE
      OBVIOUS
    <2> QED BY <1>1, <1>2, <2>1 DEF Compare, logical
  <1> HIDE DEF a, b
  <1>4. e = (IF a < b THEN 8 ELSE IF a > b THEN 4 ELSE 2) + Bit(xer.so)
    BY DEF Bit
  <1> HIDE DEF e
  <1>5. Goes /\ gpr' = gpr /\ xer' = xer /\ cr' = [cr EXCEPT ![ic.d] = e]
    BY <1>3 DEF Complete, Goes
  <1>6. 0 \in CrFields
    <2>1. WB \in Nat /\ WB >= 4
      BY Widths
    <2> QED BY <2>1 DEF CrFields
  <1>7. cr'[ic.d] = e /\ cr'[0] = cr[0]
    BY <1>5, <1>6
  <1> QED BY <1>4, <1>5, <1>7 DEF a, b

\* What subfo. leaves in CR0 and XER.
Subtracted ==
    (k = 2 /\ 2 <= Len(prog) /\ prog[1].op = "subf" /\ prog[1].oe /\ prog[1].rc
       /\ prog[1].d \notin {prog[1].a, prog[1].b} /\ Lo(gpr[prog[1].b]) # MaxW) =>
    LET i == prog[1]
        a == Signed(gpr[i.a], WB)
        b == Signed(gpr[i.b], WB)
    IN  /\ gpr \in [Regs -> Doubles] /\ DOMAIN cr = CrFields
        /\ ((cr[0] >= 8) # xer.ov) = (b < a)
        /\ (cr[0] \div 2) % 2 = Bit(a = b)

\* The flags of the host in CR0.
LEMMA HostField ==
    ASSUME NEW f, NEW x
    PROVE  LET v == update_cr0_host(f, x)
           IN  (v >= 8 <=> f.sf) /\ (v \div 2) % 2 = Bit(f.zf) /\ v \in Int
  <1> DEFINE s == IF f.sf THEN 8 ELSE 4
             z == IF f.zf THEN 2 ELSE 0
             o == Bit(x.so)
             v == s + z + o
  <1>1. update_cr0_host(f, x) = v
    BY DEF update_cr0_host
  <1>2. ((s = 8 /\ f.sf) \/ (s = 4 /\ ~f.sf)) /\ ((z = 2 /\ f.zf) \/ (z = 0 /\ ~f.zf)) /\ o \in {0, 1}
    <2>1. (s = 8 /\ f.sf) \/ (s = 4 /\ ~f.sf)
      BY Zenon
    <2>2. (z = 2 /\ f.zf) \/ (z = 0 /\ ~f.zf)
      BY Zenon
    <2>3. o \in {0, 1}
      BY DEF Bit
    <2> QED BY <2>1, <2>2, <2>3
  <1>3. Bit(f.zf) = IF z = 2 THEN 1 ELSE 0
    BY <1>2 DEF Bit
  <1> HIDE DEF s, z, o
  <1>4. (v >= 8 <=> s = 8) /\ (v \div 2) % 2 = (IF z = 2 THEN 1 ELSE 0) /\ v \in Int
    BY <1>2
  <1>5. s = 8 <=> f.sf
    BY <1>2
  <1> HIDE DEF v
  <1> QED BY <1>1, <1>3, <1>4, <1>5

\* The step of subfo.
LEMMA SubtractedStep ==
    ASSUME Begun, Started, Next, Goes
    PROVE  Subtracted'
  <1> DEFINE i == prog[1]
             x == gpr[i.a]
             y == gpr[i.b]
             f == x86_add(Compl(x), y + 1)
             r == update_xer_so_ov_host(xer, f)
             v == ExtsW(f.r)
  <1> SUFFICES ASSUME k' = 2, 2 <= Len(prog), i.op = "subf", i.oe, i.rc, i.d \notin {i.a, i.b},
                      Lo(gpr'[i.b]) # MaxW
               PROVE  LET a == Signed(gpr'[i.a], WB)
                          b == Signed(gpr'[i.b], WB)
                      IN  /\ gpr' \in [Regs -> Doubles] /\ DOMAIN cr' = CrFields
                          /\ ((cr'[0] >= 8) # xer'.ov) = (b < a)
                          /\ (cr'[0] \div 2) % 2 = Bit(a = b)
    <2>1. prog' = prog
      BY DEF Goes
    <2> QED BY <2>1, Zenon DEF Subtracted
  <1>1. k = 1
    BY DEF Goes, Begun
  <1>2. /\ Supplied /\ ic = i /\ DOMAIN xer = {"so", "ov", "ca"} /\ DOMAIN cr = CrFields
        /\ 0 \in CrFields
    <2>1. WB \in Nat /\ WB >= 4
      BY Widths
    <2>2. 0 \in CrFields
      BY <2>1 DEF CrFields
    <2> QED BY <1>1, <2>2 DEF Begun, Started, Supplied, ic
  <1>3. x \in Int /\ y \in Int /\ REG1 = x /\ REG2 = y
    BY <1>2, Supplies
  <1>4. CompleteHost(v, f, FALSE)
    <2>1. Subtract
      BY <1>2, IdiomaticActions DEF Idiomatic
    <2>2. Minuend(ic.op) = REG2 + 1
      BY <1>2 DEF Minuend
    <2>3. (ic.op # "subf") = FALSE
      BY <1>2
    <2> QED BY <1>3, <2>1, <2>2, <2>3 DEF Subtract
  <1>5. v \in Doubles
    <2>1. f.r = ToW(Compl(x) + (y + 1))
      BY Zenon DEF x86_add, Flags
    <2>2. Compl(x) + (y + 1) \in Int
      <3>1. Compl(x) \in Int
        BY <1>3, Complements
      <3> QED BY <1>3, <3>1
    <2> DEFINE e == Compl(x) + (y + 1)
    <2> HIDE DEF e, f
    <2>3. f.r \in Int
      BY <2>1, <2>2, Casts, CastWithin DEF e
    <2> QED BY <2>3, Extended
  <1>6. f.of \in BOOLEAN
    BY DEF x86_add, Flags
  <1> HIDE DEF f, v
  <1>7. gpr' = [gpr EXCEPT ![i.d] = v] /\ xer' = r /\ cr' = [cr EXCEPT ![0] = update_cr0_host(f, r)]
    BY <1>2, <1>4 DEF CompleteHost, Complete
  <1>8. gpr' \in [Regs -> Doubles] /\ gpr'[i.a] = x /\ gpr'[i.b] = y
    BY <1>2, <1>5, <1>7, Written DEF Supplied
  <1>9. DOMAIN cr' = CrFields /\ cr'[0] = update_cr0_host(f, r)
    BY <1>2, <1>7
  <1>10. xer'.ov = f.of
    BY <1>2, <1>7 DEF update_xer_so_ov_host
  <1>11. (cr'[0] >= 8 <=> f.sf) /\ (cr'[0] \div 2) % 2 = Bit(f.zf)
    <2> HIDE DEF r
    <2> QED BY <1>9, HostField
  <1> DEFINE a == Signed(x, WB)
             b == Signed(y, WB)
  <1>12. ((b < a) <=> ~(f.sf <=> f.of)) /\ (f.zf <=> (a = b))
    <2>1. Lo(y) # MaxW
      BY <1>8
    <2> QED BY <1>3, <2>1, SubtractionFlags DEF f
  <1> HIDE DEF a, b
  <1>13. ((cr'[0] >= 8) # xer'.ov) = (b < a)
    <2>1. (b < a) <=> ~((cr'[0] >= 8) <=> xer'.ov)
      BY <1>10, <1>11, <1>12, Zenon
    <2>2. xer'.ov \in BOOLEAN
      BY <1>6, <1>10
    <2> DEFINE c == cr'[0] >= 8
               o == xer'.ov
               l == b < a
    <2>3. c \in BOOLEAN /\ l \in BOOLEAN
      OBVIOUS
    <2>4. o \in BOOLEAN /\ (l <=> ~(c <=> o))
      BY <2>1, <2>2, Zenon
    <2> HIDE DEF c, o, l
    <2>5. (c # o) = l
      BY <2>3, <2>4
    <2> QED BY <2>5 DEF c, o, l
  <1>14. (cr'[0] \div 2) % 2 = Bit(a = b)
    BY <1>11, <1>12 DEF Bit
  <1> QED BY <1>8, <1>9, <1>13, <1>14, Zenon DEF a, b

\* The compare after the subtraction: signed, with CR0 and OV.
LEMMA SignedCompare ==
    ASSUME Begun, Subtracted, Next, Goes,
           Ended(<<"subf", "cmp">>)', Compared(1, 2)', prog[1].oe, prog[1].rc,
           Lo(gpr'[prog[1].b]) # MaxW
    PROVE  LET field == cr'[prog[2].d]
           IN  /\ (field >= 8) = ((cr'[0] >= 8) # xer'.ov)
               /\ (field \div 2) % 2 = (cr'[0] \div 2) % 2
  <1> DEFINE i == prog[1]
             j == prog[2]
             a == Signed(gpr[i.a], WB)
             b == Signed(gpr[i.b], WB)
             field == cr'[j.d]
  <1>1. prog' = prog /\ k = 2 /\ Len(prog) = 2 /\ i.op = "subf" /\ j.op = "cmp" /\ ic = j
    BY EndsOfTwo DEF ic
  <1>2. /\ i.d \notin {i.a, i.b} /\ j.a = i.b /\ j.b = i.a /\ j.i = 0 /\ j.d \in CrFields \ {0}
    BY <1>1, Zenon DEF Compared
  <1>3. gpr' = gpr /\ i.b \in Regs
    <2>1. Compare
      BY <1>1, IdiomaticActions DEF Idiomatic
    <2> QED BY <1>1, <2>1 DEF Compare, Complete, Begun
  <1>4. /\ gpr \in [Regs -> Doubles] /\ DOMAIN cr = CrFields
        /\ ((cr[0] >= 8) # xer.ov) = (b < a) /\ (cr[0] \div 2) % 2 = Bit(a = b)
    <2>1. 2 <= Len(prog) /\ Lo(gpr[i.b]) # MaxW
      BY <1>1, <1>3
    <2> QED BY <1>1, <1>2, <2>1, Zenon DEF Subtracted
  <1>5. /\ xer' = xer /\ cr'[0] = cr[0]
        /\ field = (IF b < a THEN 8 ELSE IF b > a THEN 4 ELSE 2) + Bit(xer.so)
    BY <1>1, <1>2, <1>4, CompareStep
  <1>6. a \in Int /\ b \in Int
    <2>1. i.a \in Regs /\ gpr[i.a] \in Int /\ gpr[i.b] \in Int
      BY <1>1, <1>3, <1>4, CastWithin DEF Begun
    <2> QED BY <2>1, SignedWord
  <1> HIDE DEF a, b, field
  <1> DEFINE o == Bit(xer.so)
  <1>7. o \in {0, 1}
    BY DEF Bit
  <1>8. field = (IF b < a THEN 8 ELSE IF b > a THEN 4 ELSE 2) + o
    BY <1>5
  <1> HIDE DEF o
  <1>9. (field >= 8 <=> b < a) /\ (field \div 2) % 2 = IF a = b THEN 1 ELSE 0
    BY <1>6, <1>7, <1>8
  <1>10. (field \div 2) % 2 = Bit(a = b)
    BY <1>9 DEF Bit
  <1>11. (field >= 8) = ((cr[0] >= 8) # xer.ov)
    <2>1. (field >= 8) = (b < a)
      BY <1>9
    <2> QED BY <1>4, <2>1, Zenon
  <1> QED BY <1>4, <1>5, <1>10, <1>11, Zenon DEF field

\* Logical, with CA.
LEMMA LogicalCompare ==
    ASSUME Begun, Prepared, Next, Goes,
           Ended(<<"mcrxr", "subfc", "cmpl">>)', Compared(2, 3)',
           Lo(gpr'[prog[2].b]) # WordSize - 1
    PROVE  xer'.ca = (cr'[prog[3].d] < 8)
  <1> DEFINE i == prog[2]
             j == prog[3]
             a == Lo(gpr[i.a])
             b == Lo(gpr[i.b])
             field == cr'[j.d]
  <1>1. /\ prog' = prog /\ k = 3 /\ Len(prog) = 3 /\ prog[1].op = "mcrxr"
        /\ i.op = "subfc" /\ j.op = "cmpl" /\ ic = j
    BY EndsOfThree DEF ic
  <1>2. /\ i.d \notin {i.a, i.b} /\ j.a = i.b /\ j.b = i.a /\ j.i = 0 /\ j.d \in CrFields \ {0}
    BY <1>1, Zenon DEF Compared
  <1>3. gpr' = gpr /\ i.b \in Regs /\ i.a \in Regs
    <2>1. Compare
      BY <1>1, IdiomaticActions DEF Idiomatic
    <2> QED BY <1>1, <2>1 DEF Compare, Complete, Begun
  <1>4. gpr \in [Regs -> Doubles] /\ DOMAIN cr = CrFields /\ xer.ca = (b >= a)
    BY <1>1, <1>2, <1>3 DEF Prepared
  <1>5. xer' = xer /\ field = (IF b < a THEN 8 ELSE IF b > a THEN 4 ELSE 2) + Bit(xer.so)
    BY <1>1, <1>2, <1>4, CompareStep
  <1>6. a \in Int /\ b \in Int
    <2>1. gpr[i.a] \in Int /\ gpr[i.b] \in Int
      BY <1>3, <1>4, CastWithin
    <2> QED BY <2>1, Casts, CastWithin
  <1> HIDE DEF a, b, field
  <1>7. (field < 8) = (b >= a)
    <2>1. Bit(xer.so) \in {0, 1}
      BY DEF Bit
    <2> DEFINE o == Bit(xer.so)
    <2>2. o \in {0, 1} /\ field = (IF b < a THEN 8 ELSE IF b > a THEN 4 ELSE 2) + o
      BY <1>5, <2>1
    <2> HIDE DEF o
    <2> QED BY <1>6, <2>2
  <1> QED BY <1>4, <1>5, <1>7, Zenon DEF field

\* ComparesAgree: subtractions order words as compares do, for words of any width.
THEOREM FlagsCompare == Spec => []ComparesAgree
  <1> DEFINE Inv == Begun /\ Started /\ Prepared /\ Subtracted /\ ComparesAgree
  <1>1. Init => Inv
    <2> SUFFICES ASSUME Init PROVE Prepared /\ Subtracted /\ ComparesAgree
      BY BegunInvariance, StartedInvariance
    <2>1. k = 1 /\ Len(prog) \in Nat
      BY BegunInvariance DEF Init, Begun
    <2>2. Prepared /\ Subtracted
      BY <2>1 DEF Prepared, Subtracted
    <2>3. \A x, y, z : ~Ended(<<x, y, z>>) /\ ~Ended(<<x, y>>)
      BY <2>1 DEF Ended
    <2> QED BY <2>2, <2>3 DEF ComparesAgree
  <1>2. Inv /\ [Next]_vars => Inv'
    <2> SUFFICES ASSUME Inv, [Next]_vars PROVE Prepared' /\ Subtracted' /\ ComparesAgree'
      BY BegunInvariance, StartedInvariance
    <2>1. CASE Goes /\ Next
      <3>1. prog' = prog
        BY <2>1 DEF Goes
      <3>2. ComparesAgree'
        BY <2>1, <3>1, SignedCompare, LogicalCompare, Zenon DEF ComparesAgree, WordSize
      <3> QED BY <2>1, <3>2, PreparedStep, SubtractedStep
    <2>2. CASE Stops \/ UNCHANGED vars
      <3>1. UNCHANGED <<gpr, xer, cr, prog, k>>
        BY <2>2 DEF Stops, vars
      <3>2. Prepared' /\ Subtracted'
        BY <3>1, Zenon DEF Prepared, Subtracted
      <3>3. ComparesAgree'
        BY <3>1, Zenon DEF ComparesAgree, Ended, Compared
      <3> QED BY <3>2, <3>3
    <2> QED BY <2>1, <2>2, Steps
  <1>3. Inv => ComparesAgree
    OBVIOUS
  <1> QED BY <1>1, <1>2, <1>3, PTL DEF Spec

---------------------------------------------------------------------------
(* The two lanes of registers: bits, fields and the pairs of instructions that promise
   the same word *)

\* The partial sums of a conjunction: within both operands, and the two together within
\* their width.
LEMMA PartialSums ==
    ASSUME NEW x \in Int, NEW y \in Int, NEW g \in [0..DB -> Int], g[0] = 0,
           \A n \in 1..DB : g[n] = g[n - 1] + Bit0(x, n - 1) * Bit0(y, n - 1) * 2^(n - 1),
           NEW m \in 0..DB
    PROVE  /\ g[m] >= 0 /\ g[m] <= x % 2^m /\ g[m] <= y % 2^m
           /\ (x % 2^m) + (y % 2^m) - g[m] <= 2^m - 1
  <1> DEFINE r(n) == x % 2^n
             s(n) == y % 2^n
             P(n) == g[n] >= 0 /\ g[n] <= r(n) /\ g[n] <= s(n) /\ r(n) + s(n) - g[n] <= 2^n - 1
             S == {n \in 0..DB : ~P(n)}
  <1>0. DB \in Nat
    BY Widths
  <1>1. S = {}
    <2> SUFFICES ASSUME S # {} PROVE FALSE
      OBVIOUS
    <2>0. S \subseteq Nat
      BY <1>0
    <2>1. PICK n \in S : \A i \in S : n <= i
      <3> HIDE DEF S
      <3> QED BY <2>0, LeastNatural
    <2>2. n # 0
      <3>1. P(0)
        <4>1. 2^0 = 1
          BY WidthAssumption
        <4>2. r(0) = 0 /\ s(0) = 0
          BY <4>1
        <4> HIDE DEF r, s
        <4> QED BY <4>1, <4>2
      <3> HIDE DEF P
      <3> QED BY <2>1, <3>1
    <2>3. n \in 1..DB /\ n - 1 \in 0..DB
      BY <1>0, <2>1, <2>2
    <2>4. P(n - 1)
      <3>1. n - 1 \notin S
        <4> HIDE DEF S
        <4> QED BY <1>0, <2>1, <2>3
      <3> HIDE DEF P
      <3> QED BY <2>3, <3>1
    <2> DEFINE b == Bit0(x, n - 1)
               c == Bit0(y, n - 1)
               p == 2^(n - 1)
    <2>5. /\ g[n] = g[n - 1] + b * c * p
          /\ r(n) = r(n - 1) + b * p /\ s(n) = s(n - 1) + c * p
          /\ b \in {0, 1} /\ c \in {0, 1} /\ p \in Nat /\ 2^n = 2 * p
          /\ r(n) \in Int /\ r(n - 1) \in Int /\ s(n) \in Int /\ s(n - 1) \in Int
      BY <2>3, NextBit, Powers, Doubling
    <2>6. g[n - 1] >= 0 /\ g[n - 1] <= r(n - 1) /\ g[n - 1] <= s(n - 1)
          /\ r(n - 1) + s(n - 1) - g[n - 1] <= p - 1
      BY <2>4
    <2>7. g[n - 1] \in Int
      BY <2>3
    <2> HIDE DEF b, c, p, r, s
    <2>9. ASSUME NEW t \in {0, p}, NEW d \in {0, p}, NEW e \in {0, p}, t <= d, t <= e,
                 d + e - t <= p,
                 g[n] = g[n - 1] + t, r(n) = r(n - 1) + d, s(n) = s(n - 1) + e
          PROVE  P(n)
      <3>1. p \in Nat /\ 2^n = 2 * p /\ r(n - 1) \in Int /\ s(n - 1) \in Int
        BY <2>5
      <3> DEFINE w == 2^n
      <3>2. w = 2 * p
        BY <3>1
      <3> HIDE DEF w
      <3>4. t \in Int /\ d \in Int /\ e \in Int /\ t >= 0
        BY <3>1
      <3> DEFINE g0 == g[n - 1]
                 g1 == g[n]
                 r0 == r(n - 1)
                 r1 == r(n)
                 s0 == s(n - 1)
                 s1 == s(n)
      <3>5. /\ g0 >= 0 /\ g0 <= r0 /\ g0 <= s0 /\ r0 + s0 - g0 <= p - 1
            /\ g0 \in Int /\ r0 \in Int /\ s0 \in Int
            /\ g1 = g0 + t /\ r1 = r0 + d /\ s1 = s0 + e
        BY <2>6, <2>7, <2>9, <3>1
      <3> HIDE DEF g0, g1, r0, r1, s0, s1
      <3>6. g1 >= 0 /\ g1 <= r1 /\ g1 <= s1 /\ r1 + s1 - g1 <= w - 1
        BY <2>9, <3>1, <3>2, <3>4, <3>5
      <3>3. g[n] >= 0 /\ g[n] <= r(n) /\ g[n] <= s(n) /\ r(n) + s(n) - g[n] <= w - 1
        BY <3>6 DEF g0, g1, r0, r1, s0, s1
      <3> QED BY <3>3 DEF w
    <2> HIDE DEF P
    <2>8. P(n)
      <3>1. CASE b = 0 /\ c = 0
        <4>1. b * c * p = 0 /\ b * p = 0 /\ c * p = 0
          BY <2>5, <3>1
        <4>2. g[n] = g[n - 1] + 0 /\ r(n) = r(n - 1) + 0 /\ s(n) = s(n - 1) + 0
          BY <2>5, <4>1
        <4> QED BY <2>5, <2>9, <4>2
      <3>2. CASE b = 1 /\ c = 0
        <4>1. b * c * p = 0 /\ b * p = p /\ c * p = 0
          BY <2>5, <3>2
        <4>2. g[n] = g[n - 1] + 0 /\ r(n) = r(n - 1) + p /\ s(n) = s(n - 1) + 0
          BY <2>5, <4>1
        <4> QED BY <2>5, <2>9, <4>2
      <3>3. CASE b = 0 /\ c = 1
        <4>1. b * c * p = 0 /\ b * p = 0 /\ c * p = p
          BY <2>5, <3>3
        <4>2. g[n] = g[n - 1] + 0 /\ r(n) = r(n - 1) + 0 /\ s(n) = s(n - 1) + p
          BY <2>5, <4>1
        <4> QED BY <2>5, <2>9, <4>2
      <3>4. CASE b = 1 /\ c = 1
        <4>1. b * c * p = p /\ b * p = p /\ c * p = p
          BY <2>5, <3>4
        <4>2. g[n] = g[n - 1] + p /\ r(n) = r(n - 1) + p /\ s(n) = s(n - 1) + p
          BY <2>5, <4>1
        <4> QED BY <2>5, <2>9, <4>2
      <3> QED BY <2>5, <3>1, <3>2, <3>3, <3>4
    <2> HIDE DEF P
    <2> QED BY <2>1, <2>8
  <1> QED
    <2>1. P(m)
      <3> HIDE DEF P
      <3> QED BY <1>1
    <2> QED BY <2>1

\* Conjunctions, disjunctions and exclusive ors of registers are registers.
LEMMA AndRange ==
    ASSUME NEW x \in Int, NEW y \in Int
    PROVE  /\ (x & y) \in Int /\ (x & y) >= 0
           /\ (x & y) <= ToD(x) /\ (x & y) <= ToD(y)
           /\ ToD(x) + ToD(y) - (x & y) <= DoubleSize - 1
  <1>1. PICK g \in [0..DB -> Int] :
              /\ (x & y) = g[DB] /\ g[0] = 0
              /\ \A n \in 1..DB : g[n] = g[n - 1] + Bit0(x, n - 1) * Bit0(y, n - 1) * 2^(n - 1)
    BY And
  <1>2. DB \in 0..DB
    BY Widths
  <1>3. /\ g[DB] >= 0 /\ g[DB] <= x % 2^DB /\ g[DB] <= y % 2^DB
        /\ (x % 2^DB) + (y % 2^DB) - g[DB] <= 2^DB - 1
    BY <1>1, <1>2, PartialSums
  <1> QED BY <1>1, <1>2, <1>3 DEF ToD, DoubleSize

\* So of words, and those of words words.
LEMMA BitwiseTypes ==
    /\ \A x, y \in Doubles : (x & y) \in Doubles /\ (x | y) \in Doubles /\ (x ^^ y) \in Doubles
    /\ \A x \in Int, y \in Doubles : (x & y) \in Doubles
    /\ \A x \in Doubles, y \in Int : (x & y) \in Doubles
    /\ \A x \in Doubles : Compl(x) \in Doubles
  <1>1. ASSUME NEW x \in Doubles, NEW y \in Doubles
        PROVE  (x & y) \in Doubles /\ (x | y) \in Doubles /\ (x ^^ y) \in Doubles
    <2>1. x \in Int /\ y \in Int /\ ToD(x) = x /\ ToD(y) = y /\ x \in 0..(DoubleSize - 1) /\ y \in 0..(DoubleSize - 1)
      BY CastWithin, InSizes
    <2>2. /\ (x & y) \in Int /\ (x & y) >= 0 /\ (x & y) <= x /\ (x & y) <= y
          /\ x + y - (x & y) <= DoubleSize - 1
      BY <2>1, AndRange
    <2> DEFINE a == (x & y)
    <2>3. (x | y) = x + y - a /\ (x ^^ y) = x + y - 2 * a
      BY DEF |, ^^
    <2> HIDE DEF a
    <2>4. a \in Int /\ a >= 0 /\ a <= x /\ a <= y /\ x + y - a <= DoubleSize - 1
      BY <2>2 DEF a
    <2>5. a \in 0..(DoubleSize - 1) /\ x + y - a \in 0..(DoubleSize - 1)
          /\ x + y - 2 * a \in 0..(DoubleSize - 1)
      BY <2>1, <2>4, Sizes
    <2> QED BY <2>3, <2>5, InSizes DEF a
  <1>2. ASSUME NEW x \in Int, NEW y \in Doubles
        PROVE  (x & y) \in Doubles /\ (y & x) \in Doubles
    <2>1. y \in Int /\ ToD(y) = y /\ y \in 0..(DoubleSize - 1)
      BY CastWithin, InSizes
    <2>2. (x & y) \in Int /\ (x & y) >= 0 /\ (x & y) <= y
      BY <2>1, AndRange
    <2>3. (y & x) \in Int /\ (y & x) >= 0 /\ (y & x) <= y
      BY <2>1, AndRange
    <2> DEFINE a == (x & y)
               b == (y & x)
    <2>4. a \in Int /\ a >= 0 /\ a <= y /\ b \in Int /\ b >= 0 /\ b <= y
      BY <2>2, <2>3
    <2> HIDE DEF a, b
    <2>5. a \in 0..(DoubleSize - 1) /\ b \in 0..(DoubleSize - 1)
      BY <2>1, <2>4, Sizes
    <2> QED BY <2>5, InSizes DEF a, b
  <1>3. ASSUME NEW x \in Doubles
        PROVE  Compl(x) \in Doubles
    <2>1. x \in 0..(DoubleSize - 1)
      BY InSizes
    <2>2. DoubleSize - 1 - x \in 0..(DoubleSize - 1)
      BY <2>1, Sizes
    <2> QED BY <2>2, InSizes
  <1> QED BY <1>1, <1>2, <1>3

\* Above its width a remainder has no bits.
LEMMA BitsAbove ==
    ASSUME NEW x \in Int, NEW u \in 0..DB, NEW j \in u..(DB - 1)
    PROVE  Bit0(x % 2^u, j) = 0
  <1>1. j \in 0..DB /\ u \in 0..j
    BY Widths
  <1>2. 2^u \in Nat /\ 2^u > 0 /\ 2^j \in Nat /\ 2^j > 0 /\ 2^u <= 2^j
    BY <1>1, Powers, PowerOrder
  <1>3. x % 2^u \in 0..(2^u - 1)
    BY <1>2, Division
  <1> DEFINE r == x % 2^u
             d == 2^j
             e == 2^u
  <1>4. r \in 0..(d - 1) /\ d \in Nat /\ d > 0
    <2>1. r \in 0..(e - 1) /\ e <= d /\ d \in Nat /\ e \in Nat /\ d > 0
      BY <1>2, <1>3
    <2> HIDE DEF r, d, e
    <2> QED BY <2>1
  <1>5. r \div d = 0
    <2> HIDE DEF r, d
    <2> QED BY <1>4, Within
  <1> HIDE DEF r, d
  <1>6. (r \div d) % 2 = 0
    BY <1>5
  <1> QED BY <1>6 DEF Bit0, r, d

\* The low word of a conjunction is that of the low words.
LEMMA LowAnd ==
    ASSUME NEW x \in Int, NEW y \in Int
    PROVE  Lo(x & y) = (Lo(x) & Lo(y))
  <1> DEFINE a == Lo(x)
             b == Lo(y)
  <1>0. DB \in Nat /\ WB \in Nat /\ DB = 2 * WB /\ WB >= 4 /\ WB \in 0..DB
    BY Widths
  <1>1. PICK g \in [0..DB -> Int] :
              /\ (x & y) = g[DB] /\ g[0] = 0
              /\ \A n \in 1..DB : g[n] = g[n - 1] + Bit0(x, n - 1) * Bit0(y, n - 1) * 2^(n - 1)
    BY And
  <1>2. a \in Int /\ b \in Int
    BY Casts, CastWithin
  <1>3. PICK h \in [0..DB -> Int] :
              /\ (a & b) = h[DB] /\ h[0] = 0
              /\ \A n \in 1..DB : h[n] = h[n - 1] + Bit0(a, n - 1) * Bit0(b, n - 1) * 2^(n - 1)
    <2> HIDE DEF a, b
    <2> QED BY <1>2, And
  <1>4. \A n \in 1..DB : /\ n <= WB => Bit0(a, n - 1) = Bit0(x, n - 1) /\ Bit0(b, n - 1) = Bit0(y, n - 1)
                         /\ n > WB => Bit0(a, n - 1) = 0
    <2> SUFFICES ASSUME NEW n \in 1..DB
                 PROVE  /\ n <= WB => Bit0(a, n - 1) = Bit0(x, n - 1) /\ Bit0(b, n - 1) = Bit0(y, n - 1)
                        /\ n > WB => Bit0(a, n - 1) = 0
      OBVIOUS
    <2>1. ASSUME n <= WB PROVE Bit0(a, n - 1) = Bit0(x, n - 1) /\ Bit0(b, n - 1) = Bit0(y, n - 1)
      <3>1. n - 1 \in 0..(WB - 1)
        BY <1>0, <2>1
      <3> QED BY <1>0, <3>1, BitOfRest DEF Lo
    <2>2. ASSUME n > WB PROVE Bit0(a, n - 1) = 0
      <3>1. n - 1 \in WB..(DB - 1)
        BY <1>0, <2>2
      <3> QED BY <1>0, <3>1, BitsAbove DEF Lo
    <2> QED BY <2>1, <2>2
  <1> DEFINE P(n) == IF n <= WB THEN h[n] = g[n] ELSE h[n] = g[WB] /\ g[n] % WordSize = g[WB] % WordSize
             S == {n \in 0..DB : ~P(n)}
  <1>5. S = {}
    <2> SUFFICES ASSUME S # {} PROVE FALSE
      OBVIOUS
    <2>0. S \subseteq Nat
      BY <1>0
    <2>1. PICK n \in S : \A i \in S : n <= i
      <3> HIDE DEF S
      <3> QED BY <2>0, LeastNatural
    <2>2. n # 0
      <3>1. P(0)
        BY <1>0, <1>1, <1>3
      <3> HIDE DEF P
      <3> QED BY <2>1, <3>1
    <2>3. n \in 1..DB /\ n - 1 \in 0..DB
      BY <1>0, <2>1, <2>2
    <2>4. P(n - 1)
      <3>1. n - 1 \notin S
        <4> HIDE DEF S
        <4> QED BY <1>0, <2>1, <2>3
      <3> HIDE DEF P
      <3> QED BY <2>3, <3>1
    <2>5. P(n)
      <3>1. CASE n <= WB
        <4>1. n - 1 <= WB
          BY <1>0, <2>3, <3>1
        <4>2. h[n - 1] = g[n - 1]
          BY <2>4, <4>1
        <4>3. h[n] = g[n]
          BY <1>1, <1>3, <1>4, <2>3, <3>1, <4>2
        <4> QED BY <3>1, <4>3
      <3>2. CASE n > WB
        <4> DEFINE p == 2^(n - 1)
                   q == 2^((n - 1) - WB)
                   t == Bit0(x, n - 1) * Bit0(y, n - 1)
        <4>1. p = q * WordSize /\ q \in Nat
          <5>1. n - 1 \in 0..DB /\ WB \in 0..(n - 1)
            BY <1>0, <2>3, <3>2
          <5> QED BY <5>1, PowerMultiple DEF WordSize
        <4>2. t \in Int
          <5>1. Bit0(x, n - 1) \in {0, 1} /\ Bit0(y, n - 1) \in {0, 1}
            BY <2>3, NextBit
          <5> DEFINE c == Bit0(x, n - 1)
                     d == Bit0(y, n - 1)
          <5>2. c \in {0, 1} /\ d \in {0, 1}
            BY <5>1
          <5> HIDE DEF c, d
          <5>3. c * d \in Int
            BY <5>2
          <5> QED BY <5>3 DEF c, d
        <4>3. g[n] = g[n - 1] + t * p /\ g[n - 1] \in Int
          BY <1>1, <2>3
        <4>4. h[n] = h[n - 1]
          <5>1. h[n] = h[n - 1] + Bit0(a, n - 1) * Bit0(b, n - 1) * 2^(n - 1)
            BY <1>3, <2>3
          <5>2. Bit0(a, n - 1) = 0
            BY <1>4, <2>3, <3>2
          <5>3. Bit0(b, n - 1) \in Int /\ 2^(n - 1) \in Int /\ h[n - 1] \in Int
            <6>1. b \in Int
              BY <1>2
            <6> HIDE DEF b
            <6>2. Bit0(b, n - 1) \in {0, 1}
              BY <2>3, <6>1, NextBit
            <6> QED BY <2>3, <6>2, Powers
          <5> QED BY <5>1, <5>2, <5>3
        <4> HIDE DEF p, q, t
        <4>5. t * p = (t * q) * WordSize /\ t * q \in Int
          BY <4>1, <4>2, Sizes
        <4> DEFINE z == t * q
        <4>6. g[n] = g[n - 1] + z * WordSize /\ z \in Int
          BY <4>3, <4>5
        <4> HIDE DEF z
        <4>7. g[n] % WordSize = g[n - 1] % WordSize
          <5> DEFINE v == g[n - 1]
          <5>1. v \in Int /\ g[n] = v + z * WordSize
            BY <4>3, <4>6
          <5> HIDE DEF v
          <5>2. (v + z * WordSize) % WordSize = v % WordSize
            BY <4>6, <5>1, AddMultiple, Sizes
          <5> QED BY <5>1, <5>2 DEF v
        <4>8. h[n - 1] = g[WB] /\ g[n - 1] % WordSize = g[WB] % WordSize
          <5>1. CASE n - 1 <= WB
            <6>1. n - 1 = WB
              BY <1>0, <2>3, <3>2, <5>1
            <6> QED BY <2>4, <6>1
          <5>2. CASE ~(n - 1 <= WB)
            BY <2>4, <5>2
          <5> QED BY <5>1, <5>2
        <4>9. ~(n <= WB)
          BY <1>0, <2>3, <3>2
        <4> QED BY <4>4, <4>7, <4>8, <4>9
      <3> QED BY <1>0, <2>3, <3>1, <3>2
    <2> HIDE DEF P
    <2> QED BY <2>1, <2>5
  <1>6. P(DB)
    <2>1. DB \in 0..DB
      BY <1>0
    <2> HIDE DEF P
    <2> QED BY <1>5, <2>1
  <1>7. h[DB] = g[WB] /\ g[DB] % WordSize = g[WB] % WordSize
    <2>1. ~(DB <= WB)
      BY <1>0
    <2> QED BY <1>6, <2>1
  <1>8. g[WB] % WordSize = g[WB]
    <2>1. g[WB] >= 0 /\ g[WB] <= x % 2^WB
      BY <1>0, <1>1, PartialSums
    <2>2. x % WordSize \in 0..(WordSize - 1)
      BY Sizes, Division
    <2>3. g[WB] \in 0..(WordSize - 1)
      <3>1. g[WB] \in Int /\ g[WB] <= x % WordSize
        BY <1>0, <2>1 DEF WordSize
      <3> DEFINE r == x % WordSize
      <3>2. g[WB] <= r /\ r \in 0..(WordSize - 1)
        BY <2>2, <3>1
      <3> HIDE DEF r
      <3> QED BY <2>1, <3>1, <3>2, Sizes
    <2> QED BY <2>3, Sizes, Within
  <1> QED BY <1>1, <1>3, <1>7, <1>8, InSizes

\* The low words of bitwise operations are those of the operands' low words.
LEMMA LowBitwise ==
    ASSUME NEW x \in Int, NEW y \in Int
    PROVE  /\ (Lo(x) & Lo(y)) = Lo(x & y) /\ (Lo(x) & Lo(y)) \in Words
           /\ ToW(Lo(x) | Lo(y)) = Lo(x | y) /\ ToW(Lo(x) ^^ Lo(y)) = Lo(x ^^ y)
           /\ (Lo(x) | Lo(y)) \in Int /\ (Lo(x) ^^ Lo(y)) \in Int
           /\ (x | y) \in Int /\ (x ^^ y) \in Int
  <1> DEFINE u == Lo(x)
             v == Lo(y)
             a == (u & v)
             b == (x & y)
  <1>1. u \in Int /\ v \in Int /\ ToW(x) = u /\ ToW(y) = v
    BY Casts, CastWithin
  <1>2. a = Lo(b) /\ b \in Int
    BY LowAnd, AndRange
  <1>3. /\ (u | v) = u + v - a /\ (u ^^ v) = u + v - 2 * a
        /\ (x | y) = x + y - b /\ (x ^^ y) = x + y - 2 * b
    BY DEF |, ^^
  <1> HIDE DEF u, v, a, b
  <1>4. a \in Words /\ a \in Int /\ ToW(b) = a
    BY <1>2, Casts, CastWithin
  <1>5. ToW(u + v - a) = ToW(x + y - b)
    <2>1. ToW(u + (v - a)) = ToW(x + (v - a))
      <3>1. v - a \in Int
        BY <1>1, <1>4
      <3> QED BY <1>1, <3>1, CastOfSum
    <2>2. ToW((x - a) + v) = ToW((x - a) + y)
      <3>1. x - a \in Int
        BY <1>4
      <3> QED BY <1>1, <3>1, CastOfSum
    <2>3. ToW((x + y) - a) = ToW((x + y) - b)
      <3>1. x + y \in Int
        OBVIOUS
      <3> QED BY <1>2, <1>4, <3>1, CastOfSum
    <2>4. u + (v - a) = u + v - a /\ x + (v - a) = (x - a) + v /\ (x - a) + y = (x + y) - a
          /\ (x + y) - b = x + y - b
      BY <1>1, <1>2, <1>4
    <2> QED BY <2>1, <2>2, <2>3, <2>4
  <1>6. ToW(u + v - 2 * a) = ToW(x + y - 2 * b)
    <2>1. ToW((u + v - a) - a) = ToW((x + y - b) - a)
      <3>1. u + v - a \in Int /\ x + y - b \in Int
        BY <1>1, <1>2, <1>4
      <3> DEFINE p == u + v - a
                 q == x + y - b
      <3>2. p \in Int /\ q \in Int /\ ToW(p) = ToW(q)
        BY <1>5, <3>1
      <3> HIDE DEF p, q
      <3>3. ToW(ToW(p) - a) = ToW(p - a) /\ ToW(ToW(q) - a) = ToW(q - a)
        BY <1>4, <3>2, CastOfSum
      <3>4. ToW(p - a) = ToW(q - a)
        BY <3>2, <3>3
      <3> QED BY <3>4 DEF p, q
    <2>2. ToW((x + y - b) - a) = ToW((x + y - b) - b)
      <3>1. x + y - b \in Int
        BY <1>2
      <3> QED BY <1>2, <1>4, <3>1, CastOfSum
    <2>3. (u + v - a) - a = u + v - 2 * a /\ (x + y - b) - b = x + y - 2 * b
      BY <1>1, <1>2, <1>4
    <2> QED BY <2>1, <2>2, <2>3
  <1>7. /\ u + v - a \in Int /\ u + v - 2 * a \in Int
        /\ x + y - b \in Int /\ x + y - 2 * b \in Int
    BY <1>1, <1>2, <1>4
  <1>8. ToW(x + y - b) = Lo(x + y - b) /\ ToW(x + y - 2 * b) = Lo(x + y - 2 * b)
    BY <1>7, Casts
  <1> QED BY <1>2, <1>3, <1>4, <1>5, <1>6, <1>7, <1>8 DEF u, v, a, b

\* Fields of a word are those of the register it is in.
LEMMA SignedFieldLow ==
    ASSUME NEW x \in Int, NEW n \in 1..WB
    PROVE  Signed(Lo(x), n) = Signed(x, n) /\ Signed(x, n) \in Int
  <1>1. n \in 0..DB /\ n \in 1..DB /\ WB \in 0..DB /\ n \in 0..WB
    BY Widths
  <1> DEFINE d == 2^n
             e == 2^(WB - n)
  <1>2. WordSize = d * e /\ d \in Nat /\ d > 0 /\ e \in Nat /\ e > 0
    <2>1. 2^WB = 2^(WB - n) * 2^n /\ 2^n \in Nat /\ 2^n > 0 /\ 2^(WB - n) \in Nat /\ 2^(WB - n) > 0
      BY <1>1, PowerMultiple
    <2>2. 2^(WB - n) * 2^n = 2^n * 2^(WB - n)
      BY <2>1
    <2> QED BY <2>1, <2>2 DEF WordSize
  <1> HIDE DEF d, e
  <1>3. (x % (d * e)) % d = x % d
    BY <1>2, DivideByProduct
  <1>4. Lo(x) % 2^n = x % 2^n
    BY <1>2, <1>3, InSizes DEF d
  <1>5. Signed(Lo(x), n) = Signed(x, n)
    BY <1>4 DEF Signed
  <1>6. Signed(x, n) \in (-2^(n - 1))..(2^(n - 1) - 1)
    BY <1>1, SignedField
  <1>7. 2^(n - 1) \in Nat
    <2>1. n - 1 \in 0..DB
      BY Widths
    <2> QED BY <2>1, Powers
  <1> QED BY <1>5, <1>6, <1>7

\* Products may be taken of remainders.
LEMMA CastOfProduct ==
    ASSUME NEW a \in Int, NEW b \in Int, NEW c \in Int, NEW d \in Int,
           ToW(a) = ToW(c), ToW(b) = ToW(d)
    PROVE  ToW(a * b) = ToW(c * d)
  <1> DEFINE w == WordSize
             p == a \div w
             q == b \div w
             m == c \div w
             n == d \div w
             r == a % w
             s == b % w
  <1>0. w \in Nat /\ w > 0
    BY Sizes
  <1>1. /\ a = p * w + r /\ b = q * w + s /\ c = m * w + (c % w) /\ d = n * w + (d % w)
        /\ p \in Int /\ q \in Int /\ m \in Int /\ n \in Int /\ r \in Int /\ s \in Int
    <2> HIDE DEF w
    <2>1. a = p * w + r /\ p \in Int /\ r \in 0..(w - 1)
      BY <1>0, Division
    <2>2. b = q * w + s /\ q \in Int /\ s \in 0..(w - 1)
      BY <1>0, Division
    <2>3. c = m * w + (c % w) /\ m \in Int
      BY <1>0, Division
    <2>4. d = n * w + (d % w) /\ n \in Int
      BY <1>0, Division
    <2> QED BY <2>1, <2>2, <2>3, <2>4
  <1>2. c % w = r /\ d % w = s
    BY InSizes
  <1>3. c = m * w + r /\ d = n * w + s
    BY <1>1, <1>2
  <1> HIDE DEF w, p, q, m, n, r, s
  <1> DEFINE e == p * q * w + p * s + r * q
             f == m * n * w + m * s + r * n
             t == r * s
  <1>4. a * b = t + e * w
    <2>1. (p * w + r) * (q * w + s) = t + e * w
      BY <1>0, <1>1
    <2> QED BY <1>1, <2>1
  <1>5. c * d = t + f * w
    <2>1. (m * w + r) * (n * w + s) = t + f * w
      BY <1>0, <1>1
    <2> QED BY <1>3, <2>1
  <1>6. e \in Int /\ f \in Int /\ t \in Int
    BY <1>0, <1>1
  <1> HIDE DEF e, f, t
  <1>7. (t + e * w) % w = t % w /\ (t + f * w) % w = t % w
    BY <1>0, <1>6, AddMultiple
  <1>8. (a * b) % w = (c * d) % w
    BY <1>4, <1>5, <1>7
  <1> QED BY <1>8, InSizes DEF w

\* A register whose high word is one number and whose low word is extended from another.
LEMMA OrExtended ==
    ASSUME NEW h \in Int, NEW v \in Words
    PROVE  Lo((h * 2^WB) | ExtsW(v)) = v
  <1> DEFINE a == h * 2^WB
             e == ExtsW(v)
  <1>1. e \in Int /\ Lo(e) = v /\ v \in Int
    <2>1. v \in Int /\ ToW(v) = v
      BY CastWithin
    <2>2. e \in Doubles /\ Lo(e) = ToW(v)
      BY <2>1, Extended
    <2> QED BY <2>1, <2>2, CastWithin
  <1>2. a \in Int /\ Lo(a) = 0
    <2>1. a = h * WordSize /\ 0 + h * WordSize = h * WordSize /\ h * WordSize \in Int
      BY Sizes DEF WordSize
    <2>2. (0 + h * WordSize) % WordSize = 0 % WordSize
      <3> DEFINE w == WordSize
      <3>1. w \in Nat /\ w > 0 /\ 0 \in Int
        BY Sizes
      <3> HIDE DEF w
      <3>2. (0 + h * w) % w = 0 % w
        BY <3>1, AddMultiple
      <3> QED BY <3>2 DEF w
    <2>3. 0 % WordSize = 0
      BY Sizes, Within
    <2> QED BY <2>1, <2>2, <2>3, InSizes
  <1> HIDE DEF a, e
  <1> DEFINE b == (a & e)
  <1>3. b \in Int /\ Lo(b) = (0 & v)
    BY <1>1, <1>2, LowAnd, AndRange
  <1>4. (0 & v) = 0
    <2>1. (0 & v) \in Int /\ (0 & v) >= 0 /\ (0 & v) <= ToD(0)
      BY <1>1, AndRange
    <2>2. ToD(0) = 0
      BY Sizes, Within, InSizes
    <2> QED BY <2>1, <2>2
  <1>5. (a | e) = a + e - b
    BY DEF |
  <1> HIDE DEF b
  <1>6. ToW(a) = 0 /\ ToW(b) = 0 /\ ToW(e) = v
    BY <1>1, <1>2, <1>3, <1>4, Casts
  <1>7. ToW(a + (e - b)) = ToW(0 + (e - b))
    <2>1. e - b \in Int
      BY <1>1, <1>3
    <2> QED BY <1>2, <1>6, <2>1, CastOfSum
  <1>8. ToW(e - b) = ToW(e - 0)
    BY <1>1, <1>3, <1>6, CastOfSum
  <1>9. 0 + (e - b) = e - b /\ e - 0 = e /\ a + (e - b) = a + e - b /\ a + e - b \in Int
    BY <1>1, <1>2, <1>3
  <1>10. ToW(a + e - b) = v
    BY <1>6, <1>7, <1>8, <1>9
  <1> QED BY <1>5, <1>9, <1>10, Casts DEF a, e

\* A width is smaller than the number of its values.
LEMMA PowerLarger ==
    ASSUME NEW m \in 0..DB
    PROVE  m < 2^m
  <1> DEFINE S == {j \in 0..DB : ~(j < 2^j)}
  <1> SUFFICES ASSUME S # {} PROVE FALSE
    OBVIOUS
  <1>0. S \subseteq Nat /\ DB \in Nat
    BY Widths
  <1>1. PICK j \in S : \A i \in S : j <= i
    <2> HIDE DEF S
    <2> QED BY <1>0, LeastNatural
  <1>2. j # 0
    <2>1. 0 < 2^0
      BY WidthAssumption
    <2> QED BY <1>1, <2>1
  <1>3. j \in 1..DB /\ j - 1 \in 0..DB /\ j - 1 \notin S
    BY <1>0, <1>1, <1>2
  <1>4. j - 1 < 2^(j - 1) /\ 2^j = 2 * 2^(j - 1) /\ 2^(j - 1) \in Nat
    BY <1>3, Doubling, Powers
  <1> QED BY <1>1, <1>3, <1>4

\* The bits of a word counted from the top: of the register it is in, and of itself.
LEMMA TopBits ==
    ASSUME NEW x \in Int, NEW j \in 0..(WB - 1)
    PROVE  /\ B_N(x, WB + j) \in {0, 1}
           /\ (Lo(x) \div 2^(WB - 1 - j)) % 2 = B_N(x, WB + j)
  <1>1. WB - 1 - j \in 0..(WB - 1) /\ WB \in 0..DB /\ DB - 1 - (WB + j) = WB - 1 - j
        /\ WB - j \in 1..DB /\ (WB - j) - 1 = WB - 1 - j
    BY Widths
  <1>2. Bit0(x % 2^WB, WB - 1 - j) = Bit0(x, WB - 1 - j)
    BY <1>1, BitOfRest
  <1>3. Bit0(x, (WB - j) - 1) \in {0, 1}
    BY <1>1, NextBit
  <1>4. B_N(x, WB + j) = Bit0(x, WB - 1 - j)
    BY <1>1 DEF B_N, Bit0
  <1> QED BY <1>1, <1>2, <1>3, <1>4 DEF Bit0, Lo

\* The number of zeros before the first one of a word.
Zeros(x) ==
    CHOOSE n \in 0..WB : /\ \A j \in 0..(n - 1) : B_N(x, WB + j) = 0
                         /\ n < WB => B_N(x, WB + n) = 1

\* It is the same read off the register or off the word, and fits a word.
LEMMA LeadingZeros ==
    ASSUME NEW x \in Int
    PROVE  LET bit(n) == (Lo(x) \div 2^(WB - 1 - n)) % 2
           IN  /\ Zeros(x) = CHOOSE n \in 0..WB : /\ \A j \in 0..(n - 1) : bit(j) = 0
                                                  /\ n < WB => bit(n) # 0
               /\ Zeros(x) \in Words
  <1> DEFINE bit(n) == (Lo(x) \div 2^(WB - 1 - n)) % 2
             b(j) == B_N(x, WB + j)
             P(n) == /\ \A j \in 0..(n - 1) : b(j) = 0
                     /\ n < WB => b(n) = 1
             Q(n) == /\ \A j \in 0..(n - 1) : bit(j) = 0
                     /\ n < WB => bit(n) # 0
             c == CHOOSE n \in 0..WB : P(n)
             d == CHOOSE n \in 0..WB : Q(n)
  <1>0. WB \in Nat
    BY Widths
  <1>1. \A j \in 0..(WB - 1) : b(j) \in {0, 1} /\ bit(j) = b(j)
    BY TopBits
  <1> HIDE DEF bit, b
  <1>2. \A n \in 0..WB : P(n) => Q(n)
    BY <1>0, <1>1
  <1>3. \E n \in 0..WB : P(n)
    <2> DEFINE S == {n \in 0..WB : n = WB \/ b(n) = 1}
    <2>1. S \subseteq Nat /\ WB \in S
      BY <1>0
    <2>2. PICK n \in S : \A i \in S : n <= i
      <3> HIDE DEF S
      <3> QED BY <2>1, LeastNatural
    <2>3. \A j \in 0..(n - 1) : b(j) = 0
      <3> SUFFICES ASSUME NEW j \in 0..(n - 1) PROVE b(j) = 0
        OBVIOUS
      <3>1. j \in 0..(WB - 1) /\ ~(n <= j)
        BY <1>0, <2>2
      <3>2. j \notin S
        <4> HIDE DEF S
        <4> QED BY <2>2, <3>1
      <3>3. b(j) # 1
        BY <1>0, <3>1, <3>2
      <3> QED BY <1>1, <3>1, <3>3
    <2>4. n \in 0..WB /\ (n < WB => b(n) = 1)
      BY <1>0, <2>2
    <2> HIDE DEF S
    <2> QED BY <2>3, <2>4
  <1>4. \A m, n \in 0..WB : Q(m) /\ Q(n) => ~(m < n)
    <2> SUFFICES ASSUME NEW m \in 0..WB, NEW n \in 0..WB, Q(m), Q(n), m < n PROVE FALSE
      OBVIOUS
    <2>1. m \in 0..(n - 1) /\ m < WB
      BY <1>0
    <2> QED BY <2>1
  <1>5. c \in 0..WB /\ P(c)
    <2> HIDE DEF P
    <2> QED BY <1>3
  <1>6. d \in 0..WB /\ Q(d) /\ Q(c)
    <2>1. Q(c)
      <3> HIDE DEF c, P, Q
      <3> QED BY <1>2, <1>5
    <2> HIDE DEF Q, c
    <2> QED BY <1>5, <2>1
  <1>7. c = d
    <2> HIDE DEF c, d, Q
    <2> QED BY <1>0, <1>4, <1>5, <1>6
  <1>8. Zeros(x) = c
    BY DEF Zeros, b
  <1>9. c \in Words
    <2>1. WB < WordSize
      <3>1. WB \in 0..DB
        BY Widths
      <3> QED BY <3>1, PowerLarger DEF WordSize
    <2> HIDE DEF c
    <2>2. c \in 0..(WordSize - 1)
      BY <1>0, <1>5, <2>1, Sizes
    <2> QED BY <2>2, InSizes
  <1> HIDE DEF c
  <1> QED BY <1>7, <1>8, <1>9 DEF bit

\* The field of ones of sign_exts_f, and how far it is from the right.
LEMMA FieldMask ==
    ASSUME NEW n \in 0..(WB - 2)
    PROVE  LET m == 2^WB - 2^n
           IN  /\ ((2^WB - 1) ^^ (2^n - 1)) = m
               /\ (CHOOSE r \in 0..DB : m % 2^r = 0 /\ (m \div 2^r) % 2 = 1) = n
  <1> DEFINE m == 2^WB - 2^n
             P(r) == m % 2^r = 0 /\ (m \div 2^r) % 2 = 1
             c == CHOOSE r \in 0..DB : P(r)
  <1>1. n \in 0..DB /\ WB \in 0..DB /\ n \in 0..WB /\ WB \in Nat /\ DB = 2 * WB /\ n \in 0..(DB - 1)
    BY Widths
  <1>2. 2^n \in Nat /\ 2^n > 0 /\ 2^WB \in Nat
    BY <1>1, Powers
  <1>3. ((2^WB - 1) ^^ (2^n - 1)) = m
    <2> DEFINE a == 2^WB - 1
               b == 2^n - 1
    <2>1. a \in Int /\ (a & (2^n - 1)) = a % 2^n
      <3>1. a \in Int
        BY <1>2
      <3> HIDE DEF a
      <3> QED BY <1>1, <3>1, AndLow
    <2>2. a % 2^n = b
      BY <1>1, LowOfOnes
    <2>3. (a ^^ b) = a + b - 2 * (a & b)
      BY DEF ^^
    <2>4. (a & b) = b
      BY <2>1, <2>2
    <2>5. (a ^^ b) = a + b - 2 * b
      BY <2>3, <2>4
    <2> QED BY <1>2, <2>5
  <1>4. \A j \in 0..(DB - 1) : Bit0(m, j) = IF n <= j /\ j < WB THEN 1 ELSE 0
    BY <1>1, FieldBits
  <1>5. m % 2^n = 0
    <2> DEFINE d == 2^n
               p == 2^(WB - n)
    <2>1. 2^WB = p * d /\ p \in Nat
      BY <1>1, PowerMultiple
    <2> HIDE DEF d, p
    <2>2. m = (p - 1) * d + 0
      <3>1. (p - 1) * d + 0 = p * d - d
        BY <1>2, <2>1 DEF d
      <3> QED BY <2>1, <3>1 DEF d
    <2>3. d \in Nat /\ d > 0 /\ 0 \in 0..(d - 1) /\ p - 1 \in Int
      BY <1>2, <2>1 DEF d
    <2> HIDE DEF m
    <2> QED BY <2>2, <2>3, DivideOnce DEF d
  <1>6. P(n)
    <2>1. Bit0(m, n) = 1
      <3>1. n <= n /\ n < WB
        BY <1>1
      <3> QED BY <1>1, <1>4, <3>1
    <2> QED BY <1>5, <2>1 DEF Bit0
  <1>7. m \in Int
    BY <1>2
  <1>8. c \in 0..DB /\ P(c)
    <2> HIDE DEF P
    <2> QED BY <1>1, <1>6
  <1> HIDE DEF m
  <1>9. ASSUME NEW r \in 0..DB, NEW s \in 0..DB, P(r), P(s), r < s PROVE FALSE
    <2>1. r \in 0..(s - 1) /\ r + 1 \in 1..DB /\ (r + 1) - 1 = r
      BY <1>1, <1>9
    <2>2. Bit0(m % 2^s, r) = Bit0(m, r)
      BY <1>7, <2>1, BitOfRest
    <2>3. Bit0(m, r) = 1
      BY <1>9 DEF Bit0
    <2>4. Bit0(0, r) = 0
      <3>1. 2^r \in Nat /\ 2^r > 0
        BY Powers
      <3> DEFINE d == 2^r
      <3>2. d \in Nat /\ d > 0 /\ 0 \in 0..(d - 1)
        BY <3>1
      <3> HIDE DEF d
      <3>3. 0 \div d = 0
        BY <3>2, Within
      <3>4. (0 \div d) % 2 = 0
        BY <3>3
      <3> QED BY <3>4 DEF Bit0, d
    <2> QED BY <1>9, <2>2, <2>3, <2>4
  <1>10. c = n
    <2> HIDE DEF P, c
    <2>1. ~(c < n) /\ ~(n < c)
      BY <1>1, <1>6, <1>8, <1>9
    <2> QED BY <1>1, <1>8, <2>1
  <1> QED BY <1>3, <1>10 DEF m

\* sign_exts_f on the low lane is a shift of its word, logical or algebraic.
LEMMA ExtendedField ==
    ASSUME NEW x \in Int, NEW n \in 0..(WB - 2), NEW sgn \in BOOLEAN
    PROVE  LET w == Lo(x)
               r == sign_exts_f(x, WB, DB - 1 - n, sgn)
           IN  r = IF sgn THEN ToD(Signed(w, WB) \div 2^n) ELSE w \div 2^n
  <1> DEFINE y == DB - 1 - n
             w == Lo(x)
             bmask(bp) == IF bp = 0 THEN 2^DB - 1 ELSE 2^((DB - bp) % DB) - 1
             mask == IF WB < y THEN bmask(WB) ^^ bmask(y + 1)
                     ELSE Compl(bmask(WB + 1) ^^ bmask(y))
             rshft == CHOOSE r \in 0..DB : mask % 2^r = 0 /\ (mask \div 2^r) % 2 = 1
             val == (x & mask) \div 2^rshft
  <1>1. sign_exts_f(x, WB, y, sgn)
          = IF sgn /\ B_N(x, WB) = 1 THEN val | Compl(2^((y - WB + 1) % DB) - 1) ELSE val
    BY DEF sign_exts_f
  <1>2. /\ WB \in Nat /\ WB >= 4 /\ DB = 2 * WB /\ DB \in Nat /\ WB < y /\ y + 1 # 0 /\ WB # 0
        /\ DB - WB = WB /\ DB - (y + 1) = n /\ y - WB + 1 = WB - n /\ DB > 0
        /\ WB \in 0..(DB - 1) /\ n \in 0..(DB - 1) /\ WB - n \in 0..(DB - 1)
        /\ n \in 0..WB /\ WB \in 0..DB /\ n \in 0..DB /\ n \in Nat
    BY Widths
  <1>3. WB % DB = WB /\ n % DB = n /\ (WB - n) % DB = WB - n
    BY <1>2, Within
  <1>4. bmask(WB) = 2^WB - 1 /\ bmask(y + 1) = 2^n - 1
    BY <1>2, <1>3
  <1>5. mask = 2^WB - 2^n
    <2>1. mask = (bmask(WB) ^^ bmask(y + 1))
      BY <1>2
    <2>2. mask = ((2^WB - 1) ^^ (2^n - 1))
      BY <1>4, <2>1
    <2> HIDE DEF mask
    <2> QED BY <2>2, FieldMask
  <1>6. rshft = n
    <2> HIDE DEF mask
    <2> QED BY <1>5, FieldMask
  <1> DEFINE d == 2^n
             q == w \div d
             s == w % d
  <1>7. d \in Nat /\ d > 0 /\ w \in Words /\ w \in Int
    BY <1>2, Powers, Casts, CastWithin
  <1>8. w = q * d + s /\ s \in 0..(d - 1) /\ q \in Int /\ s \in Int
    <2>1. w = q * d + s /\ s \in 0..(d - 1) /\ q \in Int
      <3> HIDE DEF w, d
      <3> QED BY <1>7, Division
    <2> QED BY <1>7, <2>1
  <1>9. val = q
    <2>1. (x & mask) = (x % 2^WB) - (x % 2^n)
      BY <1>2, <1>5, AndField
    <2>2. x % 2^n = s
      <3> DEFINE e == 2^(WB - n)
      <3>1. WordSize = d * e /\ e \in Nat /\ e > 0
        <4>1. 2^WB = e * d /\ e \in Nat /\ e > 0
          BY <1>2, PowerMultiple
        <4> HIDE DEF e, d
        <4> QED BY <1>7, <4>1 DEF WordSize
      <3> HIDE DEF e, d
      <3>2. (x % (d * e)) % d = x % d
        BY <1>7, <3>1, DivideByProduct
      <3> QED BY <3>1, <3>2, InSizes DEF d
    <2>3. (x & mask) = w - s
      BY <2>1, <2>2 DEF Lo
    <2> HIDE DEF q, s, w, d, mask
    <2>4. w - s = q * d + 0
      <3>1. q * d \in Int
        BY <1>7, <1>8
      <3> QED BY <1>7, <1>8, <3>1
    <2>5. (q * d + 0) \div d = q
      <3>1. 0 \in 0..(d - 1)
        BY <1>7
      <3> QED BY <1>7, <1>8, <3>1, DivideOnce
    <2> QED BY <1>6, <2>3, <2>4, <2>5 DEF d
  <1>10. B_N(x, WB) = 1 <=> w >= MinW
    <2>1. 0 \in 0..(WB - 1) /\ WB + 0 = WB /\ WB - 1 - 0 = WB - 1
      BY <1>2
    <2>2. B_N(x, WB) = (w \div MinW) % 2
      BY <2>1, TopBits DEF MinW
    <2>3. MinW \in Nat /\ MinW > 1 /\ WordSize = 2 * MinW /\ w \in 0..(WordSize - 1)
      BY <1>7, Sizes, InSizes
    <2> DEFINE h == MinW
               t == w \div h
    <2>4. h \in Nat /\ h > 1 /\ w \in 0..(2 * h - 1)
      BY <2>3
    <2> HIDE DEF h, w
    <2>5. w < h => t = 0
      BY <2>4, Within
    <2>6. w >= h => t = 1
      <3> SUFFICES ASSUME w >= h PROVE t = 1
        OBVIOUS
      <3>1. w - h \in 0..(h - 1) /\ 1 * h + (w - h) = w
        BY <2>4
      <3>2. (1 * h + (w - h)) \div h = 1
        BY <2>4, <3>1, DivideOnce
      <3> QED BY <3>1, <3>2
    <2> HIDE DEF t
    <2>7. t % 2 = 1 <=> w >= h
      BY <2>4, <2>5, <2>6
    <2> QED BY <2>2, <2>7 DEF h, t
  <1>11. CASE ~sgn
    BY <1>1, <1>9, <1>11
  <1>12. CASE sgn
    <2> DEFINE m == MASK(WB + n, DB - 1)
               r == ROTL32(w, DB - n)
    <2>1. m = 2^(WB - n) - 1 /\ (r & m) = q
      BY <1>7, ShiftsRight
    <2>2. ((r & m) | (IF w >= MinW THEN Compl(m) ELSE 0)) = ToD(Signed(w, WB) \div 2^n)
      BY <1>7, ShiftsAlgebraic
    <2> HIDE DEF m, r, q, val, w
    <2>3. (q | (IF w >= MinW THEN Compl(2^(WB - n) - 1) ELSE 0)) = ToD(Signed(w, WB) \div 2^n)
      BY <2>1, <2>2
    <2>4. (q | 0) = q
      BY <1>8, <1>2, AndLow
    <2>5. sign_exts_f(x, WB, y, sgn) = IF w >= MinW THEN q | Compl(2^(WB - n) - 1) ELSE q
      BY <1>1, <1>2, <1>3, <1>9, <1>10, <1>12
    <2>6. CASE w >= MinW
      BY <1>12, <2>3, <2>5, <2>6 DEF w
    <2>7. CASE ~(w >= MinW)
      BY <1>12, <2>3, <2>4, <2>5, <2>7 DEF w
    <2> QED BY <2>6, <2>7
  <1> QED BY <1>11, <1>12

ScalarOps == {"add", "subf", "neg", "and", "andc", "or", "orc", "nand", "nor", "xor", "cntlzw",
              "extsb", "extsh", "slw", "srw", "sraw", "mullw"}
WordShifts == {"slw", "srw", "sraw"}

\* The word that the two instructions of a pair of SameWord promise, of registers x and y.
Common(op, x, y) ==
    CASE op = "add"    -> ToW(x + y)
      [] op = "subf"   -> ToW(y - x)
      [] op = "neg"    -> ToW(-x)
      [] op = "and"    -> Lo(x & y)
      [] op = "andc"   -> Lo(x & Compl(y))
      [] op = "or"     -> Lo(x | y)
      [] op = "orc"    -> Lo(x | Compl(y))
      [] op = "nand"   -> Lo(Compl(x & y))
      [] op = "nor"    -> Lo(Compl(x | y))
      [] op = "xor"    -> Lo(x ^^ y)
      [] op = "cntlzw" -> Zeros(x)
      [] op = "extsb"  -> ToW(Signed(x, BB))
      [] op = "extsh"  -> ToW(Signed(x, HB))
      [] op = "slw"    -> ToW(Lo(x) * 2^(y % (2 * WB)))
      [] op = "srw"    -> Lo(x) \div 2^(y % (2 * WB))
      [] op = "sraw"   -> ToW(Signed(Lo(x), WB) \div 2^(y % (2 * WB)))
      [] op = "mullw"  -> ToW(Signed(x, WB) * Signed(y, WB))

\* Every scalar instruction of the pairs has its action.
LEMMA ScalarActions ==
    ASSUME Next, ic.op \in ScalarOps
    PROVE  /\ ic.op = "add" => Add
           /\ ic.op = "subf" => Subtract
           /\ ic.op \in {"neg", "and", "andc", "or", "orc", "xor"} => Logical
           /\ ic.op \in {"nand", "nor", "cntlzw", "extsb", "extsh"} => LogicalWide
           /\ ic.op \in {"slw", "srw"} => ShiftLogical
           /\ ic.op = "sraw" => ShiftAlgebraic
  <1> USE DEF Fetch, ScalarOps
  <1>1. ~SpeNext
    <2>1. ~brinc /\ ~evabs_addiw /\ ~evadd_aaw /\ ~evaddw_and /\ ~evcmp /\ ~evcntl /\ ~evdivw
      BY DEF brinc, evabs_addiw, evadd_aaw, evaddw_and, evcmp, evcntl, evdivw
    <2>2. ~eveqv_ext /\ ~evmerge /\ ~evmheg /\ ~evmhesm /\ ~evmhessf /\ ~evmhessi
      BY DEF eveqv_ext, evmerge, evmheg, evmhesm, evmhessf, evmhessi
    <2>3. ~evmheumi /\ ~evmheusi /\ ~evmhog /\ ~evmhosm /\ ~evmhossf /\ ~evmhossi
      BY DEF evmheumi, evmheusi, evmhog, evmhosm, evmhossf, evmhossi
    <2>4. ~evmhoumi /\ ~evmhousi /\ ~evmra /\ ~evmwh /\ ~evmwl /\ ~evmws /\ ~evmwssf
      BY DEF evmhoumi, evmhousi, evmra, evmwh, evmwl, evmws, evmwssf
    <2>5. ~evlogic /\ ~evrotate_sel /\ ~evshift_left /\ ~evshift_right /\ ~evsubf /\ ~evxor
      BY DEF evlogic, evrotate_sel, evshift_left, evshift_right, evsubf, evxor
    <2>6. ~evfs_sign /\ ~evfs_arith /\ ~evfs_compare /\ ~efd_sign
      BY DEF evfs_sign, evfs_arith, evfs_compare, efd_sign
    <2> QED BY <2>1, <2>2, <2>3, <2>4, <2>5, <2>6, Zenon DEF SpeNext
  <1>2. IntegerNext
    BY <1>1 DEF Next
  <1>3. /\ Add => ic.op \in AddOps
        /\ Subtract => ic.op \in SubtractOps
        /\ Logical => ic.op \in LogicalOps
        /\ LogicalWide => ic.op \in {"extsb", "extsh", "cntlzw", "eqv", "nand", "nor"}
        /\ Multiply => ic.op \in {"mulhw", "mulhwu", "mullw", "mulli"}
    BY DEF Add, Subtract, Logical, LogicalWide, Multiply
  <1>4. ~Divide /\ ~Compare /\ ~CrLogic
    BY DEF Divide, Compare, CrLogic, CrOps
  <1>5. ~mcrf /\ ~mtcrf /\ ~mcrxr /\ ~mfcr /\ ~isel /\ ~Rotate
    BY DEF mcrf, mtcrf, mcrxr, mfcr, isel, Rotate
  <1>6. /\ ShiftLogical => ic.op \in {"slw", "srw"}
        /\ ShiftAlgebraic => ic.op \in {"sraw", "srawi"}
    BY DEF ShiftLogical, ShiftAlgebraic
  <1>7. \/ Add \/ Subtract \/ Logical \/ LogicalWide \/ Multiply \/ ShiftLogical \/ ShiftAlgebraic
    BY <1>2, <1>4, <1>5, Zenon DEF IntegerNext
  <1> HIDE DEF Fetch
  <1> QED BY <1>3, <1>6, <1>7 DEF AddOps, SubtractOps, LogicalOps

\* The two ends of an integer instruction write its result.
LEMMA Writes ==
    ASSUME NEW v, NEW f, NEW c, CompleteHost(v, f, c) \/ CompleteValue(v, f)
    PROVE  Goes /\ gpr' = [gpr EXCEPT ![ic.d] = v]
  BY DEF CompleteHost, CompleteValue, Complete, Goes

\* A word is a register.
LEMMA WordsAreDoubles == \A x \in Words : x \in Doubles /\ x \in Int /\ Lo(x) = x /\ ToW(x) = x
  <1>1. WordSize <= DoubleSize
    <2>1. WB \in 0..DB /\ DB \in 0..DB
      BY Widths
    <2> QED BY <2>1, PowerOrder DEF WordSize, DoubleSize
  <1>2. ASSUME NEW x \in Words PROVE x \in Doubles
    <2>1. x \in 0..(DoubleSize - 1)
      BY <1>1, InSizes, Sizes
    <2> QED BY <2>1, InSizes
  <1> QED BY <1>2, CastWithin

\* What a scalar instruction writes has the common word in its low half.
Promised(op, v) ==
    /\ Goes /\ gpr' = [gpr EXCEPT ![ic.d] = v] /\ v \in Doubles
    /\ Lo(v) = Common(op, gpr[ic.a], gpr[ic.b])

\* add and subf.
LEMMA ScalarSum ==
    ASSUME Next, Supplied, ic.op \in {"add", "subf"}
    PROVE  \E v : Promised(ic.op, v)
  <1> DEFINE x == gpr[ic.a]
             y == gpr[ic.b]
  <1>1. x \in Int /\ y \in Int /\ REG1 = x /\ REG2 = y
    BY Supplies
  <1>2. ASSUME NEW a \in Int, NEW b \in Int, NEW w \in Words,
               CompleteHost(ExtsW(x86_add(a, b).r), x86_add(a, b), FALSE),
               ToW(a + b) = w, w = Common(ic.op, x, y)
        PROVE  \E v : Promised(ic.op, v)
    <2> DEFINE f == x86_add(a, b)
    <2>1. f.r = ToW(a + b)
      BY Zenon DEF x86_add, Flags
    <2> HIDE DEF f
    <2>2. f.r = w /\ w \in Int /\ ToW(w) = w
      BY <1>2, <2>1, WordsAreDoubles
    <2>3. ExtsW(w) \in Doubles /\ Lo(ExtsW(w)) = w
      BY <2>2, Extended
    <2>4. CompleteHost(ExtsW(w), f, FALSE)
      BY <1>2, <2>2 DEF f
    <2> HIDE DEF x, y
    <2>5. Promised(ic.op, ExtsW(w))
      BY <1>2, <2>3, <2>4, Writes DEF Promised, x, y
    <2> QED BY <2>5
  <1>3. CASE ic.op = "add"
    <2>1. CompleteHost(ExtsW(x86_add(x, y).r), x86_add(x, y), FALSE)
      <3>1. Add
        BY <1>3, ScalarActions DEF ScalarOps
      <3>2. Addend(ic.op) = y
        BY <1>1, <1>3 DEF Addend
      <3>3. (ic.op \in {"addc", "adde", "addic", "addme", "addze"}) = FALSE
            /\ (ic.op \in {"addi", "addis"}) = FALSE
        BY <1>3
      <3> QED BY <1>1, <3>1, <3>2, <3>3 DEF Add
    <2>2. ToW(x + y) \in Words
      BY <1>1, Casts
    <2>3. Common(ic.op, x, y) = ToW(x + y)
      BY <1>3 DEF Common
    <2> QED BY <1>1, <1>2, <2>1, <2>2, <2>3
  <1>4. CASE ic.op = "subf"
    <2> DEFINE a == Compl(x)
               b == y + 1
    <2>1. CompleteHost(ExtsW(x86_add(a, b).r), x86_add(a, b), FALSE)
      <3>1. Subtract
        BY <1>4, ScalarActions DEF ScalarOps
      <3>2. Minuend(ic.op) = b /\ (ic.op # "subf") = FALSE
        BY <1>1, <1>4 DEF Minuend
      <3> QED BY <1>1, <3>1, <3>2 DEF Subtract
    <2>2. ToW(a + b) = ToW(y - x)
      <3>1. b \in Int /\ y - Lo(x) \in Int /\ Lo(x) \in Int
        BY <1>1, Casts, CastWithin
      <3>2. ToW(a + b) = ToW(b - Lo(x) - 1)
        BY <1>1, <3>1, Complements
      <3>3. b - Lo(x) - 1 = y - Lo(x)
        BY <1>1, <3>1
      <3>4. ToW(y - ToW(x)) = ToW(y - x) /\ ToW(x) = Lo(x)
        BY <1>1, CastOfSum, Casts
      <3> QED BY <3>2, <3>3, <3>4
    <2>3. ToW(y - x) \in Words /\ a \in Int /\ b \in Int
      <3>1. y - x \in Int /\ b \in Int
        BY <1>1
      <3>2. a \in Int
        BY <1>1, Complements
      <3> QED BY <3>1, <3>2, Casts
    <2>4. Common(ic.op, x, y) = ToW(y - x)
      BY <1>4 DEF Common
    <2> HIDE DEF a, b, x, y
    <2> QED BY <1>2, <2>1, <2>2, <2>3, <2>4
  <1> QED BY <1>3, <1>4

\* The logical instructions of words.
LEMMA ScalarLogic ==
    ASSUME Next, Supplied, ic.op \in {"neg", "and", "andc", "or", "orc", "xor"}
    PROVE  \E v : Promised(ic.op, v)
  <1> DEFINE x == gpr[ic.a]
             y == gpr[ic.b]
             z == Compl(y)
             f == HostLogic(ic.op)
  <1>1. x \in Int /\ y \in Int /\ REG1 = x /\ REG2 = y /\ z \in Int
    BY Supplies, Complements
  <1>2. CompleteHost(f.r, f, FALSE)
    <2>1. Logical
      BY ScalarActions DEF ScalarOps
    <2> QED BY <2>1 DEF Logical
  <1>3. \A u : x86_logic(u).r = ToW(u)
    BY Zenon DEF x86_logic, Flags
  <1>4. ASSUME NEW u \in Int, NEW t \in Int
        PROVE  /\ ToW(Lo(u) & Lo(t)) = Lo(u & t) /\ (u & t) \in Int /\ Lo(u & t) \in Words
               /\ ToW(Lo(u) | Lo(t)) = Lo(u | t) /\ Lo(u | t) \in Words
               /\ ToW(Lo(u) ^^ Lo(t)) = Lo(u ^^ t) /\ Lo(u ^^ t) \in Words
    <2>1. (u & t) \in Int
      BY AndRange
    <2>2. (u | t) \in Int /\ (u ^^ t) \in Int
      BY LowBitwise
    <2>3. (Lo(u) & Lo(t)) \in Words /\ (Lo(u) & Lo(t)) = Lo(u & t)
      BY LowBitwise
    <2>4. ToW(Lo(u) & Lo(t)) = Lo(u & t)
      BY <2>3, WordsAreDoubles
    <2>5. ToW(Lo(u) | Lo(t)) = Lo(u | t) /\ ToW(Lo(u) ^^ Lo(t)) = Lo(u ^^ t)
      BY LowBitwise
    <2>6. Lo(u | t) \in Words /\ Lo(u ^^ t) \in Words /\ Lo(u & t) \in Words
      BY <2>1, <2>2, Casts
    <2> QED BY <2>1, <2>4, <2>5, <2>6
  <1>6. f.r = Common(ic.op, x, y) /\ f.r \in Words
    <2>1. CASE ic.op = "neg"
      <3>1. x86_neg(x).r = ToW(-x)
        BY Zenon DEF x86_neg, Flags
      <3>2. f = x86_neg(x) /\ Common(ic.op, x, y) = ToW(-x)
        BY <1>1, <2>1 DEF HostLogic, Common
      <3>3. -x \in Int
        BY <1>1
      <3> QED BY <3>1, <3>2, <3>3, Casts
    <2>2. CASE ic.op = "and"
      <3>1. f = x86_logic(Lo(x) & Lo(y)) /\ Common(ic.op, x, y) = Lo(x & y)
        BY <1>1, <2>2 DEF HostLogic, Common
      <3>2. ToW(Lo(x) & Lo(y)) = Lo(x & y) /\ Lo(x & y) \in Words
        BY <1>1, <1>4
      <3>3. f.r = ToW(Lo(x) & Lo(y))
        BY <1>3, <3>1
      <3> QED BY <3>1, <3>2, <3>3
    <2>3. CASE ic.op = "andc"
      <3>1. f = x86_logic(Lo(x) & Lo(z)) /\ Common(ic.op, x, y) = Lo(x & z)
        BY <1>1, <2>3 DEF HostLogic, Common
      <3>2. ToW(Lo(x) & Lo(z)) = Lo(x & z) /\ Lo(x & z) \in Words
        BY <1>1, <1>4
      <3>3. f.r = ToW(Lo(x) & Lo(z))
        BY <1>3, <3>1
      <3> QED BY <3>1, <3>2, <3>3
    <2>4. CASE ic.op = "or"
      <3>1. f = x86_logic(Lo(x) | Lo(y)) /\ Common(ic.op, x, y) = Lo(x | y)
        BY <1>1, <2>4 DEF HostLogic, Common
      <3>2. ToW(Lo(x) | Lo(y)) = Lo(x | y) /\ Lo(x | y) \in Words
        BY <1>1, <1>4
      <3>3. f.r = ToW(Lo(x) | Lo(y))
        BY <1>3, <3>1
      <3> QED BY <3>1, <3>2, <3>3
    <2>5. CASE ic.op = "orc"
      <3>1. f = x86_logic(Lo(x) | Lo(z)) /\ Common(ic.op, x, y) = Lo(x | z)
        BY <1>1, <2>5 DEF HostLogic, Common
      <3>2. ToW(Lo(x) | Lo(z)) = Lo(x | z) /\ Lo(x | z) \in Words
        BY <1>1, <1>4
      <3>3. f.r = ToW(Lo(x) | Lo(z))
        BY <1>3, <3>1
      <3> QED BY <3>1, <3>2, <3>3
    <2>6. CASE ic.op = "xor"
      <3>1. f = x86_logic(Lo(x) ^^ Lo(y)) /\ Common(ic.op, x, y) = Lo(x ^^ y)
        BY <1>1, <2>6 DEF HostLogic, Common
      <3>2. ToW(Lo(x) ^^ Lo(y)) = Lo(x ^^ y) /\ Lo(x ^^ y) \in Words
        BY <1>1, <1>4
      <3>3. f.r = ToW(Lo(x) ^^ Lo(y))
        BY <1>3, <3>1
      <3> QED BY <3>1, <3>2, <3>3
    <2> QED BY <2>1, <2>2, <2>3, <2>4, <2>5, <2>6
  <1> HIDE DEF f
  <1>7. Promised(ic.op, f.r)
    BY <1>2, <1>6, WordsAreDoubles, Writes DEF Promised
  <1> QED BY <1>7

\* Those of the register, and the extensions.
LEMMA ScalarWide ==
    ASSUME Next, Supplied, ic.op \in {"nand", "nor", "cntlzw", "extsb", "extsh"}
    PROVE  \E v : Promised(ic.op, v)
  <1> DEFINE x == gpr[ic.a]
             y == gpr[ic.b]
             v == WideLogic(ic.op)
  <1>1. x \in Int /\ y \in Int /\ REG1 = x /\ REG2 = y /\ x \in Doubles /\ y \in Doubles
    BY Supplies
  <1>2. CompleteValue(v, xer)
    <2>1. LogicalWide
      BY ScalarActions DEF ScalarOps
    <2> QED BY <2>1 DEF LogicalWide
  <1>3. v \in Doubles /\ Lo(v) = Common(ic.op, x, y)
    <2>1. CASE ic.op = "nand"
      <3>1. v = Compl(x & y) /\ Common(ic.op, x, y) = Lo(Compl(x & y))
        BY <1>1, <2>1 DEF WideLogic, Common
      <3> QED BY <1>1, <3>1, BitwiseTypes
    <2>2. CASE ic.op = "nor"
      <3>1. v = Compl(x | y) /\ Common(ic.op, x, y) = Lo(Compl(x | y))
        BY <1>1, <2>2 DEF WideLogic, Common
      <3> QED BY <1>1, <3>1, BitwiseTypes
    <2>3. CASE ic.op = "cntlzw"
      <3>1. v = Zeros(x) /\ Common(ic.op, x, y) = Zeros(x)
        BY <1>1, <2>3 DEF WideLogic, Common, Zeros
      <3>2. Zeros(x) \in Words
        BY <1>1, LeadingZeros
      <3> QED BY <3>1, <3>2, WordsAreDoubles
    <2>4. CASE ic.op = "extsb"
      <3>1. v = ToD(Signed(x, BB)) /\ Common(ic.op, x, y) = ToW(Signed(x, BB))
        BY <1>1, <2>4 DEF WideLogic, Common, ExtsB
      <3>2. BB \in 1..WB
        BY Widths
      <3>3. Signed(x, BB) \in Int
        BY <1>1, <3>2, SignedFieldLow
      <3> QED BY <3>1, <3>3, Casts
    <2>5. CASE ic.op = "extsh"
      <3>1. v = ToD(Signed(x, HB)) /\ Common(ic.op, x, y) = ToW(Signed(x, HB))
        BY <1>1, <2>5 DEF WideLogic, Common, ExtsH
      <3>2. HB \in 1..WB
        BY Widths
      <3>3. Signed(x, HB) \in Int
        BY <1>1, <3>2, SignedFieldLow
      <3> QED BY <3>1, <3>3, Casts
    <2> QED BY <2>1, <2>2, <2>3, <2>4, <2>5
  <1> HIDE DEF v
  <1>4. Promised(ic.op, v)
    BY <1>2, <1>3, Writes DEF Promised
  <1> QED BY <1>4

\* A quotient of a word by a power of two is a word.
LEMMA QuotientOfWord ==
    ASSUME NEW w \in Words, NEW n \in 0..DB
    PROVE  w \div 2^n \in Words /\ Signed(w, WB) \div 2^n \in Int
  <1>1. w \in 0..(WordSize - 1) /\ w \in Int /\ WordSize \in Nat
    BY InSizes, WordsAreDoubles, Sizes
  <1>2. Signed(w, WB) \in Int
    BY <1>1, SignedWord
  <1> DEFINE d == 2^n
             q == w \div d
             r == w % d
  <1>3. d \in Nat /\ d > 0
    BY Powers
  <1> HIDE DEF d
  <1>4. w = q * d + r /\ q \in Int /\ r \in 0..(d - 1)
    BY <1>1, <1>3, Division
  <1> HIDE DEF q, r
  <1>5. q >= 0
    <2> SUFFICES ASSUME q < 0 PROVE FALSE
      BY <1>4
    <2>1. (-1 - q) * d \in Nat /\ (-1 - q) * d = -d - q * d /\ q * d \in Int
      BY <1>3, <1>4
    <2> QED BY <1>1, <1>3, <1>4, <2>1
  <1>6. q <= w
    <2>1. q * (d - 1) \in Nat /\ q * (d - 1) = q * d - q /\ q * d \in Int
      BY <1>3, <1>4, <1>5
    <2> QED BY <1>1, <1>3, <1>4, <2>1
  <1>7. q \in 0..(WordSize - 1)
    BY <1>1, <1>4, <1>5, <1>6
  <1>8. Signed(w, WB) \div d \in Int
    BY <1>2, <1>3, Division
  <1> QED BY <1>7, <1>8, InSizes DEF q, d

\* The shifts by less than a word and not by 31, and mullw.
LEMMA ScalarShift ==
    ASSUME Next, Supplied, ic.op \in WordShifts, gpr[ic.b] % (2 * WB) < WB - 1
    PROVE  \E v : Promised(ic.op, v)
  <1> DEFINE w == Lo(gpr[ic.a])
             n == gpr[ic.b] % (2 * WB)
  <1> USE DEF WordShifts
  <1>1. w \in Words /\ w \in Int /\ Amount = n /\ Amount # WB - 1 /\ ic.op # "srawi"
    <2>1. w \in Words /\ gpr[ic.b] \in Int
      BY Supplies
    <2>2. Amount = n
      BY DEF Amount
    <2>3. n \in Int
      <3>1. 2 * WB \in Nat /\ 2 * WB > 0
        BY Widths
      <3> QED BY <2>1, <3>1, Division
    <2> HIDE DEF n
    <2> QED BY <2>1, <2>2, <2>3, Widths, WordsAreDoubles DEF n
  <1>2. n \in 0..DB
    <2>1. gpr[ic.b] \in Int
      BY Supplies
    <2>2. 2 * WB \in Nat /\ 2 * WB > 0 /\ DB = 2 * WB
      BY Widths
    <2>3. n \in 0..(2 * WB - 1)
      BY <2>1, <2>2, Division
    <2> QED BY <2>2, <2>3
  <1>3. Goes /\ gpr' = [gpr EXCEPT ![ic.d] = Shifted]
    BY <1>1, ShiftStep DEF ShiftOps
  <1> DEFINE q == Signed(w, WB) \div 2^n
  <1>4. w \div 2^n \in Words /\ q \in Int /\ w * 2^n \in Int
    <2>1. w \div 2^n \in Words /\ q \in Int
      BY <1>1, <1>2, QuotientOfWord
    <2>2. 2^n \in Int
      BY <1>2, Powers
    <2> DEFINE d == 2^n
    <2>3. d \in Int
      BY <2>2
    <2> HIDE DEF d, w
    <2>4. w * d \in Int
      BY <1>1, <2>3, Times
    <2> QED BY <2>1, <2>4 DEF d, w
  <1>5. Shifted \in Doubles /\ Lo(Shifted) = Common(ic.op, gpr[ic.a], gpr[ic.b])
    <2>1. CASE ic.op = "slw"
      <3>1. Shifted = ToW(w * 2^n) /\ Common(ic.op, gpr[ic.a], gpr[ic.b]) = ToW(w * 2^n)
        BY <1>1, <2>1 DEF Shifted, Common
      <3>2. ToW(w * 2^n) \in Words
        BY <1>4, Casts
      <3> QED BY <3>1, <3>2, WordsAreDoubles
    <2>2. CASE ic.op = "srw"
      <3>1. Shifted = w \div 2^n /\ Common(ic.op, gpr[ic.a], gpr[ic.b]) = w \div 2^n
        BY <1>1, <2>2 DEF Shifted, Common
      <3> QED BY <1>4, <3>1, WordsAreDoubles
    <2>3. CASE ic.op = "sraw"
      <3>1. Shifted = ToD(q) /\ Common(ic.op, gpr[ic.a], gpr[ic.b]) = ToW(q)
        BY <1>1, <2>3 DEF Shifted, Common
      <3> QED BY <1>4, <3>1, Casts
    <2> QED BY <2>1, <2>2, <2>3
  <1>6. Promised(ic.op, Shifted)
    BY <1>3, <1>5 DEF Promised
  <1> QED BY <1>6

\* Every scalar instruction of the pairs writes the common word.
LEMMA ScalarStep ==
    ASSUME Next, Supplied, ic.op \in ScalarOps,
           ic.op \in WordShifts => gpr[ic.b] % (2 * WB) < WB - 1
    PROVE  \E v : Promised(ic.op, v)
  <1>1. CASE ic.op \in {"add", "subf"}
    BY <1>1, ScalarSum
  <1>2. CASE ic.op \in {"neg", "and", "andc", "or", "orc", "xor"}
    BY <1>2, ScalarLogic
  <1>3. CASE ic.op \in {"nand", "nor", "cntlzw", "extsb", "extsh"}
    BY <1>3, ScalarWide
  <1>4. CASE ic.op \in WordShifts
    BY <1>4, ScalarShift
  <1>5. CASE ic.op = "mullw"
    <2> DEFINE p == Signed(gpr[ic.a], WB) * Signed(gpr[ic.b], WB)
    <2>1. Goes /\ p \in Int
      BY <1>5, MultiplyStep
    <2>2. PICK v \in Doubles : gpr' = [gpr EXCEPT ![ic.d] = v] /\ Lo(v) = Lo(ToD(p))
      BY <1>5, MultiplyStep
    <2>3. Common(ic.op, gpr[ic.a], gpr[ic.b]) = ToW(p)
      BY <1>5 DEF Common
    <2> HIDE DEF p
    <2>4. Lo(ToD(p)) = ToW(p)
      BY <2>1, Casts
    <2> QED BY <2>1, <2>2, <2>3, <2>4 DEF Promised
  <1> QED BY <1>1, <1>2, <1>3, <1>4, <1>5 DEF ScalarOps, WordShifts

\* A register that is not 0 has a lowest bit.
LEMMA LowestBit ==
    ASSUME NEW m \in Doubles, m # 0
    PROVE  \E r \in 0..DB : m % 2^r = 0 /\ (m \div 2^r) % 2 = 1
  <1> DEFINE S == {n \in 0..DB : m % 2^n # 0}
  <1>1. DB \in Nat /\ m \in Int /\ m \in 0..(DoubleSize - 1)
    BY Widths, CastWithin, InSizes
  <1>2. DB \in S
    <2>1. m % DoubleSize = m
      BY <1>1, Sizes, Within
    <2> QED BY <1>1, <2>1 DEF DoubleSize
  <1>3. S \subseteq Nat /\ S # {}
    <2>1. S \subseteq 0..DB
      OBVIOUS
    <2>2. 0..DB \subseteq Nat
      BY <1>1
    <2> HIDE DEF S
    <2> QED BY <1>2, <2>1, <2>2
  <1>4. PICK n \in S : \A i \in S : n <= i
    <2> HIDE DEF S
    <2> QED BY <1>3, LeastNatural
  <1>5. n \in 0..DB /\ m % 2^n # 0
    BY <1>4
  <1>6. n # 0
    <2>1. m % 1 = 0
      BY <1>1
    <2>2. 2^0 = 1
      OBVIOUS
    <2> QED BY <1>5, <2>1, <2>2
  <1> DEFINE r == n - 1
             d == 2^r
             e == 2
             b == (m \div d) % e
  <1>7. r \in 0..DB /\ n \in 1..DB /\ r < n /\ 2^n = 2 * d /\ d \in Nat /\ d > 0
    <2>1. r \in 0..DB /\ n \in 1..DB /\ r < n
      BY <1>1, <1>5, <1>6
    <2> QED BY <2>1, Powers, Doubling
  <1>8. m % d = 0
    <2>1. r \notin S
      BY <1>4, <1>5, <1>7
    <2> QED BY <1>7, <2>1
  <1>9. b = 1
    <2>1. m \div d \in Int
      <3> HIDE DEF d
      <3> QED BY <1>1, <1>7, Division
    <2>2. b \in 0..1
      <3> HIDE DEF d
      <3> QED BY <2>1
    <2>3. 2^n = d * e /\ e \in Nat /\ e > 0
      <3> HIDE DEF d
      <3> QED BY <1>7
    <2>4. m % (d * e) = b * d + (m % d)
      <3> HIDE DEF d, e
      <3> QED BY <1>1, <1>7, <2>3, DivideByProduct DEF d
    <2> HIDE DEF d, b
    <2>5. b * d # 0
      BY <1>5, <1>8, <2>3, <2>4, <2>2, <1>7
    <2> QED BY <1>7, <2>2, <2>5
  <1> QED BY <1>7, <1>8, <1>9

\* The exclusive or of two registers is 0 only if they are equal, and is all ones only if
\* their bits fill a register.
LEMMA XorRange ==
    ASSUME NEW x \in Doubles, NEW y \in Doubles
    PROVE  /\ (x ^^ y) \in Doubles
           /\ x # y => (x ^^ y) # 0
           /\ (x ^^ y) <= x + y /\ (x ^^ y) <= 2 * (DoubleSize - 1) - x - y
  <1> DEFINE a == x & y
  <1>1. x \in Int /\ y \in Int /\ ToD(x) = x /\ ToD(y) = y /\ DoubleSize \in Nat
    BY CastWithin, Sizes
  <1>2. a \in Int /\ a >= 0 /\ a <= x /\ a <= y /\ x + y - a <= DoubleSize - 1
    BY <1>1, AndRange
  <1>3. (x ^^ y) = x + y - 2 * a
    BY DEF ^^
  <1>4. (x ^^ y) \in Doubles
    BY BitwiseTypes
  <1> HIDE DEF a
  <1> QED BY <1>1, <1>2, <1>3, <1>4

\* The field sign_exts_f takes is an integer, whatever the count of a vector shift.
LEMMA FieldIsInteger ==
    ASSUME NEW n \in Int, NEW x \in {0, WB}, NEW y \in Int, y <= x + WB - 1, NEW sgn \in BOOLEAN
    PROVE  sign_exts_f(n, x, y, sgn) \in Int
  <1> DEFINE e(bp) == (DB - bp) % DB
             bmask(bp) == IF bp = 0 THEN 2^DB - 1 ELSE 2^e(bp) - 1
             mask == IF x < y THEN bmask(x) ^^ bmask(y + 1)
                     ELSE Compl(bmask(x + 1) ^^ bmask(y))
             rshft == CHOOSE r \in 0..DB : mask % 2^r = 0 /\ (mask \div 2^r) % 2 = 1
             val == (n & mask) \div 2^rshft
             top == Compl(2^((y - x + 1) % DB) - 1)
  <1>1. sign_exts_f(n, x, y, sgn) = IF sgn /\ B_N(n, x) = 1 THEN val | top ELSE val
    BY DEF sign_exts_f
  <1>2. WB \in Nat /\ WB >= 4 /\ DB = 2 * WB /\ DB \in Nat /\ DB > 0 /\ DB - 1 \in 0..DB
        /\ x \in Nat /\ x <= WB
    BY Widths
  <1>3. ASSUME NEW bp \in Int, bp # 0
        PROVE  /\ e(bp) \in 0..(DB - 1) /\ bmask(bp) \in 0..(2^(DB - 1) - 1)
               /\ bmask(bp) = 2^e(bp) - 1
    <2>1. e(bp) \in 0..(DB - 1)
      BY <1>2
    <2>2. bmask(bp) = 2^e(bp) - 1
      BY <1>3
    <2> HIDE DEF e
    <2>3. 2^e(bp) \in Nat /\ 2^e(bp) > 0 /\ 2^e(bp) <= 2^(DB - 1) /\ 2^(DB - 1) \in Nat
      <3>1. e(bp) \in 0..DB /\ e(bp) <= DB - 1
        BY <1>2, <2>1
      <3> QED BY <1>2, <3>1, Powers, PowerOrder
    <2> QED BY <2>1, <2>2, <2>3
  <1> DEFINE t == 2^(DB - 1)
  <1>4. t \in Nat /\ DoubleSize = 2 * t /\ DoubleSize \in Nat /\ t > 1 /\ 2^DB = DoubleSize
    <2>1. DB \in 1..DB
      BY <1>2
    <2>2. DB - 1 < t
      BY <1>2, PowerLarger
    <2> QED BY <1>2, <2>1, <2>2, Powers, Doubling, Sizes DEF DoubleSize
  <1>5. mask \in Doubles /\ mask # 0
    <2>1. CASE x < y
      <3> DEFINE u == bmask(x)
                 v == bmask(y + 1)
      <3>1. mask = (u ^^ v)
        BY <2>1
      <3>2. y + 1 \in Int /\ y + 1 # 0 /\ y + 1 <= DB /\ y + 1 > x
        BY <1>2, <2>1
      <3>3. v \in Doubles /\ v = 2^(DB - (y + 1)) - 1
        <4>1. e(y + 1) = DB - (y + 1)
          BY <1>2, <3>2, Within
        <4>2. v \in 0..(t - 1) /\ v = 2^e(y + 1) - 1
          BY <1>3, <3>2
        <4> HIDE DEF v, t, e
        <4> QED BY <1>4, <4>1, <4>2, InSizes
      <3>4. u \in Doubles /\ u = 2^(DB - x) - 1
        <4>1. CASE x = 0
          <5>1. u = DoubleSize - 1 /\ DB - x = DB
            BY <1>2, <1>4, <4>1
          <5> QED BY <1>4, <5>1, InSizes
        <4>2. CASE x # 0
          <5>1. x \in Int /\ e(x) = DB - x
            <6>1. DB - x \in 0..(DB - 1)
              BY <1>2, <4>2
            <6> QED BY <1>2, <6>1, Within
          <5>2. u \in 0..(t - 1) /\ u = 2^e(x) - 1
            BY <1>3, <4>2, <5>1
          <5> HIDE DEF u, t, e
          <5> QED BY <1>4, <5>1, <5>2, InSizes
        <4> QED BY <4>1, <4>2
      <3>5. u # v
        <4> DEFINE p == DB - x
                   q == DB - (y + 1)
        <4>1. p \in 0..DB /\ q \in 0..DB /\ q + 1 \in 1..DB /\ (q + 1) - 1 = q /\ q + 1 <= p
          BY <1>2, <3>2
        <4> HIDE DEF p, q
        <4>2. q + 1 \in 0..DB
          BY <4>1, <1>2
        <4>3. 2^(q + 1) = 2 * 2^q
          BY <4>1, Doubling
        <4>4. 2^(q + 1) <= 2^p
          BY <4>1, <4>2, PowerOrder
        <4>5. 2^q \in Nat /\ 2^q > 0 /\ 2^p \in Nat
          BY <4>1, Powers
        <4>6. 2^q # 2^p
          BY <4>3, <4>4, <4>5
        <4>7. u = 2^p - 1 /\ v = 2^q - 1
          BY <3>3, <3>4 DEF p, q
        <4> HIDE DEF u, v
        <4> QED BY <4>5, <4>6, <4>7
      <3> HIDE DEF u, v, mask
      <3> QED BY <3>1, <3>3, <3>4, <3>5, XorRange
    <2>2. CASE ~(x < y)
      <3> DEFINE u == bmask(x + 1)
                 v == bmask(y)
                 z == u ^^ v
      <3>1. mask = Compl(z)
        BY <2>2
      <3>2. x + 1 \in Int /\ x + 1 # 0
        BY <1>2
      <3>3. u \in 0..(t - 1)
        BY <1>3, <3>2
      <3>4. u > 0
        <4>1. DB - (x + 1) \in 0..(DB - 1) /\ DB - (x + 1) \in 0..DB /\ DB - (x + 1) > 0
          BY <1>2
        <4>2. e(x + 1) = DB - (x + 1)
          BY <1>2, <4>1, Within
        <4>3. u = 2^(DB - (x + 1)) - 1
          BY <1>3, <3>2, <4>2
        <4> DEFINE g == DB - (x + 1)
        <4>4. g < 2^g /\ 2^g \in Nat /\ g \in Nat /\ g > 0
          BY <1>2, <4>1, PowerLarger, Powers
        <4>5. u = 2^g - 1
          BY <4>3
        <4> HIDE DEF g, u
        <4> QED BY <4>4, <4>5
      <3>5. v \in 0..(t - 1) \/ v = DoubleSize - 1
        <4>1. CASE y = 0
          BY <1>4, <4>1
        <4>2. CASE y # 0
          BY <1>3, <4>2
        <4> QED BY <4>1, <4>2
      <3> HIDE DEF u, v, t
      <3>6. u \in Doubles /\ v \in Doubles
        BY <1>4, <3>3, <3>5, InSizes
      <3>7. z \in Doubles /\ z <= u + v /\ z <= 2 * (DoubleSize - 1) - u - v
        BY <3>6, XorRange
      <3> HIDE DEF z, mask
      <3>8. z < DoubleSize - 1 /\ z \in 0..(DoubleSize - 1)
        BY <1>4, <3>3, <3>4, <3>5, <3>7, InSizes
      <3>9. mask = DoubleSize - 1 - z
        BY <3>1, InSizes
      <3> QED BY <1>4, <3>8, <3>9, InSizes
    <2> QED BY <2>1, <2>2
  <1> HIDE DEF mask
  <1>6. rshft \in 0..DB
    BY <1>5, LowestBit
  <1> HIDE DEF rshft
  <1>7. val \in Int
    <2>1. (n & mask) \in Int
      BY <1>5, AndRange, CastWithin
    <2>2. 2^rshft \in Nat /\ 2^rshft > 0
      BY <1>6, Powers
    <2> DEFINE p == n & mask
               q == 2^rshft
    <2>3. p \in Int /\ q \in Nat /\ q > 0
      BY <2>1, <2>2
    <2> HIDE DEF p, q
    <2>4. p \div q \in Int
      BY <2>3, Division
    <2> QED BY <2>4 DEF p, q
  <1> HIDE DEF val
  <1>8. top \in Int
    <2> DEFINE c == (y - x + 1) % DB
    <2>1. c \in 0..(DB - 1)
      BY <1>2
    <2> HIDE DEF c
    <2>2. c \in 0..DB
      BY <1>2, <2>1
    <2>3. 2^c \in Nat
      BY <2>2, Powers
    <2>4. 2^c - 1 \in Int
      BY <2>3
    <2>5. Compl(2^c - 1) \in Int
      BY <2>4, Complements
    <2> QED BY <2>5 DEF c
  <1> HIDE DEF top
  <1>9. (val | top) \in Int
    BY <1>7, <1>8, LowBitwise
  <1> QED BY <1>1, <1>7, <1>9

VectorOps == {"evaddw", "evand", "evandc", "evsubfw", "evneg", "evor", "evorc", "evnand", "evnor",
              "evxor", "evcntlzw", "evextsb", "evextsh", "evslw", "evsrwu", "evsrws", "evmws"}

\* Every vector instruction of the pairs has its action.
LEMMA VectorActions ==
    ASSUME Next, ic.op \in VectorOps
    PROVE  /\ ic.op \in {"evaddw", "evand", "evandc"} => evaddw_and
           /\ ic.op = "evsubfw" => evsubf
           /\ ic.op \in {"evneg", "evor", "evorc", "evnand", "evnor"} => evlogic
           /\ ic.op = "evxor" => evxor
           /\ ic.op = "evcntlzw" => evcntl
           /\ ic.op \in {"evextsb", "evextsh"} => eveqv_ext
           /\ ic.op = "evslw" => evshift_left
           /\ ic.op \in {"evsrwu", "evsrws"} => evshift_right
           /\ ic.op = "evmws" => evmws
  <1> USE DEF Fetch, VectorOps
  <1>1. ~IntegerNext
    <2>1. ~Add /\ ~Subtract
      BY DEF Add, Subtract, AddOps, SubtractOps
    <2>2. ~Divide /\ ~Multiply
      BY DEF Divide, Multiply
    <2>3. ~Logical /\ ~LogicalWide
      BY DEF Logical, LogicalWide, LogicalOps
    <2>4. ~Compare /\ ~CrLogic
      BY DEF Compare, CrLogic, CrOps
    <2>5. ~mcrf /\ ~mtcrf /\ ~mcrxr /\ ~mfcr /\ ~isel
      BY DEF mcrf, mtcrf, mcrxr, mfcr, isel
    <2>6. ~Rotate /\ ~ShiftLogical /\ ~ShiftAlgebraic
      BY DEF Rotate, ShiftLogical, ShiftAlgebraic
    <2> QED BY <2>1, <2>2, <2>3, <2>4, <2>5, <2>6 DEF IntegerNext
  <1>2. ~brinc /\ ~evabs_addiw /\ ~evadd_aaw /\ ~evcmp /\ ~evdivw /\ ~evmerge
    BY DEF brinc, evabs_addiw, evadd_aaw, evcmp, evdivw, evmerge
  <1>3. ~evmheg /\ ~evmhesm /\ ~evmhessf /\ ~evmhessi /\ ~evmheumi /\ ~evmheusi
    BY DEF evmheg, evmhesm, evmhessf, evmhessi, evmheumi, evmheusi
  <1>4. ~evmhog /\ ~evmhosm /\ ~evmhossf /\ ~evmhossi /\ ~evmhoumi /\ ~evmhousi
    BY DEF evmhog, evmhosm, evmhossf, evmhossi, evmhoumi, evmhousi
  <1>5. ~evmra /\ ~evmwh /\ ~evmwl /\ ~evmwssf /\ ~evrotate_sel
    BY DEF evmra, evmwh, evmwl, evmwssf, evrotate_sel
  <1>6. ~evfs_sign /\ ~evfs_arith /\ ~evfs_compare /\ ~efd_sign
    BY DEF evfs_sign, evfs_arith, evfs_compare, efd_sign
  <1>7. /\ evaddw_and => ic.op \in {"evaddw", "evand", "evandc"}
        /\ evsubf => ic.op = "evsubfw"
        /\ evlogic => ic.op \in {"evneg", "evor", "evorc", "evnand", "evnor"}
        /\ evxor => ic.op = "evxor"
    BY DEF evaddw_and, evsubf, evlogic, evxor
  <1>8. /\ evcntl => ic.op = "evcntlzw"
        /\ eveqv_ext => ic.op \in {"evextsb", "evextsh"}
        /\ evshift_left => ic.op = "evslw"
        /\ evshift_right => ic.op \in {"evsrwu", "evsrws"}
        /\ evmws => ic.op = "evmws"
    BY DEF evcntl, eveqv_ext, evshift_left, evshift_right, evmws
  <1>9. \/ evaddw_and \/ evsubf \/ evlogic \/ evxor \/ evcntl \/ eveqv_ext
        \/ evshift_left \/ evshift_right \/ evmws
    BY <1>1, <1>2, <1>3, <1>4, <1>5, <1>6, Zenon DEF Next, SpeNext
  <1> HIDE DEF Fetch
  <1> QED BY <1>7, <1>8, <1>9

\* A vector instruction writes the common word in its low lane.
Vectored(op, v) ==
    /\ Goes /\ gpr' = [gpr EXCEPT ![ic.d] = v]
    /\ Lo(v) = Common(op, gpr[ic.a], gpr[ic.b])

\* The end of one, of a value of the whole register.
LEMMA ValueWritten ==
    ASSUME NEW v, NEW t, NEW f, SpeDone(v, t, f), NEW op,
           Lo(v) = Common(op, gpr[ic.a], gpr[ic.b])
    PROVE  Vectored(op, v)
  BY DEF SpeDone, Complete, Goes, Vectored

\* And of two lanes, of which the low one is the common word.
LEMMA LanesWritten ==
    ASSUME NEW h \in Int, NEW w \in Words, NEW t, NEW f, SpeDone(PACK_2W(h, w), t, f), NEW op,
           w = Common(op, gpr[ic.a], gpr[ic.b])
    PROVE  \E v : Vectored(op, v)
  <1> DEFINE v == PACK_2W(h, w)
  <1>1. w \in 0..(WordSize - 1) /\ w \in Int /\ WordSize \in Nat /\ WordSize > 0
    BY InSizes, Sizes, CastWithin
  <1>2. v = w + h * WordSize
    <2>1. v = h * WordSize + w
      BY InSizes
    <2>2. h * WordSize \in Int
      BY <1>1, Times
    <2> HIDE DEF v
    <2> QED BY <1>1, <2>1, <2>2
  <1>3. Lo(v) = w
    <2>1. (w + h * WordSize) % WordSize = w % WordSize /\ w % WordSize = w
      BY <1>1, AddMultiple, Within
    <2> QED BY <1>2, <2>1, InSizes
  <1>4. Vectored(op, v)
    <2> HIDE DEF v
    <2> QED BY <1>3, ValueWritten DEF v
  <1> QED BY <1>4

\* The words of a register.
LEMMA LaneWords ==
    ASSUME NEW x \in Doubles
    PROVE  /\ W(x, 0) = Hi(x) /\ W(x, 1) = Lo(x)
           /\ Hi(x) \in Words /\ Hi(x) \in Int /\ Lo(x) \in Words /\ Lo(x) \in Int
  <1>1. Hi(x) \in Words /\ Lo(x) \in Words
    BY Unpacked
  <1> QED BY <1>1, CastWithin DEF W

\* The sums and the logical instructions.
LEMMA VectorSum ==
    ASSUME Next, Supplied, NEW op, <<op, ic.op>> \in SameWord,
           ic.op \in {"evaddw", "evsubfw", "evneg", "evextsb", "evextsh"}
    PROVE  \E v : Vectored(op, v)
  <1> DEFINE x == gpr[ic.a]
             y == gpr[ic.b]
  <1>1. x \in Doubles /\ y \in Doubles /\ x \in Int /\ y \in Int /\ REG1 = x /\ REG2 = y
    BY Supplies
  <1>2. /\ W(x, 0) = Hi(x) /\ W(x, 1) = Lo(x) /\ Hi(x) \in Int /\ Lo(x) \in Int
        /\ W(y, 0) = Hi(y) /\ W(y, 1) = Lo(y) /\ Hi(y) \in Int /\ Lo(y) \in Int
    BY <1>1, LaneWords
  <1>3. ASSUME NEW g \in Int, NEW l \in Int, NEW c \in Int,
               SpeDone(PACK_2W(ToW(g), ToW(l)), FALSE, spefscr),
               ToW(l) = ToW(c), Common(op, x, y) = ToW(c)
        PROVE  \E v : Vectored(op, v)
    <2>1. ToW(g) \in Int /\ ToW(l) \in Words
      BY <1>3, Casts, CastWithin
    <2>2. ToW(l) = Common(op, x, y)
      BY <1>3
    <2> QED BY <1>3, <2>1, <2>2, LanesWritten
  <1>4. ToW(x) = Lo(x) /\ ToW(y) = Lo(y)
    BY <1>1, Casts
  <1>5. CASE ic.op = "evaddw"
    <2>1. SpeDone(PACK_2W(ToW(Hi(x) + Hi(y)), ToW(Lo(x) + Lo(y))), FALSE, spefscr)
      <3>1. evaddw_and
        BY <1>5, VectorActions DEF VectorOps
      <3>2. SpeDone(Pack(LAMBDA l : ToW(W(REG1, l) + W(REG2, l))), FALSE, spefscr)
        BY <1>5, <3>1 DEF evaddw_and
      <3> QED BY <1>1, <1>2, <3>2 DEF Pack
    <2>2. op = "add"
      BY <1>5 DEF SameWord
    <2>3. Common(op, x, y) = ToW(x + y)
      BY <2>2 DEF Common
    <2>4. ToW(Lo(x) + Lo(y)) = ToW(x + y)
      <3>1. ToW(ToW(x) + Lo(y)) = ToW(x + Lo(y)) /\ ToW(x + ToW(y)) = ToW(x + y)
        BY <1>1, <1>2, CastOfSum
      <3> QED BY <1>4, <3>1
    <2> HIDE DEF x, y
    <2>5. Hi(x) + Hi(y) \in Int /\ Lo(x) + Lo(y) \in Int /\ x + y \in Int
      BY <1>1, <1>2
    <2> QED BY <1>3, <2>1, <2>3, <2>4, <2>5
  <1>6. CASE ic.op = "evsubfw"
    <2>1. SpeDone(PACK_2W(ToW(Hi(y) - Hi(x)), ToW(Lo(y) - Lo(x))), FALSE, spefscr)
      <3>1. evsubf
        BY <1>6, VectorActions DEF VectorOps
      <3>2. SpeDone(Pack(LAMBDA l : ToW(W(REG2, l) - W(REG1, l))), FALSE, spefscr)
        BY <1>6, <3>1 DEF evsubf
      <3> QED BY <1>1, <1>2, <3>2 DEF Pack
    <2>2. op = "subf"
      BY <1>6 DEF SameWord
    <2>3. Common(op, x, y) = ToW(y - x)
      BY <2>2 DEF Common
    <2>4. ToW(Lo(y) - Lo(x)) = ToW(y - x)
      <3>1. ToW(ToW(y) - Lo(x)) = ToW(y - Lo(x)) /\ ToW(y - ToW(x)) = ToW(y - x)
        BY <1>1, <1>2, CastOfSum
      <3> QED BY <1>4, <3>1
    <2> HIDE DEF x, y
    <2>5. Hi(y) - Hi(x) \in Int /\ Lo(y) - Lo(x) \in Int /\ y - x \in Int
      BY <1>1, <1>2
    <2> QED BY <1>3, <2>1, <2>3, <2>4, <2>5
  <1>7. CASE ic.op = "evneg"
    <2>1. SpeDone(PACK_2W(ToW(-Hi(x)), ToW(-Lo(x))), FALSE, spefscr)
      <3>1. evlogic
        BY <1>7, VectorActions DEF VectorOps
      <3>2. SpeDone(Pack(LAMBDA l : x86_neg(W(REG1, l)).r), FALSE, spefscr)
        BY <1>7, <3>1 DEF evlogic
      <3>3. x86_neg(Hi(x)).r = ToW(-Hi(x)) /\ x86_neg(Lo(x)).r = ToW(-Lo(x))
        BY Zenon DEF x86_neg, Flags
      <3>4. SpeDone(PACK_2W(x86_neg(Hi(x)).r, x86_neg(Lo(x)).r), FALSE, spefscr)
        BY <1>1, <1>2, <3>2 DEF Pack
      <3> QED BY <3>3, <3>4
    <2>2. op = "neg"
      BY <1>7 DEF SameWord
    <2>3. Common(op, x, y) = ToW(-x)
      BY <2>2 DEF Common
    <2>4. ToW(-Lo(x)) = ToW(-x)
      <3>1. ToW(0 - ToW(x)) = ToW(0 - x)
        <4>1. 0 \in Int /\ x \in Int
          BY <1>1
        <4> HIDE DEF x
        <4> QED BY <4>1, CastOfSum
      <3>2. 0 - ToW(x) = -Lo(x) /\ 0 - x = -x
        BY <1>1, <1>2, <1>4
      <3> QED BY <3>1, <3>2
    <2> HIDE DEF x, y
    <2>5. -Hi(x) \in Int /\ -Lo(x) \in Int /\ -x \in Int
      BY <1>1, <1>2
    <2> QED BY <1>3, <2>1, <2>3, <2>4, <2>5
  <1>8. ASSUME NEW n \in 1..WB,
               SpeDone(PACK_2W(ToW(Signed(Hi(x), n)), ToW(Signed(Lo(x), n))), FALSE, spefscr),
               Common(op, x, y) = ToW(Signed(x, n))
        PROVE  \E v : Vectored(op, v)
    <2>1. Signed(Lo(x), n) = Signed(x, n) /\ Signed(x, n) \in Int /\ Signed(Hi(x), n) \in Int
      BY <1>1, <1>2, SignedFieldLow
    <2> HIDE DEF x, y
    <2> QED BY <1>3, <1>8, <2>1
  <1>9. CASE ic.op \in {"evextsb", "evextsh"}
    <2>1. eveqv_ext
      BY <1>9, VectorActions DEF VectorOps
    <2>2. BB \in 1..WB /\ HB \in 1..WB
      BY Widths
    <2>3. CASE ic.op = "evextsb"
      <3>1. SpeDone(Pack(LAMBDA l : ToW(Signed(W(REG1, l), BB))), FALSE, spefscr)
        BY <2>1, <2>3 DEF eveqv_ext
      <3>2. SpeDone(PACK_2W(ToW(Signed(Hi(x), BB)), ToW(Signed(Lo(x), BB))), FALSE, spefscr)
        BY <1>1, <1>2, <3>1 DEF Pack
      <3>3. op = "extsb"
        BY <2>3 DEF SameWord
      <3>4. Common(op, x, y) = ToW(Signed(x, BB))
        BY <3>3 DEF Common
      <3> QED BY <1>8, <2>2, <3>2, <3>4
    <2>4. CASE ic.op = "evextsh"
      <3>1. SpeDone(Pack(LAMBDA l : ToW(Signed(W(REG1, l), HB))), FALSE, spefscr)
        BY <2>1, <2>4 DEF eveqv_ext
      <3>2. SpeDone(PACK_2W(ToW(Signed(Hi(x), HB)), ToW(Signed(Lo(x), HB))), FALSE, spefscr)
        BY <1>1, <1>2, <3>1 DEF Pack
      <3>3. op = "extsh"
        BY <2>4 DEF SameWord
      <3>4. Common(op, x, y) = ToW(Signed(x, HB))
        BY <3>3 DEF Common
      <3> QED BY <1>8, <2>2, <3>2, <3>4
    <2> QED BY <1>9, <2>3, <2>4
  <1> QED BY <1>5, <1>6, <1>7, <1>9

\* Those of the whole register.
LEMMA VectorLogic ==
    ASSUME Next, NEW op, <<op, ic.op>> \in SameWord,
           ic.op \in {"evand", "evandc", "evor", "evorc", "evnand", "evnor", "evxor"}
    PROVE  \E v : Vectored(op, v)
  <1> DEFINE x == gpr[ic.a]
             y == gpr[ic.b]
  <1>1. REG1 = x /\ REG2 = y
    BY DEF REG1, REG2
  <1>2. CASE ic.op = "evand"
    <2>1. op = "and" /\ evaddw_and
      BY <1>2, VectorActions DEF SameWord, VectorOps
    <2>2. SpeDone(x & y, FALSE, spefscr) /\ Common(op, x, y) = Lo(x & y)
      BY <1>1, <1>2, <2>1 DEF evaddw_and, Common
    <2> QED BY <2>2, ValueWritten
  <1>3. CASE ic.op = "evandc"
    <2>1. op = "andc" /\ evaddw_and
      BY <1>3, VectorActions DEF SameWord, VectorOps
    <2>2. SpeDone(x & Compl(y), FALSE, spefscr) /\ Common(op, x, y) = Lo(x & Compl(y))
      BY <1>1, <1>3, <2>1 DEF evaddw_and, Common
    <2> QED BY <2>2, ValueWritten
  <1>4. CASE ic.op = "evor"
    <2>1. op = "or" /\ evlogic
      BY <1>4, VectorActions DEF SameWord, VectorOps
    <2>2. SpeDone(x | y, FALSE, spefscr) /\ Common(op, x, y) = Lo(x | y)
      BY <1>1, <1>4, <2>1 DEF evlogic, Common
    <2> QED BY <2>2, ValueWritten
  <1>5. CASE ic.op = "evorc"
    <2>1. op = "orc" /\ evlogic
      BY <1>5, VectorActions DEF SameWord, VectorOps
    <2>2. SpeDone(x | Compl(y), FALSE, spefscr) /\ Common(op, x, y) = Lo(x | Compl(y))
      BY <1>1, <1>5, <2>1 DEF evlogic, Common
    <2> QED BY <2>2, ValueWritten
  <1>6. CASE ic.op = "evnand"
    <2>1. op = "nand" /\ evlogic
      BY <1>6, VectorActions DEF SameWord, VectorOps
    <2>2. SpeDone(Compl(x & y), FALSE, spefscr) /\ Common(op, x, y) = Lo(Compl(x & y))
      BY <1>1, <1>6, <2>1 DEF evlogic, Common
    <2> QED BY <2>2, ValueWritten
  <1>7. CASE ic.op = "evnor"
    <2>1. op = "nor" /\ evlogic
      BY <1>7, VectorActions DEF SameWord, VectorOps
    <2>2. SpeDone(Compl(x | y), FALSE, spefscr) /\ Common(op, x, y) = Lo(Compl(x | y))
      BY <1>1, <1>7, <2>1 DEF evlogic, Common
    <2> QED BY <2>2, ValueWritten
  <1>8. CASE ic.op = "evxor"
    <2>1. op = "xor" /\ evxor
      BY <1>8, VectorActions DEF SameWord, VectorOps
    <2>2. SpeDone(x ^^ y, FALSE, spefscr) /\ Common(op, x, y) = Lo(x ^^ y)
      BY <1>1, <2>1 DEF evxor, Common
    <2> QED BY <2>2, ValueWritten
  <1> QED BY <1>2, <1>3, <1>4, <1>5, <1>6, <1>7, <1>8

\* evcntlzw counts the zeros at the top of each word.
LEMMA VectorCount ==
    ASSUME Next, Supplied, NEW op, <<op, ic.op>> \in SameWord, ic.op = "evcntlzw"
    PROVE  \E v : Vectored(op, v)
  <1> DEFINE x == gpr[ic.a]
             y == gpr[ic.b]
             u == Hi(x)
  <1>1. x \in Doubles /\ x \in Int /\ REG1 = x
    BY Supplies
  <1>2. W(x, 0) = u /\ W(x, 1) = Lo(x) /\ u \in Int /\ Lo(u) = u
    BY <1>1, LaneWords, CastWithin
  <1>3. op = "cntlzw" /\ evcntl
    BY VectorActions DEF SameWord, VectorOps
  <1>4. Common(op, x, y) = Zeros(x)
    BY <1>3 DEF Common
  <1>5. Zeros(x) \in Words /\ Zeros(u) \in Words /\ Zeros(u) \in Int
    BY <1>1, <1>2, LeadingZeros, CastWithin
  <1> DEFINE bit(l, n) == (W(REG1, l) \div 2^(WB - 1 - n)) % 2
             s(l) == IF ic.op = "evcntlsw" THEN bit(l, 0) ELSE 0
             cnt(l) == CHOOSE n \in 0..WB : /\ \A j \in 0..(n - 1) : bit(l, j) = s(l)
                                            /\ n < WB => bit(l, n) # s(l)
             z(l) == CHOOSE n \in 0..WB : /\ \A j \in 0..(n - 1) : bit(l, j) = 0
                                          /\ n < WB => bit(l, n) # 0
  <1>6. SpeDone(PACK_2W(cnt(0), cnt(1)), FALSE, spefscr)
    BY <1>3, Zenon DEF evcntl, Pack
  <1>7. s(0) = 0 /\ s(1) = 0
    OBVIOUS
  <1>8. cnt(0) = z(0) /\ cnt(1) = z(1)
    <2> HIDE DEF s, bit
    <2> QED BY <1>7, Zenon
  <1>9. z(0) = Zeros(u)
    <2>1. z(0) = CHOOSE n \in 0..WB : /\ \A j \in 0..(n - 1) : (Lo(u) \div 2^(WB - 1 - j)) % 2 = 0
                                      /\ n < WB => (Lo(u) \div 2^(WB - 1 - n)) % 2 # 0
      BY <1>1, <1>2, Zenon
    <2>2. u \in Int
      BY <1>2
    <2> HIDE DEF u, z
    <2> QED BY <2>1, <2>2, LeadingZeros
  <1>10. z(1) = Zeros(x)
    <2>1. z(1) = CHOOSE n \in 0..WB : /\ \A j \in 0..(n - 1) : (Lo(x) \div 2^(WB - 1 - j)) % 2 = 0
                                      /\ n < WB => (Lo(x) \div 2^(WB - 1 - n)) % 2 # 0
      BY <1>1, <1>2, Zenon
    <2> HIDE DEF x, z
    <2> QED BY <1>1, <2>1, LeadingZeros
  <1>11. SpeDone(PACK_2W(Zeros(u), Zeros(x)), FALSE, spefscr)
    <2> HIDE DEF cnt, z
    <2> QED BY <1>6, <1>8, <1>9, <1>10
  <1> QED BY <1>4, <1>5, <1>11, LanesWritten

\* The amount of a shift is the same of the word and of the register.
LEMMA AmountOfWord ==
    ASSUME NEW x \in Int
    PROVE  Lo(x) % (2 * WB) = x % (2 * WB) /\ \A y \in Int : y % (2 * WB) \in 0..(2 * WB - 1)
  <1> DEFINE d == 2 * WB
             e == WordSize \div d
  <1>1. d \in Nat /\ d > 0 /\ WordSize \in Nat /\ WordSize > 0 /\ WordSize % d = 0
    BY Widths, Sizes, AmountAssumption DEF WordSize
  <1> HIDE DEF d
  <1>2. WordSize = e * d + 0 /\ e \in Int
    BY <1>1, Division
  <1> HIDE DEF e
  <1>3. WordSize = d * e /\ e \in Nat /\ e > 0
    <2>1. e * d = d * e /\ e * d \in Int
      BY <1>1, <1>2, Times
    <2>2. e > 0
      <3> SUFFICES ASSUME e <= 0 PROVE FALSE
        BY <1>2
      <3>1. (0 - e) * d \in Nat /\ (0 - e) * d = 0 - e * d
        BY <1>1, <1>2
      <3> QED BY <1>1, <1>2, <2>1, <3>1
    <2> QED BY <1>1, <1>2, <2>1, <2>2
  <1>4. (x % (d * e)) % d = x % d
    BY <1>1, <1>3, DivideByProduct
  <1>5. Lo(x) % d = x % d
    BY <1>3, <1>4, InSizes
  <1>6. \A y \in Int : y % d \in 0..(d - 1)
    BY <1>1, Division
  <1> QED BY <1>5, <1>6 DEF d

\* The amounts of the two lanes.
LEMMA LaneAmounts ==
    ASSUME Supplied
    PROVE  /\ W(REG2, 0) % (2 * WB) \in 0..(2 * WB - 1)
           /\ W(REG2, 1) % (2 * WB) = gpr[ic.b] % (2 * WB)
           /\ gpr[ic.b] % (2 * WB) \in 0..(2 * WB - 1)
  <1> DEFINE y == gpr[ic.b]
  <1>1. y \in Doubles /\ y \in Int /\ REG2 = y
    BY Supplies
  <1>2. W(y, 0) \in Int /\ W(y, 1) = Lo(y)
    BY <1>1, LaneWords
  <1> HIDE DEF y
  <1> QED BY <1>1, <1>2, AmountOfWord DEF y

\* evslw.
LEMMA VectorLeft ==
    ASSUME Next, Supplied, NEW op, <<op, ic.op>> \in SameWord, ic.op = "evslw",
           gpr[ic.b] % (2 * WB) < WB - 1
    PROVE  \E v : Vectored(op, v)
  <1> DEFINE x == gpr[ic.a]
             y == gpr[ic.b]
             m == W(REG2, 0) % (2 * WB)
             n == y % (2 * WB)
  <1>1. x \in Doubles /\ x \in Int /\ REG1 = x
    BY Supplies
  <1>2. W(x, 0) = Hi(x) /\ W(x, 1) = Lo(x) /\ Hi(x) \in Int /\ Lo(x) \in Int
    BY <1>1, LaneWords
  <1>3. op = "slw" /\ evshift_left
    BY VectorActions DEF SameWord, VectorOps
  <1>4. Common(op, x, y) = ToW(Lo(x) * 2^n)
    BY <1>3 DEF Common
  <1>5. WB \in Nat /\ WB >= 4 /\ DB = 2 * WB
    BY Widths
  <1>6. m \in 0..(2 * WB - 1) /\ W(REG2, 1) % (2 * WB) = n /\ n \in 0..(2 * WB - 1) /\ n < WB - 1
    BY LaneAmounts
  <1>7. SpeDone(PACK_2W(SL(W(REG1, 0), m), SL(W(REG1, 1), W(REG2, 1) % (2 * WB))), FALSE, spefscr)
    <2>1. (ic.op = "evslw") = TRUE
      OBVIOUS
    <2> QED BY <1>3, <2>1 DEF evshift_left, Pack
  <1> HIDE DEF m, n
  <1>8. SpeDone(PACK_2W(SL(Hi(x), m), SL(Lo(x), n)), FALSE, spefscr)
    BY <1>1, <1>2, <1>6, <1>7
  <1>9. ASSUME NEW w \in Int, NEW c \in 0..DB PROVE w * 2^c \in Int
    <2>1. 2^c \in Int
      BY Powers
    <2> DEFINE d == 2^c
    <2> HIDE DEF d
    <2>2. d \in Int => w * d \in Int
      BY Times
    <2> QED BY <2>1, <2>2 DEF d
  <1>10. SL(Hi(x), m) \in Int
    <2>1. CASE m > WB - 1
      BY <2>1 DEF SL
    <2>2. CASE ~(m > WB - 1)
      <3>1. Hi(x) * 2^m \in Int
        BY <1>2, <1>5, <1>6, <1>9
      <3>2. ToW(Hi(x) * 2^m) \in Int
        BY <3>1, Casts, CastWithin
      <3> QED BY <2>2, <3>2 DEF SL
    <2> QED BY <2>1, <2>2
  <1>11. SL(Lo(x), n) = ToW(Lo(x) * 2^n) /\ ToW(Lo(x) * 2^n) \in Words
    <2>1. ~(n > WB - 1)
      BY <1>5, <1>6
    <2>2. Lo(x) * 2^n \in Int
      BY <1>2, <1>5, <1>6, <1>9
    <2> QED BY <2>1, <2>2, Casts DEF SL
  <1> QED BY <1>4, <1>8, <1>10, <1>11, LanesWritten

\* evsrwu and evsrws.
LEMMA VectorRight ==
    ASSUME Next, Supplied, NEW op, <<op, ic.op>> \in SameWord, ic.op \in {"evsrwu", "evsrws"},
           gpr[ic.b] % (2 * WB) < WB - 1
    PROVE  \E v : Vectored(op, v)
  <1> DEFINE x == gpr[ic.a]
             y == gpr[ic.b]
             m == W(REG2, 0) % (2 * WB)
             n == y % (2 * WB)
             sgn == ic.op = "evsrws"
             w == Lo(x)
             q == Signed(w, WB) \div 2^n
             f == sign_exts_f(x, 0, WB - 1 - m, sgn)
             g == sign_exts_f(x, WB, DB - 1 - n, sgn)
  <1>1. x \in Doubles /\ x \in Int /\ REG1 = x
    BY Supplies
  <1>2. w \in Words /\ w \in Int
    BY <1>1, LaneWords
  <1>3. evshift_right /\ sgn \in BOOLEAN
    BY VectorActions DEF VectorOps
  <1>4. WB \in Nat /\ WB >= 4 /\ DB = 2 * WB
    BY Widths
  <1>5. m \in 0..(2 * WB - 1) /\ W(REG2, 1) % (2 * WB) = n /\ n \in 0..(2 * WB - 1) /\ n < WB - 1
    BY LaneAmounts
  <1>6. SpeDone(PACK_2W(Lo(f), Lo(g)), FALSE, spefscr)
    <2> DEFINE imm == ic.op \in {"evsrwis", "evsrwiu"}
               c(l) == IF imm THEN ic.i ELSE W(REG2, l) % (2 * WB)
               v(l) == Lo(sign_exts_f(IF imm THEN REG0 ELSE REG1, l * WB, l * WB + WB - 1 - c(l),
                                      ic.op \in {"evsrwis", "evsrws"}))
    <2>1. SpeDone(PACK_2W(v(0), v(1)), FALSE, spefscr)
      BY <1>3, Zenon DEF evshift_right, Pack
    <2>2. imm = FALSE /\ (ic.op \in {"evsrwis", "evsrws"}) = sgn
      OBVIOUS
    <2>3. c(0) = m /\ c(1) = n
      BY <1>5, <2>2
    <2>4. 0 * WB = 0 /\ 1 * WB = WB
      BY <1>4
    <2>5. v(0) = Lo(sign_exts_f(REG1, 0, 0 + WB - 1 - m, sgn))
      <3> HIDE DEF imm, c, m, sgn
      <3> QED BY <2>2, <2>3, <2>4
    <2>6. v(1) = Lo(sign_exts_f(REG1, WB, WB + WB - 1 - n, sgn))
      <3> HIDE DEF imm, c, n, sgn
      <3> QED BY <2>2, <2>3, <2>4
    <2> HIDE DEF c, v, m, n, sgn
    <2>7. 0 + WB - 1 - m = WB - 1 - m /\ WB + WB - 1 - n = DB - 1 - n
      BY <1>4, <1>5
    <2> QED BY <1>1, <2>1, <2>5, <2>6, <2>7
  <1>7. Lo(f) \in Int
    <2> DEFINE j == WB - 1 - m
    <2>1. 0 \in {0, WB} /\ j \in Int /\ j <= 0 + WB - 1
      BY <1>4, <1>5
    <2>2. f \in Int
      <3> HIDE DEF j, sgn
      <3> QED BY <1>1, <1>3, <2>1, FieldIsInteger DEF j
    <2> HIDE DEF f
    <2> QED BY <2>2, Casts, CastWithin
  <1>8. n \in 0..(WB - 2) /\ n \in 0..DB
    BY <1>4, <1>5
  <1>9. g = IF sgn THEN ToD(q) ELSE w \div 2^n
    <2> HIDE DEF n, sgn
    <2> QED BY <1>1, <1>3, <1>8, ExtendedField
  <1>10. w \div 2^n \in Words /\ q \in Int
    <2> HIDE DEF n, w
    <2> QED BY <1>2, <1>8, QuotientOfWord
  <1>11. Lo(g) = Common(op, x, y) /\ Lo(g) \in Words
    <2>1. CASE ic.op = "evsrws"
      <3>1. op = "sraw"
        BY <2>1 DEF SameWord
      <3>2. Common(op, x, y) = ToW(q)
        BY <3>1 DEF Common
      <3>3. g = ToD(q)
        BY <1>9, <2>1
      <3> HIDE DEF q, g
      <3> QED BY <1>10, <3>2, <3>3, Casts
    <2>2. CASE ic.op = "evsrwu"
      <3>1. op = "srw"
        BY <2>2 DEF SameWord
      <3>2. Common(op, x, y) = w \div 2^n
        BY <3>1 DEF Common
      <3>3. g = w \div 2^n
        BY <1>9, <2>2
      <3> DEFINE p == w \div 2^n
      <3> HIDE DEF p, g
      <3>4. p \in Words
        BY <1>10 DEF p
      <3>5. Lo(p) = p
        BY <3>4, CastWithin
      <3> QED BY <3>2, <3>3, <3>4, <3>5 DEF p
    <2> QED BY <2>1, <2>2
  <1> HIDE DEF f, g
  <1> QED BY <1>6, <1>7, <1>11, LanesWritten

\* The low word of a product of words is that of the product of the signed words.
LEMMA LowProduct ==
    ASSUME NEW x \in Int, NEW y \in Int
    PROVE  ToW(Lo(x) * Lo(y)) = ToW(Signed(x, WB) * Signed(y, WB))
  <1> DEFINE g == Signed(x, WB)
             h == Signed(y, WB)
             u == Lo(x)
             v == Lo(y)
  <1>1. g \in Int /\ h \in Int /\ ToW(g) = ToW(x) /\ ToW(h) = ToW(y)
    BY SignedWord
  <1>2. u \in Words /\ v \in Words /\ ToW(x) = u /\ ToW(y) = v
    BY Casts
  <1>3. u \in Int /\ v \in Int /\ ToW(u) = u /\ ToW(v) = v
    <2> HIDE DEF u, v
    <2> QED BY <1>2, WordsAreDoubles
  <1> HIDE DEF g, h, u, v
  <1>4. ToW(u) = ToW(g) /\ ToW(v) = ToW(h)
    BY <1>1, <1>2, <1>3
  <1>5. ToW(u * v) = ToW(g * h)
    <2>1. u \in Int
      BY <1>3
    <2>2. v \in Int
      BY <1>3
    <2>3. g \in Int
      BY <1>1
    <2>4. h \in Int
      BY <1>1
    <2> QED BY <1>4, <2>1, <2>2, <2>3, <2>4, CastOfProduct
  <1> QED BY <1>5 DEF g, h, u, v

\* evmws: the low word of the product of the words is that of mullw.
LEMMA VectorProduct ==
    ASSUME Next, Supplied, NEW op, <<op, ic.op>> \in SameWord, ic.op = "evmws",
           ic.t \in {"smi", "umi"}, ic.s = ""
    PROVE  \E v : Vectored(op, v)
  <1> DEFINE x == gpr[ic.a]
             y == gpr[ic.b]
             g == Signed(x, WB)
             h == Signed(y, WB)
             u == Lo(x)
             v == Lo(y)
  <1>1. x \in Doubles /\ x \in Int /\ REG1 = x /\ y \in Doubles /\ y \in Int /\ REG2 = y
    BY Supplies
  <1>2. W(x, 1) = u /\ u \in Int /\ W(y, 1) = v /\ v \in Int /\ ToW(x) = u /\ ToW(y) = v
        /\ ToW(u) = u /\ ToW(v) = v
    BY <1>1, LaneWords, Casts, WordsAreDoubles
  <1>3. op = "mullw" /\ evmws
    BY VectorActions DEF SameWord, VectorOps
  <1>4. Common(op, x, y) = ToW(g * h)
    BY <1>3 DEF Common
  <1>5. g \in Int /\ h \in Int /\ ToW(g) = u /\ ToW(h) = v /\ g * h \in Int /\ u * v \in Int
    <2>1. g \in Int /\ h \in Int /\ ToW(g) = u /\ ToW(h) = v
      BY <1>1, <1>2, SignedWord
    <2> HIDE DEF g, h, u, v
    <2> QED BY <1>2, <2>1, Times
  <1>6. \A p : ModuloDouble(ic.s, p) = p
    BY DEF ModuloDouble, Accumulates
  <1>7. CASE ic.t = "smi"
    <2> DEFINE p == x86_imulf(u, v)
               P == ToD(g * h)
    <2>1. SpeDone(ModuloDouble(ic.s, p), ic.s # "", spefscr)
      BY <1>1, <1>3, <1>7 DEF evmws
    <2>2. Signed(u, WB) = g /\ Signed(v, WB) = h
      BY <1>1, SignedLow
    <2>3. p = (Hi(P) * 2^WB) | ExtsW(Lo(P))
      <3>1. x86_imul(u, v) = P
        BY <2>2 DEF x86_imul
      <3> HIDE DEF P, u, v
      <3> QED BY <3>1 DEF x86_imulf
    <2>4. P \in Doubles /\ Lo(P) = ToW(g * h)
      <3> HIDE DEF g, h
      <3> QED BY <1>5, Casts
    <2> HIDE DEF P, p
    <2>5. Hi(P) \in Int /\ Lo(P) \in Words
      BY <2>4, LaneWords
    <2>6. Lo(p) = Lo(P)
      BY <2>3, <2>5, OrExtended
    <2> QED BY <1>4, <1>6, <2>1, <2>4, <2>6, ValueWritten
  <1>8. CASE ic.t = "umi"
    <2>1. SpeDone(ModuloDouble(ic.s, u * v), ic.s # "", spefscr)
      BY <1>1, <1>2, <1>3, <1>8 DEF evmws, WordProduct
    <2>2. SpeDone(u * v, ic.s # "", spefscr)
      BY <1>6, <2>1
    <2>3. ToW(u * v) = ToW(g * h)
      BY <1>1, LowProduct
    <2>4. Lo(u * v) = ToW(u * v)
      <3> HIDE DEF u, v
      <3> QED BY <1>5, Casts
    <2> QED BY <1>4, <2>2, <2>3, <2>4, ValueWritten
  <1> QED BY <1>7, <1>8

\* Every vector instruction of the pairs writes the common word.
LEMMA VectorStep ==
    ASSUME Next, Supplied, NEW op, <<op, ic.op>> \in SameWord,
           ic.op = "evmws" => ic.t \in {"smi", "umi"} /\ ic.s = "",
           op \in WordShifts => gpr[ic.b] % (2 * WB) < WB - 1
    PROVE  \E v : Vectored(op, v)
  <1>1. ic.op \in VectorOps
    BY DEF SameWord, VectorOps
  <1>2. CASE ic.op \in {"evaddw", "evsubfw", "evneg", "evextsb", "evextsh"}
    BY <1>2, VectorSum
  <1>3. CASE ic.op \in {"evand", "evandc", "evor", "evorc", "evnand", "evnor", "evxor"}
    BY <1>3, VectorLogic
  <1>4. CASE ic.op = "evcntlzw"
    BY <1>4, VectorCount
  <1>5. CASE ic.op = "evslw"
    <2>1. op \in WordShifts
      BY <1>5 DEF SameWord, WordShifts
    <2> QED BY <1>5, <2>1, VectorLeft
  <1>6. CASE ic.op \in {"evsrwu", "evsrws"}
    <2>1. op \in WordShifts
      BY <1>6 DEF SameWord, WordShifts
    <2> QED BY <1>6, <2>1, VectorRight
  <1>7. CASE ic.op = "evmws"
    BY <1>7, VectorProduct
  <1> QED BY <1>1, <1>2, <1>3, <1>4, <1>5, <1>6, <1>7 DEF VectorOps

\* Whatever the amount of a shift, a vector instruction writes its register only.
LEMMA VectorWrites ==
    ASSUME Next, ic.op \in VectorOps
    PROVE  \E v : gpr' = [gpr EXCEPT ![ic.d] = v]
  <1>1. \A v, t, f : SpeDone(v, t, f) => \E u : gpr' = [gpr EXCEPT ![ic.d] = u]
    BY DEF SpeDone, Complete
  <1>2. CASE ic.op \in {"evaddw", "evand", "evandc"}
    BY <1>1, <1>2, VectorActions DEF evaddw_and
  <1>3. CASE ic.op = "evsubfw"
    <2>1. SpeDone(Pack(LAMBDA l : ToW(W(REG2, l) - W(REG1, l))), FALSE, spefscr)
      BY <1>3, VectorActions DEF evsubf
    <2> QED BY <1>1, <2>1
  <1>4. CASE ic.op \in {"evneg", "evor", "evorc", "evnand", "evnor"}
    BY <1>1, <1>4, VectorActions DEF evlogic
  <1>5. CASE ic.op = "evxor"
    BY <1>1, <1>5, VectorActions DEF evxor
  <1>6. CASE ic.op = "evcntlzw"
    BY <1>1, <1>6, VectorActions DEF evcntl
  <1>7. CASE ic.op \in {"evextsb", "evextsh"}
    BY <1>1, <1>7, VectorActions DEF eveqv_ext
  <1>8. CASE ic.op = "evslw"
    BY <1>1, <1>8, VectorActions DEF evshift_left
  <1>9. CASE ic.op \in {"evsrwu", "evsrws"}
    BY <1>1, <1>9, VectorActions DEF evshift_right
  <1>10. CASE ic.op = "evmws"
    BY <1>1, <1>10, VectorActions DEF evmws
  <1> QED BY <1>2, <1>3, <1>4, <1>5, <1>6, <1>7, <1>8, <1>9, <1>10 DEF VectorOps

\* After the first instruction of a pair its register has the common word, and its
\* operands are as they were.
FirstDone ==
    (k = 2 /\ Len(prog) = 2 /\ prog[1].op \in ScalarOps
       /\ prog[1].d \notin {prog[1].a, prog[1].b}) =>
    /\ DOMAIN gpr = Regs
    /\ (prog[1].op \in WordShifts => gpr[prog[1].b] % (2 * WB) < WB - 1) =>
          /\ gpr \in [Regs -> Doubles]
          /\ Lo(gpr[prog[1].d]) = Common(prog[1].op, gpr[prog[1].a], gpr[prog[1].b])

\* The instruction k of a program has registers for operands.
LEMMA OperandsAreRegisters ==
    ASSUME Begun, gpr \in [Regs -> Doubles], k <= Len(prog)
    PROVE  Supplied
  <1>1. k \in 1..Len(prog)
    BY DEF Begun
  <1>2. {prog[k].d, prog[k].a, prog[k].b} \subseteq Regs
    BY <1>1 DEF Begun
  <1> QED BY <1>2 DEF Supplied, ic

\* The first instruction of a pair.
LEMMA FirstOfPair ==
    ASSUME Begun, Next, k = 1
    PROVE  FirstDone'
  <1> DEFINE i == prog[1]
             H == /\ Len(prog) = 2 /\ i.op \in ScalarOps /\ k' = 2
                  /\ i.d \notin {i.a, i.b}
             E == i.op \in WordShifts => gpr'[i.b] % (2 * WB) < WB - 1
  <1>1. prog' = prog /\ ic = i
    BY Steps DEF Goes, Stops, ic
  <1>2. CASE ~H
    BY <1>1, <1>2 DEF FirstDone
  <1>3. CASE H
    <2>1. gpr \in [Regs -> Doubles] /\ k <= Len(prog)
      <3>1. Len(prog) = 2
        BY <1>3
      <3> HIDE DEF H
      <3> QED BY <3>1 DEF Begun
    <2>2. i.op \in ScalarOps /\ i.d # i.a /\ i.d # i.b
      BY <1>3
    <2> HIDE DEF H
    <2>3. Supplied
      BY <2>1, OperandsAreRegisters
    <2>4. i.d \in Regs /\ i.a \in Regs /\ i.b \in Regs
      BY <1>1, <2>3 DEF Supplied
    <2>5. \E v : gpr' = [gpr EXCEPT ![i.d] = v]
      <3>1. CASE i.op \in WordShifts
        <4>1. ShiftLogical \/ ShiftAlgebraic
          BY <1>1, <2>2, <3>1, ScalarActions DEF WordShifts
        <4> QED BY <1>1, <4>1, Writes DEF ShiftLogical, ShiftAlgebraic
      <3>2. CASE i.op \notin WordShifts
        BY <1>1, <2>2, <2>3, <3>2, ScalarStep DEF Promised
      <3> QED BY <3>1, <3>2
    <2>6. DOMAIN gpr' = Regs /\ gpr'[i.a] = gpr[i.a] /\ gpr'[i.b] = gpr[i.b]
      <3>1. PICK v : gpr' = [gpr EXCEPT ![i.d] = v]
        BY <2>5
      <3> HIDE DEF i
      <3> QED BY <2>1, <2>2, <2>4, <3>1
    <2>7. ASSUME E
          PROVE  gpr' \in [Regs -> Doubles] /\ Lo(gpr'[i.d]) = Common(i.op, gpr'[i.a], gpr'[i.b])
      <3>1. ic.op \in WordShifts => gpr[ic.b] % (2 * WB) < WB - 1
        BY <1>1, <2>6, <2>7
      <3>2. PICK v : Promised(ic.op, v)
        BY <1>1, <2>2, <2>3, <3>1, ScalarStep
      <3>3. gpr' = [gpr EXCEPT ![i.d] = v] /\ v \in Doubles
            /\ Lo(v) = Common(i.op, gpr[i.a], gpr[i.b])
        BY <1>1, <3>2 DEF Promised
      <3>4. gpr' \in [Regs -> Doubles] /\ gpr'[i.d] = v
        BY <2>1, <2>4, <3>3, Written
      <3> QED BY <2>6, <3>3, <3>4
    <2>8. DOMAIN gpr' = Regs
          /\ (E => gpr' \in [Regs -> Doubles]
                    /\ Lo(gpr'[i.d]) = Common(i.op, gpr'[i.a], gpr'[i.b]))
      BY <2>6, <2>7
    <2>9. FirstDone' = ((k' = 2 /\ Len(prog) = 2 /\ i.op \in ScalarOps /\ i.d \notin {i.a, i.b}) =>
                          /\ DOMAIN gpr' = Regs
                          /\ E => /\ gpr' \in [Regs -> Doubles]
                                  /\ Lo(gpr'[i.d]) = Common(i.op, gpr'[i.a], gpr'[i.b]))
      BY <1>1 DEF FirstDone, Common, Zeros
    <2> HIDE DEF E, i
    <2> QED BY <2>8, <2>9
  <1> QED BY <1>2, <1>3

\* A pair that starts in the common word ends in it.
LEMMA SecondOfPair ==
    ASSUME Begun, FirstDone, Next, k = 2
    PROVE  VectorAgreesWithScalar'
  <1> DEFINE i == prog[1]
             j == prog[2]
             H == /\ Len(prog) = 2 /\ <<i.op, j.op>> \in SameWord
                  /\ i.a = j.a /\ i.b = j.b
                  /\ {i.d, j.d} \cap {i.a, i.b} = {}
                  /\ (j.op = "evmws" => j.t \in {"smi", "umi"} /\ j.s = "")
                  /\ (i.op \in WordShifts => gpr'[i.b] % (2 * WB) < WB - 1)
  <1>1. prog' = prog /\ ic = j
    BY Steps DEF Goes, Stops, ic
  <1>2. CASE ~H
    BY <1>1, <1>2 DEF VectorAgreesWithScalar, WordShifts
  <1>3. CASE H
    <2>1. Len(prog) = 2 /\ <<i.op, j.op>> \in SameWord /\ i.a = j.a /\ i.b = j.b
      BY <1>3
    <2>2. i.d # i.a /\ i.d # i.b /\ j.d # j.a /\ j.d # j.b /\ i.d \notin {i.a, i.b}
      BY <1>3
    <2>3. j.op = "evmws" => j.t \in {"smi", "umi"} /\ j.s = ""
      BY <1>3
    <2>4. i.op \in WordShifts => gpr'[i.b] % (2 * WB) < WB - 1
      BY <1>3
    <2> HIDE DEF H
    <2>5. i.op \in ScalarOps /\ j.op \in VectorOps
      BY <2>1 DEF SameWord, ScalarOps, VectorOps
    <2>6. j.d \in Regs /\ i.d \in Regs /\ i.a \in Regs /\ i.b \in Regs
      <3>1. 1 \in 1..Len(prog) /\ 2 \in 1..Len(prog)
        BY <2>1
      <3> QED BY <3>1 DEF Begun
    <2>7. DOMAIN gpr = Regs
      BY <2>1, <2>2, <2>5 DEF FirstDone
    <2>8. PICK v : gpr' = [gpr EXCEPT ![j.d] = v]
      BY <1>1, <2>5, VectorWrites
    <2>9. gpr'[i.b] = gpr[i.b]
      <3>1. i.b # j.d
        BY <2>1, <2>2
      <3> HIDE DEF i, j
      <3> QED BY <2>6, <2>7, <2>8, <3>1
    <2>10. gpr \in [Regs -> Doubles] /\ Lo(gpr[i.d]) = Common(i.op, gpr[i.a], gpr[i.b])
      BY <2>1, <2>2, <2>4, <2>5, <2>9 DEF FirstDone
    <2>11. Supplied
      <3>1. k <= Len(prog)
        BY <2>1
      <3> QED BY <2>10, <3>1, OperandsAreRegisters
    <2>12. PICK u : Vectored(i.op, u)
      <3>1. <<i.op, ic.op>> \in SameWord
        BY <1>1, <2>1
      <3>2. ic.op = "evmws" => ic.t \in {"smi", "umi"} /\ ic.s = ""
        BY <1>1, <2>3
      <3>3. i.op \in WordShifts => gpr[ic.b] % (2 * WB) < WB - 1
        BY <1>1, <2>1, <2>4, <2>9
      <3> QED BY <2>11, <3>1, <3>2, <3>3, VectorStep
    <2>13. gpr' = [gpr EXCEPT ![j.d] = u] /\ Lo(u) = Common(i.op, gpr[i.a], gpr[i.b])
      BY <1>1, <2>1, <2>12 DEF Vectored
    <2>14. gpr'[j.d] = u
      BY <2>6, <2>7, <2>13
    <2>15. Lo(gpr'[i.d]) = Lo(u)
      <3>1. CASE i.d = j.d
        BY <2>13, <2>14, <3>1
      <3>2. CASE i.d # j.d
        <4>1. gpr'[i.d] = gpr[i.d]
          <5> HIDE DEF i, j
          <5> QED BY <2>6, <2>7, <2>13, <3>2
        <4> QED BY <2>10, <2>13, <4>1
      <3> QED BY <3>1, <3>2
    <2>16. VectorAgreesWithScalar' \/ Lo(gpr'[i.d]) # Lo(gpr'[j.d])
      BY <1>1, Zenon DEF VectorAgreesWithScalar
    <2> QED BY <2>14, <2>15, <2>16
  <1> QED BY <1>2, <1>3

\* The low lane of a vector instruction is what the scalar instruction of the same
\* meaning computes, for words of any width that is a power of two (Spe.tla,
\* VectorAgreesWithScalar; cpu_ppc_instr.cc computes the two in unrelated ways).
THEOREM LanesAgree == Spec => []VectorAgreesWithScalar
  <1> DEFINE Inv == Begun /\ FirstDone /\ VectorAgreesWithScalar
  <1>1. Init => Inv
    <2> SUFFICES ASSUME Init PROVE FirstDone /\ VectorAgreesWithScalar
      BY BegunInvariance
    <2>1. k = 1
      BY DEF Init
    <2> QED BY <2>1 DEF FirstDone, VectorAgreesWithScalar
  <1>2. Inv /\ [Next]_vars => Inv'
    <2> SUFFICES ASSUME Inv, [Next]_vars PROVE FirstDone' /\ VectorAgreesWithScalar'
      BY BegunInvariance
    <2>1. CASE Goes /\ Next
      <3>1. FirstDone'
        <4>1. CASE k = 1
          BY <2>1, <4>1, FirstOfPair
        <4>2. CASE k # 1
          <5>1. k' # 2
            BY <2>1, <4>2 DEF Goes, Begun
          <5> QED BY <5>1 DEF FirstDone
        <4> QED BY <4>1, <4>2
      <3>2. VectorAgreesWithScalar'
        <4>1. CASE k = 2
          BY <2>1, <4>1, SecondOfPair
        <4>2. CASE k # 2
          <5>1. k' # 3
            BY <2>1, <4>2 DEF Goes, Begun
          <5> QED BY <5>1 DEF VectorAgreesWithScalar
        <4> QED BY <4>1, <4>2
      <3> QED BY <3>1, <3>2
    <2>2. CASE Stops \/ UNCHANGED vars
      <3>1. UNCHANGED <<gpr, prog, k>>
        BY <2>2 DEF Stops, vars
      <3>2. FirstDone'
        BY <3>1, Zenon DEF FirstDone
      <3>3. VectorAgreesWithScalar'
        BY <3>1, Zenon DEF VectorAgreesWithScalar
      <3> QED BY <3>2, <3>3
    <2> QED BY <2>1, <2>2, Steps
  <1>3. Inv => VectorAgreesWithScalar
    OBVIOUS
  <1> QED BY <1>1, <1>2, <1>3, PTL DEF Spec

---------------------------------------------------------------------------
(* The types of the registers *)

\* The part of TypeOK an instruction writes.
Typed ==
    /\ gpr \in [Regs -> Doubles] /\ acc \in Doubles
    /\ xer \in Xers /\ cr \in [CrFields -> 0..15]
    /\ spefscr \in Spefscrs /\ mxcsr \in BOOLEAN

Ready == Typed /\ IsInstruction(ic)

\* The registers an instruction names, ACC and their lanes.
LEMMA Fields ==
    ASSUME Ready
    PROVE  /\ Supplied /\ ic.i \in Int
           /\ \A x \in {REG0, REG1, REG2, acc} :
                 /\ x \in Doubles /\ x \in Int
                 /\ \A l \in Lanes : W(x, l) \in Words /\ W(x, l) \in Int
                 /\ Hi(x) \in Words /\ Lo(x) \in Words /\ Hi(x) \in Int /\ Lo(x) \in Int
  <1>1. Supplied /\ ic.i \in Int
    BY DEF Ready, Typed, IsInstruction, Supplied
  <1>2. REG0 \in Doubles /\ REG1 \in Doubles /\ REG2 \in Doubles /\ acc \in Doubles
    BY <1>1 DEF Supplied, REG0, REG1, REG2, Ready, Typed
  <1>3. ASSUME NEW x \in Doubles
        PROVE  /\ x \in Int /\ \A l \in Lanes : W(x, l) \in Words /\ W(x, l) \in Int
               /\ Hi(x) \in Words /\ Lo(x) \in Words /\ Hi(x) \in Int /\ Lo(x) \in Int
    <2>1. x \in Int
      BY CastWithin
    <2>2. \A l \in Lanes : l = 0 \/ l = 1
      BY DEF Lanes
    <2>3. W(x, 0) \in Words /\ W(x, 0) \in Int /\ W(x, 1) \in Words /\ W(x, 1) \in Int
      BY LaneWords
    <2> QED BY <2>1, <2>2, <2>3, LaneWords
  <1> QED BY <1>1, <1>2, <1>3

\* An instruction that completes leaves the registers typed if what it writes is.
LEMMA Completes ==
    ASSUME Typed, NEW g \in [Regs -> Doubles], NEW x \in Xers, NEW c \in [CrFields -> 0..15],
           Complete(g, x, c), UNCHANGED speVars
    PROVE  Typed'
  BY DEF Typed, Complete, speVars

\* A register, and a field of the condition register, with a value in range.
LEMMA Ranges ==
    ASSUME Ready
    PROVE  /\ \A v \in Doubles : [gpr EXCEPT ![ic.d] = v] \in [Regs -> Doubles]
           /\ \A f, v : v \in 0..15 => [cr EXCEPT ![f] = v] \in [CrFields -> 0..15]
  BY DEF Ready, Typed

\* The nibbles of CR0.
LEMMA Nibbles ==
    /\ \A v, x : update_cr0(v, x) \in 0..15
    /\ \A f, x : update_cr0_host(f, x) \in 0..15
  <1>1. ASSUME NEW v, NEW x PROVE update_cr0(v, x) \in 0..15
    BY DEF update_cr0, Bit
  <1>2. ASSUME NEW f, NEW x PROVE update_cr0_host(f, x) \in 0..15
    BY DEF update_cr0_host, Bit
  <1> QED BY <1>1, <1>2

\* The updates of XER keep its fields truth values.
LEMMA XerUpdates ==
    ASSUME NEW x \in Xers
    PROVE  /\ \A f : f.of \in BOOLEAN => update_xer_so_ov_host(x, f) \in Xers
           /\ \A v \in BOOLEAN : update_xer_ca(x, v) \in Xers
           /\ \A n \in Int : update_xer_so_ov(x, n) \in Xers
  <1>1. ASSUME NEW f, f.of \in BOOLEAN PROVE update_xer_so_ov_host(x, f) \in Xers
    BY <1>1, Zenon DEF update_xer_so_ov_host, Xers
  <1>2. ASSUME NEW v \in BOOLEAN PROVE update_xer_ca(x, v) \in Xers
    <2>1. (x.ca \/ v) \in BOOLEAN /\ FALSE \in BOOLEAN
      OBVIOUS
    <2> QED BY <2>1, Zenon DEF update_xer_ca, Xers
  <1>3. ASSUME NEW n \in Int PROVE update_xer_so_ov(x, n) \in Xers
    <2>1. (n >= 2) \in BOOLEAN /\ (n % 2 = 1) \in BOOLEAN
      OBVIOUS
    <2> QED BY <2>1, Zenon DEF update_xer_so_ov, Xers
  <1> QED BY <1>1, <1>2, <1>3

\* The ends of the integer instructions.
LEMMA HostEnds ==
    ASSUME Ready, NEW v \in Doubles, NEW f, f.cf \in BOOLEAN, f.of \in BOOLEAN, NEW c,
           CompleteHost(v, f, c), UNCHANGED speVars
    PROVE  Typed'
  <1> DEFINE x1 == IF c THEN update_xer_ca(xer, f.cf) ELSE xer
             x2 == IF ic.oe THEN update_xer_so_ov_host(x1, f) ELSE x1
             n  == IF ic.rc THEN [cr EXCEPT ![0] = update_cr0_host(f, x2)] ELSE cr
  <1>1. x1 \in Xers
    BY XerUpdates DEF Ready, Typed
  <1> HIDE DEF x1
  <1>2. x2 \in Xers
    BY <1>1, XerUpdates
  <1> HIDE DEF x2
  <1>3. n \in [CrFields -> 0..15]
    <2>1. update_cr0_host(f, x2) \in 0..15
      BY Nibbles
    <2> QED BY <2>1, Ranges DEF Ready, Typed
  <1>4. Complete([gpr EXCEPT ![ic.d] = v], x2, n)
    BY Zenon DEF CompleteHost, x1, x2
  <1> HIDE DEF n
  <1>5. [gpr EXCEPT ![ic.d] = v] \in [Regs -> Doubles]
    BY Ranges
  <1> QED BY <1>2, <1>3, <1>4, <1>5, Completes DEF Ready

\* The same for those that take CR0 from the result.
LEMMA ValueEnds ==
    ASSUME Ready, NEW v \in Doubles, NEW x \in Xers, CompleteValue(v, x), UNCHANGED speVars
    PROVE  Typed'
  <1> DEFINE n == IF ic.rc THEN [cr EXCEPT ![0] = update_cr0(v, x)] ELSE cr
  <1>1. n \in [CrFields -> 0..15]
    <2>1. update_cr0(v, x) \in 0..15
      BY Nibbles
    <2> QED BY <2>1, Ranges DEF Ready, Typed
  <1>2. Complete([gpr EXCEPT ![ic.d] = v], x, n)
    BY Zenon DEF CompleteValue
  <1> HIDE DEF n
  <1>3. [gpr EXCEPT ![ic.d] = v] \in [Regs -> Doubles]
    BY Ranges
  <1> QED BY <1>1, <1>2, <1>3, Completes DEF Ready

\* What UPDATE_SPEFSCR_OV leaves of SPEFSCR.
LEMMA OverflowTypes ==
    ASSUME Typed, NEW h \in BOOLEAN, NEW l \in BOOLEAN
    PROVE  UPDATE_SPEFSCR_OV(h, l) \in Spefscrs /\ spefscr \in Spefscrs
  <1>1. spefscr \in Spefscrs
    BY DEF Typed
  <1>2. (spefscr.sovh \/ h) \in BOOLEAN /\ (spefscr.sov \/ l) \in BOOLEAN
    OBVIOUS
  <1> QED BY <1>1, <1>2, Zenon DEF UPDATE_SPEFSCR_OV, Spefscrs

\* The end of a vector instruction.
LEMMA VectorEnds ==
    ASSUME Ready, NEW v \in Doubles, NEW t, NEW f \in Spefscrs, SpeDone(v, t, f)
    PROVE  Typed'
  <1>1. [gpr EXCEPT ![ic.d] = v] \in [Regs -> Doubles]
    BY Ranges
  <1> QED BY <1>1 DEF SpeDone, Complete, Ready, Typed

\* The end of one of two lanes.
LEMMA LaneEnds ==
    ASSUME Ready, NEW u \in Words, NEW v \in Words, NEW t, NEW f \in Spefscrs,
           SpeDone(PACK_2W(u, v), t, f)
    PROVE  Typed'
  BY Packed, VectorEnds

\* The end of one of two saturated lanes.
LEMMA SaturatedTypes ==
    ASSUME Ready, NEW r, \A l \in Lanes : r[l].v \in Words /\ r[l].ov \in BOOLEAN,
           SpeSaturated(r)
    PROVE  Typed'
  <1>1. /\ r[0].v \in Words /\ r[1].v \in Words /\ r[0].ov \in BOOLEAN /\ r[1].ov \in BOOLEAN
    BY DEF Lanes
  <1>2. UPDATE_SPEFSCR_OV(r[0].ov, r[1].ov) \in Spefscrs
    BY <1>1, OverflowTypes DEF Ready
  <1> QED BY <1>1, <1>2, LaneEnds DEF SpeSaturated

---------------------------------------------------------------------------
(* The types of what the host's instructions and the operators on bits return *)

\* Zero is a word and a register.
LEMMA ZeroTypes == 0 \in Words /\ 0 \in Doubles
  <1>1. 0 \in Words
    BY Sizes, InSizes
  <1> QED BY <1>1, WordsAreDoubles

\* Bit operations, casts and masks.
LEMMA BitwiseIntegers ==
    ASSUME NEW x \in Int, NEW y \in Int
    PROVE  /\ (x & y) \in Int /\ (x | y) \in Int /\ (x ^^ y) \in Int /\ Compl(x) \in Int
           /\ ToH(x) \in Int /\ ToH(x) * 2^HB \in Int
  <1>1. (x & y) \in Int
    BY AndRange
  <1>2. (x | y) \in Int /\ (x ^^ y) \in Int
    <2> DEFINE a == x & y
    <2>1. (x | y) = x + y - a /\ (x ^^ y) = x + y - 2 * a
      BY DEF |, ^^
    <2>2. a \in Int
      BY <1>1
    <2> HIDE DEF a
    <2> QED BY <2>1, <2>2
  <1>3. Compl(x) \in Int
    BY Complements
  <1>4. 2^HB \in Nat /\ 2^HB > 0
    BY Sizes DEF HalfSize
  <1> DEFINE h == 2^HB
             r == ToH(x)
  <1>5. r \in Int
    <2>1. h \in Nat /\ h > 0
      BY <1>4
    <2> HIDE DEF h
    <2>2. x % h \in Int
      BY <2>1, Division
    <2> QED BY <2>2 DEF ToH, h
  <1>6. r * h \in Int
    <2>1. h \in Int
      BY <1>4
    <2> HIDE DEF r, h
    <2> QED BY <1>5, <2>1, Times
  <1> QED BY <1>1, <1>2, <1>3, <1>5, <1>6

\* Sign extension of a halfword and of a byte.
LEMMA Extensions ==
    ASSUME NEW x \in Int
    PROVE  /\ ExtsW(x) \in Doubles /\ ExtsH(x) \in Doubles /\ ExtsB(x) \in Doubles
           /\ ExtsH(x) \in Int /\ ExtsH(x) * 2^HB \in Int
           /\ Signed(x, HB) \in Int /\ Signed(x, BB) \in Int /\ Signed(x, WB) \in Int
  <1>1. HB \in 1..WB /\ BB \in 1..WB /\ WB \in 1..WB
    BY Widths
  <1>2. Signed(x, HB) \in Int /\ Signed(x, BB) \in Int /\ Signed(x, WB) \in Int
    BY <1>1, SignedFieldLow
  <1>3. ExtsW(x) \in Doubles /\ ExtsH(x) \in Doubles /\ ExtsB(x) \in Doubles
    BY <1>2, Casts DEF ExtsW, ExtsH, ExtsB
  <1>4. ExtsH(x) \in Int
    BY <1>3, CastWithin
  <1> DEFINE h == 2^HB
             e == ExtsH(x)
  <1>5. h \in Int
    BY Sizes DEF HalfSize
  <1>6. e * h \in Int
    <2>1. e \in Int
      BY <1>4
    <2> HIDE DEF h, e
    <2> QED BY <1>5, <2>1, Times
  <1> QED BY <1>2, <1>3, <1>4, <1>6

\* The host's addition, negation and logical instructions return words and two flags.
LEMMA HostTypes ==
    ASSUME NEW x \in Int, NEW y \in Int
    PROVE  \A f \in {x86_add(x, y), x86_neg(x), x86_logic(x)} :
              f.r \in Words /\ f.r \in Int /\ f.cf \in BOOLEAN /\ f.of \in BOOLEAN
  <1>1. ASSUME NEW r, NEW c \in BOOLEAN, NEW o \in BOOLEAN
        PROVE  Flags(r, c, o).r = r /\ Flags(r, c, o).cf \in BOOLEAN /\ Flags(r, c, o).of \in BOOLEAN
    BY DEF Flags
  <1>2. /\ ToW(x + y) \in Words /\ ToW(-x) \in Words /\ ToW(x) \in Words
        /\ ToW(x + y) \in Int /\ ToW(-x) \in Int /\ ToW(x) \in Int
    <2>1. x + y \in Int /\ -x \in Int
      OBVIOUS
    <2>2. ToW(x + y) \in Words /\ ToW(-x) \in Words /\ ToW(x) \in Words
      BY <2>1, Casts
    <2> QED BY <2>2, CastWithin
  <1>3. \A p, q : (p = q) \in BOOLEAN /\ (p # q) \in BOOLEAN
    OBVIOUS
  <1>4. (ToW(x) + ToW(y) >= 2^WB) \in BOOLEAN
    OBVIOUS
  <1>5. ASSUME NEW f, f = x86_add(x, y)
        PROVE  f.r \in Words /\ f.r \in Int /\ f.cf \in BOOLEAN /\ f.of \in BOOLEAN
    <2> DEFINE r == ToW(x + y)
               c == ToW(x) + ToW(y) >= 2^WB
               o == Signed(x, WB) + Signed(y, WB) # Signed(x + y, WB)
    <2>1. f = Flags(r, c, o)
      BY <1>5, Zenon DEF x86_add
    <2>2. r \in Words /\ r \in Int /\ c \in BOOLEAN /\ o \in BOOLEAN
      BY <1>2, <1>3, <1>4
    <2> HIDE DEF r, c, o
    <2> QED BY <1>1, <2>1, <2>2
  <1>6. ASSUME NEW f, f = x86_neg(x)
        PROVE  f.r \in Words /\ f.r \in Int /\ f.cf \in BOOLEAN /\ f.of \in BOOLEAN
    BY <1>1, <1>2, <1>3, <1>6 DEF x86_neg
  <1>7. ASSUME NEW f, f = x86_logic(x)
        PROVE  f.r \in Words /\ f.r \in Int /\ f.cf \in BOOLEAN /\ f.of \in BOOLEAN
    BY <1>1, <1>2, <1>7 DEF x86_logic
  <1> QED BY <1>5, <1>6, <1>7

\* The product of two words is a register.
LEMMA WordsProduct ==
    ASSUME NEW a \in Words, NEW b \in Words
    PROVE  a * b \in Doubles /\ a * b \in Int /\ Hi(a * b) \in Words /\ Lo(a * b) \in Words
  <1> DEFINE w == WordSize
  <1>1. w \in Nat /\ w > 0 /\ DoubleSize = w * w /\ a \in 0..(w - 1) /\ b \in 0..(w - 1)
    BY Sizes, InSizes
  <1>2. Doubles = 0..(DoubleSize - 1)
    BY InSizes
  <1> HIDE DEF w
  <1>3. a * b \in Int /\ a * b >= 0 /\ a * b <= w * w - 1
    <2>1. a * b \in Int /\ a * b >= 0
      BY <1>1
    <2>2. a * b <= (w - 1) * b
      BY <1>1
    <2>3. (w - 1) * b <= (w - 1) * (w - 1)
      BY <1>1
    <2>4. (w - 1) * (w - 1) <= w * w - 1
      BY <1>1
    <2> QED BY <1>1, <2>1, <2>2, <2>3, <2>4
  <1>4. a * b \in Doubles
    <2> DEFINE p == a * b
               d == w * w
    <2>1. p \in Int /\ p >= 0 /\ p <= d - 1 /\ d \in Int
      BY <1>1, <1>3
    <2> HIDE DEF p, d
    <2>2. p \in 0..(d - 1)
      BY <2>1
    <2> QED BY <1>1, <1>2, <2>2 DEF p, d
  <1> QED BY <1>3, <1>4, Unpacked

\* The host's signed product.
LEMMA SignedProductTypes ==
    ASSUME NEW x \in Int, NEW y \in Int
    PROVE  /\ x86_imul(x, y) \in Doubles
           /\ Hi(x86_imul(x, y)) \in Words /\ Lo(x86_imul(x, y)) \in Words
           /\ x86_imulf(x, y) \in Doubles
  <1> DEFINE a == Signed(x, WB)
             b == Signed(y, WB)
             p == x86_imul(x, y)
  <1>1. a \in Int /\ b \in Int
    BY SignedWord
  <1>2. p \in Doubles
    <2> HIDE DEF a, b
    <2>1. a * b \in Int
      BY <1>1, Times
    <2>2. ToD(a * b) \in Doubles
      BY <2>1, Casts
    <2> QED BY <2>2 DEF x86_imul, a, b
  <1>3. Hi(p) \in Words /\ Lo(p) \in Words
    BY <1>2, Unpacked
  <1>4. PACK_2W(Hi(p), 0) \in Doubles
    <2>1. 0 \in Words
      BY Sizes, InSizes
    <2> QED BY <1>3, <2>1, Packed
  <1>5. Hi(p) * 2^WB \in Doubles
    <2>1. PACK_2W(Hi(p), 0) = Hi(p) * WordSize + 0 /\ WordSize = 2^WB /\ WordSize \in Int
      BY InSizes, Sizes DEF WordSize
    <2>2. Hi(p) \in Int
      BY <1>3, CastWithin
    <2> DEFINE h == Hi(p)
               w == 2^WB
    <2>3. h * w \in Int
      <3>1. h \in Int /\ w \in Int
        BY <2>1, <2>2
      <3> HIDE DEF h, w
      <3> QED BY <3>1, Times
    <2> QED BY <1>4, <2>1, <2>3
  <1>6. ExtsW(Lo(p)) \in Doubles
    <2>1. Lo(p) \in Int
      BY <1>3, CastWithin
    <2> QED BY <2>1, Extended
  <1>7. x86_imulf(x, y) \in Doubles
    BY <1>5, <1>6, BitwiseTypes DEF x86_imulf
  <1> QED BY <1>2, <1>3, <1>7

\* Every mask of rotate instructions is a register.
LEMMA MaskTypes ==
    ASSUME NEW x \in 0..(DB - 1), NEW y \in 0..(DB - 1)
    PROVE  MASK(x, y) \in Doubles
  <1>1. ASSUME NEW b \in 0..DB PROVE gen_bmask(b) \in Doubles
    <2>1. DB - b \in 0..DB /\ DB \in 0..DB /\ DB - b \in 0..DB
      BY Widths
    <2> DEFINE g == 2^(DB - b)
    <2>2. g \in Nat /\ g > 0
      BY <2>1, Powers
    <2>3. g <= 2^DB
      BY <2>1, PowerOrder
    <2>4. gen_bmask(b) = g - 1 /\ DoubleSize = 2^DB /\ DoubleSize \in Nat
      BY Sizes DEF gen_bmask, DoubleSize
    <2> HIDE DEF g
    <2> QED BY <2>2, <2>3, <2>4, InSizes
  <1>2. x \in 0..DB /\ x + 1 \in 0..DB /\ y \in 0..DB /\ y + 1 \in 0..DB
    BY Widths
  <1>3. /\ gen_bmask(x) \in Doubles /\ gen_bmask(y + 1) \in Doubles
        /\ gen_bmask(x + 1) \in Doubles /\ gen_bmask(y) \in Doubles
    BY <1>1, <1>2
  <1>4. /\ (gen_bmask(x) ^^ gen_bmask(y + 1)) \in Doubles
        /\ Compl(gen_bmask(x + 1) ^^ gen_bmask(y)) \in Doubles
    BY <1>3, BitwiseTypes
  <1> QED BY <1>4 DEF MASK

---------------------------------------------------------------------------
(* The types of the integer instructions *)

\* The second operand of an addition and of a subtraction is an integer.
LEMMA SecondOperands ==
    ASSUME Ready
    PROVE  /\ ic.op \in AddOps => Addend(ic.op) \in Int
           /\ ic.op \in SubtractOps => Minuend(ic.op) \in Int
  <1>1. REG2 \in Int /\ ic.i \in Int
    BY Fields
  <1>2. CA \in Int
    BY DEF CA, Bit
  <1>3. ToW(REG2 + CA) \in Int /\ ToW(CA + REG2) \in Int
    <2>1. REG2 + CA \in Int /\ CA + REG2 \in Int
      BY <1>1, <1>2
    <2> QED BY <2>1, Casts, CastWithin
  <1>4. ExtsH(ic.i) \in Int /\ ExtsH(ic.i) * 2^HB \in Int
    BY <1>1, Extensions
  <1>5. REG2 + 1 \in Int /\ ExtsH(ic.i) + 1 \in Int /\ CA - 1 \in Int
    BY <1>1, <1>2, <1>4
  <1>6. ASSUME ic.op \in AddOps PROVE Addend(ic.op) \in Int
    <2>1. CASE ic.op \in {"add", "addc"}
      BY <1>1, <2>1 DEF Addend
    <2>2. CASE ic.op = "adde"
      BY <1>3, <2>2 DEF Addend
    <2>3. CASE ic.op \in {"addi", "addic"}
      BY <1>4, <2>3 DEF Addend
    <2>4. CASE ic.op = "addis"
      BY <1>4, <2>4 DEF Addend
    <2>5. CASE ic.op = "addme"
      BY <1>5, <2>5 DEF Addend
    <2>6. CASE ic.op = "addze"
      BY <1>2, <2>6 DEF Addend
    <2> QED BY <1>6, <2>1, <2>2, <2>3, <2>4, <2>5, <2>6 DEF AddOps
  <1>7. ASSUME ic.op \in SubtractOps PROVE Minuend(ic.op) \in Int
    <2>1. CASE ic.op \in {"subf", "subfc"}
      BY <1>5, <2>1 DEF Minuend
    <2>2. CASE ic.op = "subfe"
      BY <1>3, <2>2 DEF Minuend
    <2>3. CASE ic.op = "subfic"
      BY <1>5, <2>3 DEF Minuend
    <2>4. CASE ic.op = "subfme"
      BY <1>5, <2>4 DEF Minuend
    <2>5. CASE ic.op = "subfze"
      BY <1>2, <2>5 DEF Minuend
    <2> QED BY <1>7, <2>1, <2>2, <2>3, <2>4, <2>5 DEF SubtractOps
  <1> QED BY <1>6, <1>7

\* Additions and subtractions.
LEMMA SumsTyped ==
    ASSUME Ready, Add \/ Subtract, UNCHANGED speVars
    PROVE  Typed'
  <1>1. ASSUME NEW x \in Int, NEW y \in Int, NEW c,
               CompleteHost(ExtsW(x86_add(x, y).r), x86_add(x, y), c)
        PROVE  Typed'
    <2> DEFINE f == x86_add(x, y)
    <2>1. f.r \in Int /\ f.cf \in BOOLEAN /\ f.of \in BOOLEAN
      BY HostTypes
    <2>2. CompleteHost(ExtsW(f.r), f, c)
      BY <1>1
    <2> HIDE DEF f
    <2>3. ExtsW(f.r) \in Doubles
      BY <2>1, Extended
    <2> QED BY <2>1, <2>2, <2>3, HostEnds
  <1>2. REG1 \in Int /\ 0 \in Int
    BY Fields
  <1>3. CASE Add
    <2> DEFINE a == IF ic.op \in {"addi", "addis"} /\ ic.a = 0 THEN 0 ELSE REG1
    <2>1. a \in Int
      BY <1>2
    <2>2. Addend(ic.op) \in Int
      BY <1>3, SecondOperands DEF Add, Fetch
    <2>3. \E c : CompleteHost(ExtsW(x86_add(a, Addend(ic.op)).r), x86_add(a, Addend(ic.op)), c)
      BY <1>3, Zenon DEF Add
    <2> HIDE DEF a
    <2> QED BY <1>1, <2>1, <2>2, <2>3
  <1>4. CASE Subtract
    <2> DEFINE a == Compl(REG1)
    <2>1. a \in Int
      BY <1>2, BitwiseIntegers
    <2>2. Minuend(ic.op) \in Int
      BY <1>4, SecondOperands DEF Subtract, Fetch
    <2>3. \E c : CompleteHost(ExtsW(x86_add(a, Minuend(ic.op)).r), x86_add(a, Minuend(ic.op)), c)
      BY <1>4, Zenon DEF Subtract
    <2> HIDE DEF a
    <2> QED BY <1>1, <2>1, <2>2, <2>3
  <1> QED BY <1>3, <1>4

\* A quotient toward zero is an integer.
LEMMA QuotientTypes ==
    ASSUME NEW a \in Int, NEW b \in Int, b # 0
    PROVE  Quotient(a, b) \in Int
  <1> DEFINE x == IF a < 0 THEN -a ELSE a
             y == IF b < 0 THEN -b ELSE b
             q == x \div y
  <1>1. x \in Int /\ y \in Nat /\ y > 0
    OBVIOUS
  <1>2. q \in Int
    <2> HIDE DEF x, y
    <2> QED BY <1>1, Division
  <1>3. Quotient(a, b) = IF (a < 0) # (b < 0) THEN -q ELSE q
    BY DEF Quotient
  <1> HIDE DEF q
  <1> QED BY <1>2, <1>3

\* A division that completes writes a register; one that does not ends the process.
LEMMA DivideTyped ==
    ASSUME Ready, Divide, UNCHANGED speVars
    PROVE  Typed'
  <1>1. PICK edx \in DivHigh :
          LET signed == ic.op = "divw"
              dividend == edx * 2^WB + Lo(REG1)
              q == IF signed THEN Quotient(Signed(dividend, DB), Signed(REG2, WB))
                             ELSE dividend \div Lo(REG2)
              fits == IF signed THEN q \in (-MinW)..MaxW ELSE q < 2^WB
              value == IF REG2 = 0 THEN REG0 ELSE IF signed THEN ToD(q) ELSE q
              regs == [gpr EXCEPT ![ic.d] = value]
              over == \/ regs[ic.b] = 0
                      \/ signed /\ Lo(regs[ic.a]) = MinW /\ regs[ic.b] = 2^WB - 1
              x0 == IF ic.oe THEN update_xer_so_ov(xer, 0) ELSE xer
          IN  IF REG2 # 0 /\ (Lo(REG2) = 0 \/ ~fits)
              THEN down' = TRUE /\ UNCHANGED <<gpr, xer, cr, prog, k>>
              ELSE Complete(regs, IF ic.oe /\ over THEN update_xer_so_ov(xer, 1) ELSE x0,
                            IF ic.rc THEN [cr EXCEPT ![0] = update_cr0(value, x0)] ELSE cr)
    BY DEF Divide
  <1> DEFINE signed == ic.op = "divw"
             dividend == edx * 2^WB + Lo(REG1)
             q == IF signed THEN Quotient(Signed(dividend, DB), Signed(REG2, WB))
                            ELSE dividend \div Lo(REG2)
             fits == IF signed THEN q \in (-MinW)..MaxW ELSE q < 2^WB
             value == IF REG2 = 0 THEN REG0 ELSE IF signed THEN ToD(q) ELSE q
             regs == [gpr EXCEPT ![ic.d] = value]
             over == \/ regs[ic.b] = 0
                     \/ signed /\ Lo(regs[ic.a]) = MinW /\ regs[ic.b] = 2^WB - 1
             x0 == IF ic.oe THEN update_xer_so_ov(xer, 0) ELSE xer
             x1 == IF ic.oe /\ over THEN update_xer_so_ov(xer, 1) ELSE x0
             n  == IF ic.rc THEN [cr EXCEPT ![0] = update_cr0(value, x0)] ELSE cr
  <1>2. \/ UNCHANGED <<gpr, xer, cr>>
        \/ ~(REG2 # 0 /\ (Lo(REG2) = 0 \/ ~fits)) /\ Complete(regs, x1, n)
    BY <1>1, Zenon
  <1>3. CASE UNCHANGED <<gpr, xer, cr>>
    BY <1>3 DEF Ready, Typed, speVars
  <1>4. CASE ~(REG2 # 0 /\ (Lo(REG2) = 0 \/ ~fits)) /\ Complete(regs, x1, n)
    <2>1. /\ REG0 \in Doubles /\ REG2 \in Int /\ Lo(REG1) \in Words /\ Lo(REG1) \in Int
          /\ Lo(REG2) \in Words /\ Lo(REG2) \in Int
      BY Fields
    <2>2. dividend \in Int /\ dividend >= 0
      <3>1. edx \in Words
        BY HostAssumption
      <3>2. PACK_2W(edx, Lo(REG1)) \in Doubles
        BY <2>1, <3>1, Packed
      <3>3. dividend \in Doubles
        BY <3>2 DEF PACK_2W
      <3> HIDE DEF dividend
      <3> QED BY <3>3, Sizes, InSizes
    <2> HIDE DEF dividend
    <2>3. ASSUME REG2 # 0 PROVE value \in Doubles
      <3>1. Lo(REG2) # 0 /\ fits
        BY <1>4, <2>3
      <3>2. CASE signed
        <4>1. Signed(REG2, WB) # 0 /\ Signed(REG2, WB) \in Int
          <5>1. Signed(REG2, WB) \in Int /\ ToW(Signed(REG2, WB)) = ToW(REG2)
            BY <2>1, SignedWord
          <5>2. ToW(REG2) # 0
            BY <2>1, <3>1, Casts
          <5>3. ToW(0) = 0
            BY Sizes, InSizes, CastWithin
          <5> QED BY <5>1, <5>2, <5>3
        <4>2. Signed(dividend, DB) \in Int
          <5>1. DB \in 1..DB
            BY Widths
          <5>2. Signed(dividend, DB) \in (-2^(DB - 1))..(2^(DB - 1) - 1)
            BY <2>2, <5>1, SignedField
          <5> QED BY <5>2
        <4>3. q \in Int
          BY <3>2, <4>1, <4>2, QuotientTypes
        <4> HIDE DEF q
        <4>4. ToD(q) \in Doubles
          BY <4>3, Casts
        <4> QED BY <2>3, <3>2, <4>4
      <3>3. CASE ~signed
        <4>1. q = dividend \div Lo(REG2) /\ q < 2^WB
          BY <3>1, <3>3
        <4> DEFINE m == Lo(REG2)
        <4>2. m \in Nat /\ m > 0
          BY <2>1, <3>1, Sizes, InSizes
        <4> HIDE DEF m
        <4>3. dividend \div m \in Int /\ dividend \div m >= 0
          BY <2>2, <4>2
        <4> HIDE DEF q
        <4>4. q \in Words
          BY <4>1, <4>3, Sizes, InSizes DEF m, WordSize
        <4>5. q \in Doubles
          BY <4>4, WordsAreDoubles
        <4> QED BY <2>3, <3>3, <4>5
      <3> QED BY <3>2, <3>3
    <2>4. value \in Doubles
      <3>1. CASE REG2 = 0
        BY <2>1, <3>1
      <3> QED BY <2>3, <3>1
    <2> HIDE DEF q, fits, value
    <2>5. regs \in [Regs -> Doubles]
      BY <2>4, Ranges
    <2> HIDE DEF regs, over
    <2>6. x0 \in Xers /\ x1 \in Xers
      BY XerUpdates DEF Ready, Typed
    <2> HIDE DEF x0, x1
    <2>7. n \in [CrFields -> 0..15]
      <3>1. update_cr0(value, x0) \in 0..15
        BY Nibbles
      <3> QED BY <3>1, Ranges DEF Ready, Typed
    <2> HIDE DEF n
    <2> QED BY <1>4, <2>5, <2>6, <2>7, Completes DEF Ready
  <1> QED BY <1>2, <1>3, <1>4

\* Multiplications.
LEMMA MultiplyTyped ==
    ASSUME Ready, Multiply, UNCHANGED speVars
    PROVE  Typed'
  <1>1. REG1 \in Int /\ REG2 \in Int /\ ExtsH(ic.i) \in Int
    BY Fields, Extensions
  <1>2. ASSUME NEW w \in Words PROVE w \in Doubles /\ ExtsW(w) \in Doubles
    BY WordsAreDoubles, Extended
  <1>3. Product(ic.op) \in Doubles
    <2>1. /\ Hi(x86_imul(REG1, REG2)) \in Words /\ Lo(x86_imul(REG1, REG2)) \in Words
          /\ Lo(x86_imul(REG1, ExtsH(ic.i))) \in Words
      BY <1>1, SignedProductTypes
    <2>2. Hi(x86_mul(REG1, REG2)) \in Words
      <3>1. ToW(REG1) \in Words /\ ToW(REG2) \in Words
        BY <1>1, Casts
      <3> QED BY <3>1, WordsProduct DEF x86_mul
    <2>3. CASE ic.op = "mulhw"
      BY <1>2, <2>1, <2>3 DEF Product
    <2>4. CASE ic.op = "mulhwu"
      BY <1>2, <2>2, <2>4 DEF Product
    <2>5. CASE ic.op = "mullw"
      BY <1>2, <2>1, <2>5 DEF Product
    <2>6. CASE ic.op = "mulli"
      BY <1>2, <2>1, <2>6 DEF Product
    <2> QED BY <2>3, <2>4, <2>5, <2>6 DEF Multiply, Fetch
  <1> DEFINE over == x86_imul(REG1, REG2) # ExtsW(Lo(x86_imul(REG1, REG2)))
             x == IF ic.oe THEN update_xer_so_ov_host(xer, [of |-> over]) ELSE xer
  <1>4. over \in BOOLEAN
    OBVIOUS
  <1>5. CompleteValue(Product(ic.op), x)
    BY Zenon DEF Multiply
  <1> HIDE DEF over
  <1>6. x \in Xers
    <2>1. [of |-> over].of \in BOOLEAN
      BY <1>4
    <2>2. xer \in Xers
      BY DEF Ready, Typed
    <2>3. update_xer_so_ov_host(xer, [of |-> over]) \in Xers
      BY <2>1, <2>2, XerUpdates
    <2> QED BY <2>2, <2>3
  <1> HIDE DEF x
  <1> QED BY <1>3, <1>5, <1>6, ValueEnds

\* Logical instructions of words.
LEMMA LogicalTyped ==
    ASSUME Ready, Logical, UNCHANGED speVars
    PROVE  Typed'
  <1> DEFINE x == Lo(REG1)
             y == Lo(REG2)
             z == Lo(Compl(REG2))
             h == ToH(ic.i)
             t == ToH(ic.i) * 2^HB
  <1>1. x \in Int /\ y \in Int /\ REG1 \in Int /\ REG2 \in Int /\ ic.i \in Int
    BY Fields
  <1>2. z \in Int /\ h \in Int /\ t \in Int
    <2>1. Compl(REG2) \in Int /\ h \in Int /\ t \in Int
      BY <1>1, BitwiseIntegers
    <2> QED BY <2>1, Casts, CastWithin
  <1>3. \E v \in Int : HostLogic(ic.op) = x86_logic(v) \/ HostLogic(ic.op) = x86_neg(v)
    <2>1. ic.op \in LogicalOps
      BY DEF Logical, Fetch
    <2>2. /\ ic.op = "and" => HostLogic(ic.op) = x86_logic(x & y)
          /\ ic.op = "andc" => HostLogic(ic.op) = x86_logic(x & z)
          /\ ic.op = "andi." => HostLogic(ic.op) = x86_logic(x & h)
          /\ ic.op = "andis." => HostLogic(ic.op) = x86_logic(x & t)
          /\ ic.op = "neg" => HostLogic(ic.op) = x86_neg(REG1)
          /\ ic.op = "or" => HostLogic(ic.op) = x86_logic(x | y)
          /\ ic.op = "orc" => HostLogic(ic.op) = x86_logic(x | z)
          /\ ic.op = "ori" => HostLogic(ic.op) = x86_logic(x | h)
          /\ ic.op = "oris" => HostLogic(ic.op) = x86_logic(x | t)
          /\ ic.op = "xor" => HostLogic(ic.op) = x86_logic(x ^^ y)
          /\ ic.op = "xori" => HostLogic(ic.op) = x86_logic(x ^^ h)
          /\ ic.op = "xoris" => HostLogic(ic.op) = x86_logic(x ^^ t)
      BY DEF HostLogic
    <2> HIDE DEF x, y, z, h, t
    <2>3. /\ \A v \in {y, z, h, t} : (x & v) \in Int
          /\ \A v \in {y, z, h, t} : (x | v) \in Int
          /\ \A v \in {y, z, h, t} : (x ^^ v) \in Int
      BY <1>1, <1>2, BitwiseIntegers
    <2> QED BY <1>1, <2>1, <2>2, <2>3 DEF LogicalOps
  <1> HIDE DEF x, y, z, h, t
  <1> DEFINE f == HostLogic(ic.op)
  <1>4. f.r \in Words /\ f.cf \in BOOLEAN /\ f.of \in BOOLEAN
    BY <1>3, HostTypes
  <1>5. \E c : CompleteHost(f.r, f, c)
    BY Zenon DEF Logical
  <1> HIDE DEF f
  <1>6. f.r \in Doubles
    BY <1>4, WordsAreDoubles
  <1> QED BY <1>4, <1>5, <1>6, HostEnds

\* Logical instructions of whole registers.
LEMMA LogicalWideTyped ==
    ASSUME Ready, LogicalWide, UNCHANGED speVars
    PROVE  Typed'
  <1>1. REG1 \in Doubles /\ REG2 \in Doubles /\ REG1 \in Int
    BY Fields
  <1>2. WideLogic(ic.op) \in Doubles
    <2>1. CASE ic.op = "extsb"
      BY <1>1, <2>1, Extensions DEF WideLogic
    <2>2. CASE ic.op = "extsh"
      BY <1>1, <2>2, Extensions DEF WideLogic
    <2>3. CASE ic.op = "cntlzw"
      <3>1. WideLogic(ic.op) = Zeros(REG1)
        BY <2>3, Zenon DEF WideLogic, Zeros
      <3>2. Zeros(REG1) \in Words
        BY <1>1, LeadingZeros
      <3> QED BY <3>1, <3>2, WordsAreDoubles
    <2>4. CASE ic.op = "eqv"
      BY <1>1, <2>4, BitwiseTypes DEF WideLogic
    <2>5. CASE ic.op = "nand"
      BY <1>1, <2>5, BitwiseTypes DEF WideLogic
    <2>6. CASE ic.op = "nor"
      BY <1>1, <2>6, BitwiseTypes DEF WideLogic
    <2> QED BY <2>1, <2>2, <2>3, <2>4, <2>5, <2>6 DEF LogicalWide, Fetch
  <1>3. CompleteValue(WideLogic(ic.op), xer)
    BY DEF LogicalWide
  <1> QED BY <1>2, <1>3, ValueEnds DEF Ready, Typed

\* A bit of the condition register, and the field with one of them changed.
LEMMA ConditionBits ==
    ASSUME cr \in [CrFields -> 0..15], NEW n \in 0..(WB - 1)
    PROVE  /\ get_crf(n) \in {0, 1} /\ get_crf(n) \in Int
           /\ \A v \in {0, 1} : update_crf(n, v) \in [CrFields -> 0..15]
  <1> DEFINE f == n \div 4
             j == n % 4
             p == 2^(3 - j)
             c == cr[f]
             b == (c \div p) % 2
  <1>1. f \in CrFields /\ j \in 0..3
    <2>1. WB = 4 * BB /\ BB \in Nat /\ n \in Int
      BY Widths
    <2>2. WB \div 4 = BB
      BY <2>1
    <2> QED BY <2>1, <2>2 DEF CrFields
  <1>2. c \in 0..15
    BY <1>1
  <1> HIDE DEF f
  <1>3. /\ j = 3 => p = 1
        /\ j = 2 => p = 2
        /\ j = 1 => p = 4
        /\ j = 0 => p = 8
    <2>1. DB >= 4 /\ 0 \in 0..(DB - 1) /\ 1 \in 0..(DB - 1) /\ 2 \in 0..(DB - 1)
      BY Widths
    <2>2. 2^0 = 1 /\ 2^(0 + 1) = 2 * 2^0 /\ 2^(1 + 1) = 2 * 2^1 /\ 2^(2 + 1) = 2 * 2^2
      BY <2>1, WidthAssumption
    <2>3. 2^0 = 1 /\ 2^1 = 2 /\ 2^2 = 4 /\ 2^3 = 8
      BY <2>2
    <2>4. /\ j = 3 => 3 - j = 0
          /\ j = 2 => 3 - j = 1
          /\ j = 1 => 3 - j = 2
          /\ j = 0 => 3 - j = 3
      BY <1>1
    <2> HIDE DEF j
    <2> QED BY <2>3, <2>4
  <1>4. get_crf(n) = b
    BY DEF get_crf, f
  <1>5. ASSUME NEW v \in {0, 1} PROVE update_crf(n, v) = [cr EXCEPT ![f] = c + (v - b) * p]
    BY <1>4 DEF update_crf, f
  <1> HIDE DEF c, j
  <1>6. b \in {0, 1} /\ \A v \in {0, 1} : c + (v - b) * p \in 0..15
    <2>1. p = 1 \/ p = 2 \/ p = 4 \/ p = 8
      BY <1>1, <1>3
    <2> HIDE DEF p
    <2>2. CASE p = 1
      BY <1>2, <2>2
    <2>3. CASE p = 2
      BY <1>2, <2>3
    <2>4. CASE p = 4
      BY <1>2, <2>4
    <2>5. CASE p = 8
      BY <1>2, <2>5
    <2> QED BY <2>1, <2>2, <2>3, <2>4, <2>5
  <1> HIDE DEF b, p
  <1> QED BY <1>4, <1>5, <1>6

\* Instructions on the condition register, and isel.
LEMMA ConditionTyped ==
    ASSUME Ready, Compare \/ CrLogic \/ mcrf \/ mtcrf \/ mcrxr \/ mfcr \/ isel, UNCHANGED speVars
    PROVE  Typed'
  <1>0. /\ gpr \in [Regs -> Doubles] /\ xer \in Xers /\ cr \in [CrFields -> 0..15] /\ Typed
        /\ ic.d \in Regs /\ ic.a \in Regs /\ ic.b \in Regs
    BY DEF Ready, Typed, IsInstruction
  <1>1. ASSUME NEW f, NEW v \in 0..15, Complete(gpr, xer, [cr EXCEPT ![f] = v])
        PROVE  Typed'
    <2>1. [cr EXCEPT ![f] = v] \in [CrFields -> 0..15]
      BY Ranges
    <2> QED BY <1>0, <1>1, <2>1, Completes
  <1>2. CASE Compare
    <2>1. \E a, b : LET c == IF a < b THEN 4 ELSE IF a > b THEN 2 ELSE 1
                    IN  Complete(gpr, xer, [cr EXCEPT ![ic.d] = c * 2 + Bit(xer.so)])
      BY <1>2, Zenon DEF Compare
    <2>2. PICK a, b : LET c == IF a < b THEN 4 ELSE IF a > b THEN 2 ELSE 1
                      IN  Complete(gpr, xer, [cr EXCEPT ![ic.d] = c * 2 + Bit(xer.so)])
      BY <2>1
    <2> DEFINE c == IF a < b THEN 4 ELSE IF a > b THEN 2 ELSE 1
    <2>3. c \in {1, 2, 4} /\ Bit(xer.so) \in {0, 1}
      BY DEF Bit
    <2>4. Complete(gpr, xer, [cr EXCEPT ![ic.d] = c * 2 + Bit(xer.so)])
      BY <2>2
    <2> HIDE DEF c
    <2>5. c * 2 + Bit(xer.so) \in 0..15
      BY <2>3
    <2> QED BY <1>1, <2>4, <2>5
  <1>3. CASE CrLogic
    <2> DEFINE a == get_crf(ic.a)
               b == get_crf(ic.b)
               value == CASE ic.op = "crand"  -> a * b
                          [] ic.op = "crandc" -> a * (1 - b)
                          [] ic.op = "cror"   -> Bit(a + b > 0)
                          [] ic.op = "crxor"  -> Bit(a # b)
                          [] OTHER            -> 1
    <2>1. ic.d \in 0..(WB - 1) /\ ic.a \in 0..(WB - 1) /\ ic.b \in 0..(WB - 1)
      BY <1>3 DEF CrLogic, Fetch, Ready, IsInstruction
    <2>2. a \in {0, 1} /\ b \in {0, 1}
      BY <1>0, <2>1, ConditionBits
    <2>3. Complete(gpr, xer, update_crf(ic.d, value))
      BY <1>3, Zenon DEF CrLogic
    <2> HIDE DEF a, b
    <2>4. value \in {0, 1}
      <3>1. a * b \in {0, 1} /\ a * (1 - b) \in {0, 1}
        BY <2>2
      <3>2. Bit(a + b > 0) \in {0, 1} /\ Bit(a # b) \in {0, 1}
        BY DEF Bit
      <3> QED BY <3>1, <3>2
    <2> HIDE DEF value
    <2>5. update_crf(ic.d, value) \in [CrFields -> 0..15]
      BY <1>0, <2>1, <2>4, ConditionBits
    <2> QED BY <1>0, <2>3, <2>5, Completes
  <1>4. CASE mcrf
    <2>1. ic.a \in CrFields
      BY <1>4 DEF mcrf, Fetch, Ready, IsInstruction
    <2>2. cr[ic.a] \in 0..15
      BY <1>0, <2>1
    <2> QED BY <1>1, <1>4, <2>2 DEF mcrf
  <1>5. CASE mtcrf
    <2> DEFINE c == [f \in CrFields |->
                        IF f \in ic.mb THEN (Lo(REG1) \div 2^(WB - 4 - 4 * f)) % 16 ELSE cr[f]]
    <2>1. c \in [CrFields -> 0..15]
      <3>1. ASSUME NEW f \in CrFields
            PROVE  (Lo(REG1) \div 2^(WB - 4 - 4 * f)) % 16 \in 0..15
        <4> DEFINE e == WB - 4 - 4 * f
                   p == 2^e
                   x == Lo(REG1)
        <4>1. e \in 0..DB
          <5>1. WB = 4 * BB /\ BB \in Nat /\ BB >= 1 /\ DB = 2 * WB
            BY Widths
          <5>2. WB \div 4 = BB
            BY <5>1
          <5>3. f \in 0..(BB - 1)
            BY <5>2 DEF CrFields
          <5> QED BY <5>1, <5>3
        <4>2. p \in Nat /\ p > 0
          BY <4>1, Powers
        <4>3. x \in Int
          BY Fields
        <4> HIDE DEF x, p
        <4>4. x \div p \in Int
          BY <4>2, <4>3, Division
        <4>5. (x \div p) % 16 \in 0..15
          BY <4>4
        <4> QED BY <4>5 DEF x, p
      <3> QED BY <1>0, <3>1
    <2>2. Complete(gpr, xer, c)
      BY <1>5 DEF mtcrf
    <2> HIDE DEF c
    <2> QED BY <1>0, <2>1, <2>2, Completes
  <1>6. CASE mcrxr
    <2> DEFINE x == [so |-> FALSE, ov |-> FALSE, ca |-> FALSE]
               v == 8 * Bit(xer.so) + 4 * Bit(xer.ov) + 2 * Bit(xer.ca)
    <2>1. x \in Xers
      BY Zenon DEF Xers
    <2>2. v \in 0..15
      <3>1. Bit(xer.so) \in {0, 1} /\ Bit(xer.ov) \in {0, 1} /\ Bit(xer.ca) \in {0, 1}
        BY DEF Bit
      <3> QED BY <3>1
    <2>3. Complete(gpr, x, [cr EXCEPT ![ic.d] = v])
      BY <1>6 DEF mcrxr
    <2> HIDE DEF x, v
    <2>4. [cr EXCEPT ![ic.d] = v] \in [CrFields -> 0..15]
      BY <2>2, Ranges
    <2> QED BY <1>0, <2>1, <2>3, <2>4, Completes
  <1>7. CASE mfcr
    BY <1>0, <1>7, Completes DEF mfcr
  <1>8. CASE isel
    <2> DEFINE a == IF ic.a = 0 THEN 0 ELSE REG1
               v == IF get_crf(ic.i) = 0 THEN a ELSE REG2
    <2>1. v \in Doubles
      BY Fields, ZeroTypes
    <2>2. Complete([gpr EXCEPT ![ic.d] = v], xer, cr)
      BY <1>8 DEF isel
    <2> HIDE DEF v
    <2>3. [gpr EXCEPT ![ic.d] = v] \in [Regs -> Doubles]
      BY <2>1, Ranges
    <2> QED BY <1>0, <2>2, <2>3, Completes
  <1> QED BY <1>2, <1>3, <1>4, <1>5, <1>6, <1>7, <1>8

\* Rotates under a mask.
LEMMA RotateTyped ==
    ASSUME Ready, Rotate, UNCHANGED speVars
    PROVE  Typed'
  <1> DEFINE n == IF ic.op = "rlwnm" THEN REG2 ELSE ic.i
             r == ROTL32(Lo(REG1), n)
             m == RotateMask
             kept == IF ic.op = "rlwimi" THEN REG0 & Compl(m) ELSE 0
  <1>1. REG0 \in Doubles /\ Lo(REG1) \in Words /\ n \in Int /\ REG0 \in Int
    BY Fields
  <1>2. r \in Words
    <2> HIDE DEF n
    <2> QED BY <1>1, Rotates
  <1>3. m \in Doubles
    <2>1. ic.mb \in 0..(WB - 1) /\ ic.me \in 0..(WB - 1)
      BY DEF Rotate, Fetch, Ready, IsInstruction
    <2>2. ic.mb + WB \in 0..(DB - 1) /\ ic.me + WB \in 0..(DB - 1)
      BY <2>1, Widths
    <2> QED BY <2>2, MaskTypes DEF RotateMask
  <1>4. CompleteValue((r & m) | kept, xer)
    BY Zenon DEF Rotate
  <1> HIDE DEF r, m
  <1>5. kept \in Doubles
    <2>1. Compl(m) \in Doubles
      BY <1>3, BitwiseTypes
    <2>2. (REG0 & Compl(m)) \in Doubles /\ 0 \in Doubles
      BY <1>1, <2>1, BitwiseTypes, ZeroTypes
    <2> QED BY <2>2
  <1> HIDE DEF kept
  <1>6. r \in Doubles
    BY <1>2, WordsAreDoubles
  <1>7. ((r & m) | kept) \in Doubles
    BY <1>3, <1>5, <1>6, BitwiseTypes
  <1> QED BY <1>4, <1>7, ValueEnds DEF Ready, Typed

\* The masks of the shifts.
LEMMA ShiftMasks ==
    ASSUME NEW n \in 0..(WB - 1)
    PROVE  /\ ShiftMask(n, MASK(WB, DB - 1 - n)) \in Doubles
           /\ ShiftMask(n, MASK(WB + n, DB - 1)) \in Doubles
  <1>1. WB \in 0..(DB - 1) /\ DB - 1 - n \in 0..(DB - 1) /\ WB + n \in 0..(DB - 1) /\ DB - 1 \in 0..(DB - 1)
    BY Widths
  <1>2. MASK(WB, DB - 1 - n) \in Doubles /\ MASK(WB + n, DB - 1) \in Doubles /\ 0 \in Doubles
    BY <1>1, MaskTypes, ZeroTypes
  <1> QED BY <1>2 DEF ShiftMask

\* Shifts.
LEMMA ShiftsTyped ==
    ASSUME Ready, ShiftLogical \/ ShiftAlgebraic, UNCHANGED speVars
    PROVE  Typed'
  <1> DEFINE n == ShiftAmount % WB
  <1>1. Lo(REG1) \in Words /\ ShiftAmount \in Int /\ xer \in Xers
    BY Fields DEF ShiftAmount, Ready, Typed
  <1>2. n \in 0..(WB - 1) /\ n \in Int /\ DB - n \in Int
    BY <1>1, Widths
  <1>3. ASSUME NEW j \in Int PROVE ROTL32(Lo(REG1), j) \in Doubles
    <2>1. ROTL32(Lo(REG1), j) \in Words
      BY <1>1, Rotates
    <2> QED BY <2>1, WordsAreDoubles
  <1>4. CASE ShiftLogical
    <2> DEFINE left == ic.op = "slw"
               j == IF left THEN n ELSE DB - n
               r == ROTL32(Lo(REG1), j)
               m == ShiftMask(n, IF left THEN MASK(WB, DB - 1 - n) ELSE MASK(WB + n, DB - 1))
    <2>1. r \in Doubles
      <3>1. j \in Int
        BY <1>2
      <3> HIDE DEF j
      <3> QED BY <1>3, <3>1
    <2>2. m \in Doubles
      <3> HIDE DEF n
      <3> QED BY <1>2, ShiftMasks
    <2>3. CompleteValue(r & m, xer)
      BY <1>4, Zenon DEF ShiftLogical
    <2> HIDE DEF r, m
    <2>4. (r & m) \in Doubles
      BY <2>1, <2>2, BitwiseTypes
    <2> QED BY <1>1, <2>3, <2>4, ValueEnds
  <1>5. CASE ShiftAlgebraic
    <2> DEFINE r == ROTL32(Lo(REG1), DB - n)
               m == ShiftMask(n, MASK(WB + n, DB - 1))
               s == Lo(REG1) >= MinW
               u == IF s THEN Compl(m) ELSE 0
               x == update_xer_ca(xer, s /\ Lo(r & Compl(m)) # 0)
    <2>1. r \in Doubles
      BY <1>2, <1>3
    <2>2. m \in Doubles
      <3> HIDE DEF n
      <3> QED BY <1>2, ShiftMasks
    <2>3. CompleteValue((r & m) | u, x)
      BY <1>5, Zenon DEF ShiftAlgebraic
    <2> HIDE DEF r, m
    <2>4. u \in Doubles
      BY <2>2, BitwiseTypes, ZeroTypes
    <2>5. x \in Xers
      <3>1. (s /\ Lo(r & Compl(m)) # 0) \in BOOLEAN
        OBVIOUS
      <3> QED BY <1>1, <3>1, XerUpdates
    <2> HIDE DEF u, x
    <2>6. ((r & m) | u) \in Doubles
      BY <2>1, <2>2, <2>4, BitwiseTypes
    <2> QED BY <2>3, <2>5, <2>6, ValueEnds
  <1> QED BY <1>4, <1>5

\* Every integer instruction keeps the types.
LEMMA IntegerTyped ==
    ASSUME Ready, IntegerNext, UNCHANGED speVars
    PROVE  Typed'
  BY SumsTyped, DivideTyped, MultiplyTyped, LogicalTyped, LogicalWideTyped, ConditionTyped,
     RotateTyped, ShiftsTyped DEF IntegerNext

---------------------------------------------------------------------------
(* The types of the sums and products of the vector instructions *)

\* A saturated lane: a word, and whether it overflowed.
IsLane(r) == r.v \in Words /\ r.ov \in BOOLEAN

\* The bounds saturation takes.
LEMMA BoundTypes ==
    /\ MinW \in Words /\ MaxW \in Words /\ 2^WB - 1 \in Words
    /\ MinW \in Int /\ MinW > 0
  <1> DEFINE m == MinW
             w == WordSize
  <1>1. m \in Nat /\ m > 1 /\ w = 2 * m /\ MaxW = m - 1 /\ 2^WB = w /\ w \in Nat
    BY Sizes DEF WordSize
  <1>2. Words = 0..(w - 1)
    BY InSizes
  <1> HIDE DEF m, w
  <1>3. m \in 0..(w - 1) /\ m - 1 \in 0..(w - 1) /\ w - 1 \in 0..(w - 1) /\ m \in Int /\ m > 0
    BY <1>1
  <1> QED BY <1>1, <1>2, <1>3 DEF m

\* Saturated sums are words, for any bound below that is one.
LEMMA SumTypes ==
    ASSUME Ready, NEW l \in Lanes, NEW s, NEW p \in Int
    PROVE  /\ \A n \in Words : IsLane(SignedSum(s, l, p, n))
           /\ IsLane(UnsignedSum(s, l, p))
           /\ ToW(W(acc, l) + p) \in Words /\ ToW(W(acc, l) - p) \in Words
           /\ p \in Words => Modulo(s, l, p) \in Words
  <1> DEFINE a == W(acc, l)
  <1>1. a \in Int
    BY Fields
  <1>2. ASSUME NEW x \in Int PROVE Lo(x) \in Words /\ Lo(ToD(x)) \in Words /\ ToW(x) \in Words
    <2>1. ToD(x) \in Int
      BY Casts, CastWithin
    <2> QED BY <2>1, Casts
  <1>3. ASSUME NEW v \in Words, NEW u \in Words, NEW t \in Words, NEW b, NEW c
        PROVE  SATURATE(b, c, u, t, v) \in Words
    BY DEF SATURATE
  <1>0. ASSUME NEW w \in Words, NEW b \in BOOLEAN PROVE IsLane([v |-> w, ov |-> b])
    BY DEF IsLane
  <1>4. ASSUME NEW n \in Words PROVE IsLane(SignedSum(s, l, p, n))
    <2> DEFINE x == IF Subtracts(s) THEN Signed(a, WB) - Signed(p, WB)
                                    ELSE Signed(a, WB) + Signed(p, WB)
               nb(bit) == B_N(ToD(x), bit) = 1
               ov == nb(WB - 1) # nb(WB)
               v == SATURATE(ov, nb(WB - 1), n, MaxW, Lo(ToD(x)))
    <2>1. SignedSum(s, l, p, n) = [v |-> v, ov |-> ov]
      BY Zenon DEF SignedSum
    <2>2. x \in Int
      <3>1. Signed(a, WB) \in Int /\ Signed(p, WB) \in Int
        BY <1>1, SignedWord
      <3> QED BY <3>1
    <2> HIDE DEF x
    <2>3. v \in Words
      BY <1>2, <1>3, <2>2, BoundTypes
    <2>4. ov \in BOOLEAN
      OBVIOUS
    <2> HIDE DEF v, ov
    <2> QED BY <1>0, <2>1, <2>3, <2>4
  <1>5. IsLane(UnsignedSum(s, l, p))
    <2> DEFINE x == IF Subtracts(s) THEN ToD(a - p) ELSE a + p
               ov == B_N(x, WB - 1) = 1
               sat == IF Subtracts(s) THEN 0 ELSE 2^WB - 1
               v == SATURATE(ov, FALSE, sat, sat, Lo(x))
    <2>1. UnsignedSum(s, l, p) = [v |-> v, ov |-> ov]
      BY Zenon DEF UnsignedSum
    <2>2. x \in Int
      <3>1. a - p \in Int /\ a + p \in Int
        BY <1>1
      <3>2. ToD(a - p) \in Int
        BY <3>1, Casts, CastWithin
      <3> QED BY <3>1, <3>2
    <2>3. sat \in Words
      BY ZeroTypes, BoundTypes
    <2> HIDE DEF x, sat
    <2>4. Lo(x) \in Words
      BY <1>2, <2>2
    <2>5. v \in Words
      BY <1>3, <2>3, <2>4
    <2>6. ov \in BOOLEAN
      OBVIOUS
    <2> HIDE DEF v, ov
    <2> QED BY <1>0, <2>1, <2>5, <2>6
  <1>6. ToW(a + p) \in Words /\ ToW(a - p) \in Words
    <2>1. a + p \in Int /\ a - p \in Int
      BY <1>1
    <2> QED BY <1>2, <2>1
  <1>7. p \in Words => Modulo(s, l, p) \in Words
    BY <1>6 DEF Modulo
  <1> QED BY <1>4, <1>5, <1>6, <1>7

\* The sum of a whole register.
LEMMA WholeSumTypes ==
    ASSUME Ready, NEW s, NEW p \in Doubles
    PROVE  ModuloDouble(s, p) \in Doubles
  <1>1. acc \in Int /\ p \in Int
    BY Fields, CastWithin
  <1>2. acc + p \in Int /\ acc - p \in Int
    BY <1>1
  <1>3. ToD(acc + p) \in Doubles /\ ToD(acc - p) \in Doubles
    BY <1>2, Casts
  <1> QED BY <1>3 DEF ModuloDouble

\* Products of halfwords.
LEMMA HalfProducts ==
    ASSUME Ready, NEW m \in 0..3, NEW n \in 0..3
    PROVE  LET a == Half(REG1, m)
               b == Half(REG2, n)
               c == Half(REG1, n)
           IN  /\ \A x \in {b, c} :
                     /\ a * x \in Words /\ SF(a, x) \in Words /\ Signed2(a, x) \in Words
                     /\ GSF(a, x) \in Doubles
                     /\ ExtsW(a * x) \in Doubles /\ ExtsW(Signed2(a, x)) \in Doubles
  <1>1. REG1 \in Int /\ REG2 \in Int
    BY Fields
  <1>2. /\ Half(REG1, m) \in 0..(HalfSize - 1) /\ Half(REG1, n) \in 0..(HalfSize - 1)
        /\ Half(REG2, n) \in 0..(HalfSize - 1)
    BY <1>1, Halves
  <1>3. ASSUME NEW a \in 0..(HalfSize - 1), NEW x \in 0..(HalfSize - 1)
        PROVE  /\ a * x \in Words /\ SF(a, x) \in Words /\ Signed2(a, x) \in Words
               /\ GSF(a, x) \in Doubles
               /\ ExtsW(a * x) \in Doubles /\ ExtsW(Signed2(a, x)) \in Doubles
    <2> DEFINE u == Signed(a, HB)
               v == Signed(x, HB)
    <2>1. a \in Int /\ x \in Int
      BY Sizes
    <2>2. u \in Int /\ v \in Int
      BY <2>1, Extensions
    <2>3. SF(a, x) = ToW(2 * u * v) /\ GSF(a, x) = ToD(2 * u * v) /\ Signed2(a, x) = ToW(u * v)
      BY DEF SF, GSF, Signed2
    <2> HIDE DEF u, v
    <2>4. u * v \in Int /\ 2 * u * v \in Int
      BY <2>2
    <2>5. ToW(u * v) \in Words /\ ToW(2 * u * v) \in Words /\ ToD(2 * u * v) \in Doubles
      BY <2>4, Casts
    <2>6. a * x \in Words
      BY HalvesProduct
    <2>7. \A w \in Words : ExtsW(w) \in Doubles
      BY CastWithin, Extended
    <2> QED BY <2>3, <2>5, <2>6, <2>7
  <1> QED BY <1>2, <1>3

\* The same by the names of the halfwords.
LEMMA EvenOddProducts ==
    ASSUME Ready, NEW l \in Lanes
    PROVE  /\ \A x \in {EvenB(l), EvenA(l)} :
                 /\ EvenA(l) * x \in Words /\ SF(EvenA(l), x) \in Words
                 /\ Signed2(EvenA(l), x) \in Words
                 /\ GSF(EvenA(l), x) \in Doubles
                 /\ ExtsW(Signed2(EvenA(l), x)) \in Doubles
           /\ \A x \in {OddB(l), OddA(l)} :
                 /\ OddA(l) * x \in Words /\ SF(OddA(l), x) \in Words
                 /\ GSF(OddA(l), x) \in Doubles
                 /\ ExtsW(OddA(l) * x) \in Doubles
  <1>1. 2 * l \in 0..3 /\ 2 * l + 1 \in 0..3
    BY DEF Lanes
  <1> QED BY <1>1, HalfProducts DEF EvenA, EvenB, OddA, OddB

---------------------------------------------------------------------------
(* The types of the vector instructions *)

\* The reverse of the bits of a number is an integer.
LEMMA ReverseTypes ==
    ASSUME NEW x \in Int
    PROVE  BITREVERSE(x) \in Int
  <1> DEFINE bit(n) == (x \div 2^n) % 2
             f == [n \in 0..(WB - 1) |-> bit(n)]
             A(g) == g = [n \in 0..WB |-> IF n = 0 THEN 0 ELSE g[n - 1] * 2 + bit(n - 1)]
             rev == CHOOSE g : A(g)
  <1>1. ASSUME NEW n \in 0..(WB - 1) PROVE bit(n) \in Int
    <2>1. n \in 0..DB
      BY Widths
    <2>2. 2^n \in Nat /\ 2^n > 0
      BY <2>1, Powers
    <2>3. x \div 2^n \in Int
      BY <2>2, Division
    <2> QED BY <2>3
  <1>2. \A n \in 0..(WB - 1) : f[n] \in Int
    BY <1>1
  <1>3. PICK g \in [0..WB -> Int] : g = [n \in 0..WB |-> IF n = 0 THEN 0 ELSE g[n - 1] * 2 + f[n - 1]]
    <2>1. WB \in Nat
      BY Widths
    <2> DEFINE base == 2
               Summed(m, b, h) ==
                   \E g \in [0..m -> Int] :
                      g = [n \in 0..m |-> IF n = 0 THEN 0 ELSE g[n - 1] * b + h[n - 1]]
    <2>2. base \in Int
      OBVIOUS
    <2>3. \A m \in Nat, b \in Int : \A h :
             (\A n \in 0..(m - 1) : h[n] \in Int) => Summed(m, b, h)
      BY Horner, Zenon
    <2> HIDE DEF f, base, Summed
    <2>4. Summed(WB, base, f)
      BY <1>2, <2>1, <2>2, <2>3, Zenon
    <2> QED BY <2>4, Zenon DEF base, Summed
  <1>4. A(g)
    <2>1. \A n \in 0..WB : n # 0 => n - 1 \in 0..(WB - 1)
      BY Widths
    <2>2. \A n \in 0..WB : n # 0 => f[n - 1] = bit(n - 1)
      BY <2>1
    <2> HIDE DEF f, bit
    <2> DEFINE r == [n \in 0..WB |-> IF n = 0 THEN 0 ELSE g[n - 1] * 2 + f[n - 1]]
               t == [n \in 0..WB |-> IF n = 0 THEN 0 ELSE g[n - 1] * 2 + bit(n - 1)]
    <2>3. r = t
      BY <2>2
    <2> QED BY <1>3, <2>3
  <1>5. A(rev)
    <2> HIDE DEF A
    <2> QED BY <1>4, Zenon
  <1>6. BITREVERSE(x) = rev[WB]
    BY Zenon DEF BITREVERSE
  <1> DEFINE S == {m \in 0..WB : rev[m] \notin Int}
  <1> HIDE DEF rev
  <1>7. WB \in Nat /\ rev[0] = 0 /\ \A n \in 1..WB : rev[n] = rev[n - 1] * 2 + bit(n - 1)
    <2>1. WB \in Nat /\ 0 \in 0..WB /\ \A n \in 1..WB : n \in 0..WB /\ n # 0
      BY Widths
    <2> DEFINE R(n) == IF n = 0 THEN 0 ELSE rev[n - 1] * 2 + bit(n - 1)
    <2>2. \A n \in 0..WB : rev[n] = R(n)
      BY <1>5
    <2> QED BY <2>1, <2>2
  <1> HIDE DEF bit
  <1>8. S = {}
    <2> SUFFICES ASSUME S # {} PROVE FALSE
      OBVIOUS
    <2>0. S \subseteq Nat
      BY <1>7
    <2>1. PICK m \in S : \A i \in S : m <= i
      <3> HIDE DEF S
      <3> QED BY <2>0, LeastNatural
    <2>2. m # 0
      BY <1>7, <2>1
    <2>3. m - 1 \in 0..WB /\ m - 1 \notin S /\ m \in 1..WB /\ m - 1 \in 0..(WB - 1)
      BY <1>7, <2>1, <2>2
    <2>4. rev[m - 1] \in Int /\ bit(m - 1) \in Int
      BY <1>1, <2>3
    <2> QED BY <1>7, <2>1, <2>3, <2>4
  <1>9. WB \in 0..WB
    BY <1>7
  <1> QED BY <1>6, <1>8, <1>9

\* The length of a run at the top of a lane is a word.
LEMMA RunLength ==
    ASSUME NEW f, NEW s
    PROVE  (CHOOSE n \in 0..WB : /\ \A j \in 0..(n - 1) : f[j] = s
                                 /\ n < WB => f[n] # s) \in Words
  <1> DEFINE Q(n) == /\ \A j \in 0..(n - 1) : f[j] = s
                     /\ n < WB => f[n] # s
             S == {n \in 0..WB : n < WB => f[n] # s}
  <1>1. WB \in Nat /\ WB \in S
    BY Widths
  <1>2. PICK n \in S : \A i \in S : n <= i
    <2>1. S \subseteq Nat /\ S # {}
      BY <1>1
    <2> HIDE DEF S
    <2> QED BY <2>1, LeastNatural
  <1>3. n \in 0..WB /\ Q(n)
    <2>1. n \in 0..WB /\ (n < WB => f[n] # s)
      BY <1>2
    <2>2. ASSUME NEW j \in 0..(n - 1) PROVE f[j] = s
      <3>1. j \in 0..WB /\ j < WB /\ ~(n <= j)
        BY <1>1, <2>1
      <3>2. j \notin S
        BY <1>2, <3>1
      <3> QED BY <3>1, <3>2
    <2> QED BY <2>1, <2>2
  <1>4. (CHOOSE m \in 0..WB : Q(m)) \in 0..WB
    <2> HIDE DEF Q
    <2> QED BY <1>3, Zenon
  <1>5. \A m \in 0..WB : m \in Words
    <2>1. WB \in 0..DB
      BY Widths
    <2>2. WB < 2^WB
      BY <2>1, PowerLarger
    <2>3. WordSize = 2^WB /\ WordSize \in Nat
      BY Sizes DEF WordSize
    <2> QED BY <1>1, <2>2, <2>3, InSizes
  <1> QED BY <1>4, <1>5, Zenon

\* An instruction that writes the words u and w to the lanes of a register.
WritesLanes(u, w) == \E t, f : f \in Spefscrs /\ SpeDone(PACK_2W(u, w), t, f)

\* Its types.
LEMMA LanesTyped ==
    ASSUME Ready, NEW u \in Words, NEW w \in Words, WritesLanes(u, w)
    PROVE  Typed'
  BY LaneEnds DEF WritesLanes

\* SPEFSCR left alone, and with an overflow.
LEMMA Flagging ==
    ASSUME Ready
    PROVE  /\ spefscr \in Spefscrs
           /\ \A h, l \in BOOLEAN : UPDATE_SPEFSCR_OV(h, l) \in Spefscrs
           /\ UPDATE_SPEFSCR_OV(FALSE, FALSE) \in Spefscrs
  <1>1. ASSUME NEW h \in BOOLEAN, NEW l \in BOOLEAN PROVE UPDATE_SPEFSCR_OV(h, l) \in Spefscrs
    BY OverflowTypes DEF Ready
  <1>2. spefscr \in Spefscrs /\ FALSE \in BOOLEAN
    BY DEF Ready, Typed
  <1> QED BY <1>1, <1>2, Zenon

\* brinc.
LEMMA IncrementTyped ==
    ASSUME Ready, brinc
    PROVE  Typed'
  <1> DEFINE mask == Lo(REG2)
             a == Lo(REG1)
             d == BITREVERSE(1 + BITREVERSE(a | Compl(mask)))
             r == d & mask
  <1>1. mask \in Words /\ mask \in Int /\ a \in Int /\ Hi(REG1) \in Words
    BY Fields
  <1>2. SpeDone(Hi(REG1) * 2^WB + (d & mask), FALSE, spefscr)
    BY Zenon DEF brinc
  <1> HIDE DEF mask, a
  <1>3. Compl(mask) \in Int
    BY <1>1, BitwiseIntegers
  <1>4. (a | Compl(mask)) \in Int
    BY <1>1, <1>3, BitwiseIntegers
  <1>5. BITREVERSE(a | Compl(mask)) \in Int
    BY <1>4, ReverseTypes
  <1>6. 1 + BITREVERSE(a | Compl(mask)) \in Int
    BY <1>5
  <1>7. d \in Int
    BY <1>6, ReverseTypes
  <1> HIDE DEF d
  <1>8. r \in Words
    <2>1. r \in Int /\ r >= 0 /\ r <= ToD(mask)
      BY <1>1, <1>7, AndRange
    <2>2. ToD(mask) = mask
      <3>1. mask \in Doubles
        BY <1>1, WordsAreDoubles
      <3> QED BY <3>1, CastWithin
    <2>3. Words = 0..(WordSize - 1) /\ WordSize \in Nat
      BY InSizes, Sizes
    <2> HIDE DEF r
    <2> QED BY <1>1, <2>1, <2>2, <2>3
  <1> HIDE DEF r
  <1>9. SpeDone(PACK_2W(Hi(REG1), r), FALSE, spefscr)
    BY <1>2 DEF PACK_2W, r
  <1> QED BY <1>1, <1>8, <1>9, LanesTyped, Flagging, Zenon DEF WritesLanes

\* evabs and evaddiw.
LEMMA AbsoluteTyped ==
    ASSUME Ready, evabs_addiw
    PROVE  Typed'
  <1> DEFINE v(l) == LET w == W(REG1, l)
                     IN  IF ic.op = "evabs" THEN IF Signed(w, WB) > 0 THEN w ELSE ToW(-w)
                         ELSE ToW(w + ic.i)
  <1>1. ASSUME NEW l \in Lanes PROVE v(l) \in Words
    <2> DEFINE w == W(REG1, l)
    <2>1. w \in Words /\ w \in Int /\ ic.i \in Int
      BY Fields
    <2> HIDE DEF w
    <2>2. -w \in Int /\ w + ic.i \in Int
      BY <2>1
    <2>3. ToW(-w) \in Words /\ ToW(w + ic.i) \in Words
      BY <2>2, Casts
    <2> QED BY <2>1, <2>3 DEF w
  <1>2. SpeDone(PACK_2W(v(0), v(1)), FALSE, spefscr)
    BY Zenon DEF evabs_addiw, Pack
  <1> HIDE DEF v
  <1>3. v(0) \in Words /\ v(1) \in Words
    BY <1>1 DEF Lanes
  <1> QED BY <1>2, <1>3, LanesTyped, Flagging, Zenon DEF WritesLanes

\* evaddsmiaaw to evaddssiaaw.
LEMMA AddToAccTyped ==
    ASSUME Ready, evadd_aaw
    PROVE  Typed'
  <1> DEFINE v(l) == ToW(W(acc, l) + W(REG1, l))
             r == [l \in Lanes |-> SignedSum("aaw", l, W(REG1, l), MinW)]
  <1>1. ASSUME NEW l \in Lanes
        PROVE  v(l) \in Words /\ IsLane(SignedSum("aaw", l, W(REG1, l), MinW))
    BY Fields, SumTypes, BoundTypes
  <1>2. \/ SpeDone(PACK_2W(v(0), v(1)), TRUE, spefscr)
        \/ SpeDone(PACK_2W(v(0), v(1)), TRUE, UPDATE_SPEFSCR_OV(FALSE, FALSE))
        \/ SpeSaturated(r)
    BY Zenon DEF evadd_aaw, Pack
  <1>3. WritesLanes(v(0), v(1)) \/ SpeSaturated(r)
    <2> HIDE DEF v, r
    <2> QED BY <1>2, Flagging, Zenon DEF WritesLanes
  <1>4. v(0) \in Words /\ v(1) \in Words
    BY <1>1 DEF Lanes
  <1>5. \A l \in Lanes : r[l].v \in Words /\ r[l].ov \in BOOLEAN
    BY <1>1, Zenon DEF IsLane
  <1> HIDE DEF v, r
  <1> QED BY <1>3, <1>4, <1>5, LanesTyped, SaturatedTypes

\* evaddw, evand and evandc.
LEMMA AddAndTyped ==
    ASSUME Ready, evaddw_and
    PROVE  Typed'
  <1> DEFINE v(l) == ToW(W(REG1, l) + W(REG2, l))
  <1>1. REG1 \in Doubles /\ REG2 \in Doubles
    BY Fields
  <1>2. ASSUME NEW l \in Lanes PROVE v(l) \in Words
    <2>1. W(REG1, l) + W(REG2, l) \in Int
      <3>1. W(REG1, l) \in Int /\ W(REG2, l) \in Int
        BY Fields
      <3> QED BY <3>1
    <2> QED BY <2>1, Casts
  <1>3. (REG1 & REG2) \in Doubles /\ (REG1 & Compl(REG2)) \in Doubles
    BY <1>1, BitwiseTypes
  <1>4. \/ SpeDone(PACK_2W(v(0), v(1)), FALSE, spefscr)
        \/ SpeDone(REG1 & REG2, FALSE, spefscr)
        \/ SpeDone(REG1 & Compl(REG2), FALSE, spefscr)
    BY DEF evaddw_and, Fetch, Pack
  <1>5. v(0) \in Words /\ v(1) \in Words
    BY <1>2 DEF Lanes
  <1>6. PACK_2W(v(0), v(1)) \in Doubles
    <2> HIDE DEF v
    <2> QED BY <1>5, Packed
  <1> HIDE DEF v
  <1> QED BY <1>3, <1>4, <1>6, VectorEnds, Flagging

\* The comparisons.
LEMMA VectorCompareTyped ==
    ASSUME Ready, evcmp
    PROVE  Typed'
  <1>1. \E p, q : SpeCompare(FORM_CRX(p, q))
    BY Zenon DEF evcmp
  <1>2. PICK p, q : SpeCompare(FORM_CRX(p, q))
    BY <1>1
  <1>3. FORM_CRX(p, q) \in 0..15
    <2>1. \A b : Bit(b) \in {0, 1}
      BY DEF Bit
    <2>2. Bit(p) \in {0, 1} /\ Bit(q) \in {0, 1} /\ Bit(p \/ q) \in {0, 1} /\ Bit(p /\ q) \in {0, 1}
      BY <2>1
    <2> QED BY <2>2 DEF FORM_CRX
  <1>4. [cr EXCEPT ![ic.d] = FORM_CRX(p, q)] \in [CrFields -> 0..15]
    BY <1>3, Ranges
  <1> QED BY <1>2, <1>4, Completes DEF SpeCompare, Ready, Typed

\* evcntlsw and evcntlzw.
LEMMA CountTyped ==
    ASSUME Ready, evcntl
    PROVE  Typed'
  <1> DEFINE bit(l, n) == (W(REG1, l) \div 2^(WB - 1 - n)) % 2
             s(l) == IF ic.op = "evcntlsw" THEN bit(l, 0) ELSE 0
             cnt(l) == CHOOSE n \in 0..WB : /\ \A j \in 0..(n - 1) : bit(l, j) = s(l)
                                            /\ n < WB => bit(l, n) # s(l)
  <1>1. SpeDone(PACK_2W(cnt(0), cnt(1)), FALSE, spefscr)
    BY Zenon DEF evcntl, Pack
  <1>2. ASSUME NEW l \in Lanes PROVE cnt(l) \in Words
    <2> DEFINE f == [n \in 0..WB |-> bit(l, n)]
               c == s(l)
    <2>1. WB \in Nat
      BY Widths
    <2>2. \A n \in 0..WB : /\ f[n] = bit(l, n)
                           /\ \A j \in 0..(n - 1) : f[j] = bit(l, j)
      <3>1. \A n \in 0..WB : f[n] = bit(l, n)
        BY Zenon
      <3>2. \A n \in 0..WB : \A j \in 0..(n - 1) : j \in 0..WB
        BY <2>1
      <3> HIDE DEF f, bit
      <3> QED BY <3>1, <3>2
    <2> HIDE DEF f, bit, s
    <2> DEFINE P(n) == /\ \A j \in 0..(n - 1) : bit(l, j) = c
                       /\ n < WB => bit(l, n) # c
               Q(n) == /\ \A j \in 0..(n - 1) : f[j] = c
                       /\ n < WB => f[n] # c
    <2>3. (CHOOSE n \in 0..WB : Q(n)) \in Words
      BY RunLength
    <2>4. \A n \in 0..WB : P(n) <=> Q(n)
      BY <2>2
    <2>5. (CHOOSE n \in 0..WB : P(n)) = (CHOOSE n \in 0..WB : Q(n))
      <3> HIDE DEF P, Q
      <3> QED BY <2>4
    <2>6. cnt(l) = CHOOSE n \in 0..WB : P(n)
      OBVIOUS
    <2> QED BY <2>3, <2>5, <2>6, Zenon
  <1> HIDE DEF cnt
  <1>3. cnt(0) \in Words /\ cnt(1) \in Words
    BY <1>2 DEF Lanes
  <1> QED BY <1>1, <1>3, LanesTyped, Flagging, Zenon DEF WritesLanes

\* eveqv, evextsb and evextsh.
LEMMA ExtendTyped ==
    ASSUME Ready, eveqv_ext
    PROVE  Typed'
  <1> DEFINE u(l) == ToW(Signed(W(REG1, l), BB))
             v(l) == ToW(Signed(W(REG1, l), HB))
  <1>1. ASSUME NEW l \in Lanes PROVE u(l) \in Words /\ v(l) \in Words
    BY Fields, Extensions, Casts
  <1>2. (REG1 ^^ REG2) \in Doubles
    BY Fields, BitwiseTypes
  <1>3. \/ SpeDone(REG1 ^^ REG2, FALSE, spefscr)
        \/ SpeDone(PACK_2W(u(0), u(1)), FALSE, spefscr)
        \/ SpeDone(PACK_2W(v(0), v(1)), FALSE, spefscr)
    BY DEF eveqv_ext, Fetch, Pack
  <1> HIDE DEF u, v
  <1>4. u(0) \in Words /\ u(1) \in Words /\ v(0) \in Words /\ v(1) \in Words
    BY <1>1 DEF Lanes
  <1>5. PACK_2W(u(0), u(1)) \in Doubles /\ PACK_2W(v(0), v(1)) \in Doubles
    BY <1>4, Packed
  <1> QED BY <1>2, <1>3, <1>5, VectorEnds, Flagging

\* evmergehi to evmergelohi.
LEMMA MergeTyped ==
    ASSUME Ready, evmerge
    PROVE  Typed'
  <1> DEFINE u == W(REG1, IF ic.op \in {"evmergehi", "evmergehilo"} THEN 0 ELSE 1)
             v == W(REG2, IF ic.op \in {"evmergehi", "evmergelohi"} THEN 0 ELSE 1)
  <1>1. u \in Words /\ v \in Words
    BY Fields DEF Lanes
  <1>2. SpeDone(PACK_2W(u, v), FALSE, spefscr)
    BY Zenon DEF evmerge
  <1> HIDE DEF u, v
  <1> QED BY <1>1, <1>2, LanesTyped, Flagging, Zenon DEF WritesLanes

---------------------------------------------------------------------------
(* The types of the multiplies *)

\* A word is an integer: what the sums take.
LEMMA WordSums ==
    ASSUME Ready, NEW l \in Lanes, NEW s, NEW p \in Words
    PROVE  /\ \A n \in Words : IsLane(SignedSum(s, l, p, n))
           /\ IsLane(SignedSum(s, l, p, MinW))
           /\ IsLane(UnsignedSum(s, l, p)) /\ Modulo(s, l, p) \in Words
  <1>1. p \in Int
    BY CastWithin
  <1> QED BY <1>1, SumTypes, BoundTypes

\* The guarded multiplies.
LEMMA GuardedTyped ==
    ASSUME Ready, evmheg \/ evmhog
    PROVE  Typed'
  <1>1. 1 \in Lanes
    BY DEF Lanes
  <1>2. ASSUME NEW p \in Doubles, NEW s, SpeDone(ModuloDouble(s, p), TRUE, spefscr)
        PROVE  Typed'
    <2>1. ModuloDouble(s, p) \in Doubles
      BY WholeSumTypes
    <2> QED BY <1>2, <2>1, VectorEnds, Flagging
  <1>3. CASE evmheg
    <2> DEFINE p == CASE ic.t = "smf" -> GSF(EvenA(1), EvenB(1))
                      [] ic.t = "smi" -> ExtsW(Signed2(EvenA(1), EvenB(1)))
                      [] ic.t = "umi" -> EvenA(1) * EvenB(1)
               s == IF ic.t = "smi" THEN "aa" ELSE ic.s
    <2>1. SpeDone(ModuloDouble(s, p), TRUE, spefscr)
      BY <1>3, Zenon DEF evmheg
    <2>2. ic.t \in {"smf", "smi", "umi"}
      BY <1>3 DEF evmheg, Fetch, Ready, IsInstruction
    <2>3. /\ GSF(EvenA(1), EvenB(1)) \in Doubles /\ ExtsW(Signed2(EvenA(1), EvenB(1))) \in Doubles
          /\ EvenA(1) * EvenB(1) \in Doubles
      BY <1>1, EvenOddProducts, WordsAreDoubles
    <2>4. p \in Doubles
      <3>1. CASE ic.t = "smf"
        BY <2>3, <3>1
      <3>2. CASE ic.t = "smi"
        BY <2>3, <3>2
      <3>3. CASE ic.t = "umi"
        BY <2>3, <3>3
      <3> QED BY <2>2, <3>1, <3>2, <3>3
    <2> HIDE DEF p, s
    <2> QED BY <1>2, <2>1, <2>4
  <1>4. CASE evmhog
    <2> DEFINE p == CASE ic.t = "smf" -> GSF(OddA(1), OddB(1))
                      [] ic.t = "smi" -> ExtsW(OddA(1) * OddB(1))
                      [] ic.t = "umi" -> OddA(1) * OddB(1)
    <2>1. SpeDone(ModuloDouble(ic.s, p), TRUE, spefscr)
      BY <1>4, Zenon DEF evmhog
    <2>2. ic.t \in {"smf", "smi", "umi"}
      BY <1>4 DEF evmhog, Fetch, Ready, IsInstruction
    <2>3. /\ GSF(OddA(1), OddB(1)) \in Doubles /\ ExtsW(OddA(1) * OddB(1)) \in Doubles
          /\ OddA(1) * OddB(1) \in Doubles
      BY <1>1, EvenOddProducts, WordsAreDoubles
    <2>4. p \in Doubles
      <3>1. CASE ic.t = "smf"
        BY <2>3, <3>1
      <3>2. CASE ic.t = "smi"
        BY <2>3, <3>2
      <3>3. CASE ic.t = "umi"
        BY <2>3, <3>3
      <3> QED BY <2>2, <3>1, <3>2, <3>3
    <2> HIDE DEF p
    <2> QED BY <1>2, <2>1, <2>4
  <1> QED BY <1>3, <1>4

\* The modulo multiplies of halfwords.
LEMMA ModuloTyped ==
    ASSUME Ready, evmhesm \/ evmheumi \/ evmhosm \/ evmhoumi
    PROVE  Typed'
  <1> DEFINE even(l) == IF ic.t = "smf" THEN SF(EvenA(l), EvenB(l)) ELSE Signed2(EvenA(l), EvenB(l))
             odd(l)  == IF ic.t = "smf" THEN SF(OddA(l), OddB(l)) ELSE OddA(l) * OddB(l)
             a(l) == Modulo(ic.s, l, even(l))
             b(l) == Modulo(ic.s, l, EvenA(l) * EvenB(l))
             c(l) == Modulo(ic.s, l, odd(l))
             d(l) == Modulo(ic.s, l, OddA(l) * OddB(l))
  <1>1. ASSUME NEW l \in Lanes
        PROVE  a(l) \in Words /\ b(l) \in Words /\ c(l) \in Words /\ d(l) \in Words
    <2>1. even(l) \in Words /\ EvenA(l) * EvenB(l) \in Words /\ odd(l) \in Words /\ OddA(l) * OddB(l) \in Words
      BY EvenOddProducts
    <2> HIDE DEF even, odd
    <2> QED BY <2>1, WordSums
  <1>2. /\ evmhesm => SpeDone(PACK_2W(a(0), a(1)), ic.s # "", spefscr)
        /\ evmheumi => SpeDone(PACK_2W(b(0), b(1)), ic.s # "", spefscr)
        /\ evmhosm => SpeDone(PACK_2W(c(0), c(1)), ic.s # "", spefscr)
        /\ evmhoumi => SpeDone(PACK_2W(d(0), d(1)), ic.s # "", spefscr)
    BY Zenon DEF evmhesm, evmheumi, evmhosm, evmhoumi, Pack
  <1> HIDE DEF a, b, c, d
  <1>3. \/ WritesLanes(a(0), a(1)) \/ WritesLanes(b(0), b(1))
        \/ WritesLanes(c(0), c(1)) \/ WritesLanes(d(0), d(1))
    BY <1>2, Flagging, Zenon DEF WritesLanes
  <1>4. \A l \in {0, 1} : a(l) \in Words /\ b(l) \in Words /\ c(l) \in Words /\ d(l) \in Words
    BY <1>1 DEF Lanes
  <1> QED BY <1>3, <1>4, LanesTyped

\* The saturating fractions.
LEMMA FractionTyped ==
    ASSUME Ready, evmhessf \/ evmhossf
    PROVE  Typed'
  <1>0. \A p, q : Most(p, q) \in BOOLEAN
    BY DEF Most
  <1>1. CASE evmhessf
    <2> DEFINE mov(l) == Most(EvenA(l), EvenB(l))
               p(l)   == IF mov(l) THEN MaxW ELSE SF(EvenA(l), EvenB(l))
               v(l)   == IF Accumulates(ic.s) THEN SignedSum(ic.s, l, p(l), MinW).v ELSE p(l)
    <2>1. SpeDone(PACK_2W(v(0), v(1)), ic.s # "", UPDATE_SPEFSCR_OV(mov(0), mov(1)))
      BY <1>1, Zenon DEF evmhessf, Pack
    <2>2. ASSUME NEW l \in Lanes PROVE v(l) \in Words
      <3>1. p(l) \in Words
        BY EvenOddProducts, BoundTypes
      <3> HIDE DEF p
      <3>2. IsLane(SignedSum(ic.s, l, p(l), MinW))
        BY <3>1, WordSums
      <3> QED BY <3>1, <3>2 DEF IsLane
    <2>3. UPDATE_SPEFSCR_OV(mov(0), mov(1)) \in Spefscrs
      BY <1>0, Flagging, Zenon
    <2> HIDE DEF v, mov
    <2>4. v(0) \in Words /\ v(1) \in Words
      BY <2>2 DEF Lanes
    <2> QED BY <2>1, <2>3, <2>4, LanesTyped, Zenon DEF WritesLanes
  <1>2. CASE evmhossf
    <2> DEFINE mov(l) == Most(OddA(l), OddB(l))
               b(l)   == IF l = 0 /\ ~Accumulates(ic.s) THEN OddA(0) ELSE OddB(l)
               p(l)   == IF mov(l) THEN MaxW ELSE SF(OddA(l), b(l))
               sum(l) == SignedSum(ic.s, l, p(l), MinW)
               r      == [l \in Lanes |-> [v |-> sum(l).v, ov |-> sum(l).ov \/ mov(l)]]
    <2>1. \/ SpeSaturated(r)
          \/ SpeDone(PACK_2W(p(0), p(1)), ic.s # "", UPDATE_SPEFSCR_OV(mov(0), mov(1)))
      BY <1>2, Zenon DEF evmhossf, Pack
    <2>2. ASSUME NEW l \in Lanes PROVE p(l) \in Words
      <3>1. SF(OddA(l), b(l)) \in Words
        BY EvenOddProducts DEF Lanes
      <3> QED BY <3>1, BoundTypes
    <2>3. UPDATE_SPEFSCR_OV(mov(0), mov(1)) \in Spefscrs
      BY <1>0, Flagging, Zenon
    <2> HIDE DEF p, mov
    <2>4. ASSUME NEW l \in Lanes PROVE r[l].v \in Words /\ r[l].ov \in BOOLEAN
      <3>1. IsLane(sum(l))
        BY <2>2, WordSums
      <3>2. (sum(l).ov \/ mov(l)) \in BOOLEAN
        OBVIOUS
      <3>3. r[l].v = sum(l).v /\ r[l].ov = (sum(l).ov \/ mov(l))
        BY Zenon
      <3> HIDE DEF sum, r
      <3> QED BY <3>1, <3>2, <3>3, Zenon DEF IsLane
    <2> HIDE DEF r
    <2>5. p(0) \in Words /\ p(1) \in Words
      BY <2>2 DEF Lanes
    <2>6. SpeSaturated(r) \/ WritesLanes(p(0), p(1))
      BY <2>1, <2>3, Zenon DEF WritesLanes
    <2> QED BY <2>4, <2>5, <2>6, LanesTyped, SaturatedTypes
  <1> QED BY <1>1, <1>2

\* The saturating integers.
LEMMA SaturatingTyped ==
    ASSUME Ready, evmhessi \/ evmheusi \/ evmhossi \/ evmhousi
    PROVE  Typed'
  <1> DEFINE p(l) == IF l = 0 THEN EvenA(0) * EvenB(0) ELSE EvenA(1) * EvenA(1)
             a == [l \in Lanes |-> SignedSum(ic.s, l, p(l), MinW)]
             b == [l \in Lanes |-> UnsignedSum(ic.s, l, EvenA(l) * EvenB(l))]
             c == [l \in Lanes |-> SignedSum(ic.s, l, OddA(l) * OddB(l), MinW)]
             d == [l \in Lanes |-> UnsignedSum(ic.s, l, OddA(l) * OddB(l))]
  <1>1. SpeSaturated(a) \/ SpeSaturated(b) \/ SpeSaturated(c) \/ SpeSaturated(d)
    BY Zenon DEF evmhessi, evmheusi, evmhossi, evmhousi
  <1>2. ASSUME NEW l \in Lanes PROVE IsLane(a[l]) /\ IsLane(b[l]) /\ IsLane(c[l]) /\ IsLane(d[l])
    <2>1. p(l) \in Words /\ EvenA(l) * EvenB(l) \in Words /\ OddA(l) * OddB(l) \in Words
      <3>1. /\ \A m \in Lanes : EvenA(m) * EvenB(m) \in Words /\ EvenA(m) * EvenA(m) \in Words
            /\ OddA(l) * OddB(l) \in Words
        BY EvenOddProducts
      <3>2. 0 \in Lanes /\ 1 \in Lanes
        BY DEF Lanes
      <3> QED BY <3>1, <3>2
    <2> HIDE DEF p
    <2>2. /\ IsLane(SignedSum(ic.s, l, p(l), MinW))
          /\ IsLane(UnsignedSum(ic.s, l, EvenA(l) * EvenB(l)))
          /\ IsLane(SignedSum(ic.s, l, OddA(l) * OddB(l), MinW))
          /\ IsLane(UnsignedSum(ic.s, l, OddA(l) * OddB(l)))
      BY <2>1, WordSums
    <2> QED BY <2>2
  <1> HIDE DEF a, b, c, d
  <1> QED BY <1>1, <1>2, SaturatedTypes DEF IsLane

\* Products of words.
LEMMA WordProducts ==
    ASSUME Ready, NEW l \in Lanes
    PROVE  /\ WordProduct(l) \in Doubles /\ Hi(WordProduct(l)) \in Words /\ Lo(WordProduct(l)) \in Words
           /\ MostW(l) \in BOOLEAN
  <1>1. W(REG1, l) \in Words /\ W(REG2, l) \in Words
    BY Fields
  <1> QED BY <1>1, WordsProduct DEF WordProduct, MostW

\* The multiplies that take the high or the low word of a product.
LEMMA PartialTyped ==
    ASSUME Ready, evmwh \/ evmwl
    PROVE  Typed'
  <1>1. CASE evmwh
    <2> DEFINE mov(l) == ic.t = "ssf" /\ MostW(l)
               h(l) == SF(Half(REG1, 2 * l + 1), Half(REG2, 2 * l + 1))
               v(l) == CASE ic.t = "umi" -> Hi(WordProduct(l))
                         [] mov(l)       -> MaxW
                         [] OTHER        -> Hi(h(l))
               f == IF ic.t = "ssf" THEN UPDATE_SPEFSCR_OV(mov(0), mov(1)) ELSE spefscr
    <2>1. SpeDone(PACK_2W(v(0), v(1)), ic.s = "a", f)
      BY <1>1, Zenon DEF evmwh, Pack
    <2>2. ASSUME NEW l \in Lanes PROVE v(l) \in Words
      <3>1. h(l) \in Words
        BY EvenOddProducts DEF OddA, OddB
      <3>2. Hi(h(l)) \in Words
        <4> HIDE DEF h
        <4> QED BY <3>1, WordsAreDoubles, LaneWords
      <3> DEFINE u == WordProduct(l)
      <3>3. Hi(u) \in Words /\ MaxW \in Words
        BY WordProducts, BoundTypes
      <3> HIDE DEF h, mov, u
      <3>4. v(l) = Hi(u) \/ v(l) = MaxW \/ v(l) = Hi(h(l))
        <4>1. CASE ic.t = "umi"
          BY <4>1 DEF u, mov
        <4>2. CASE ic.t # "umi" /\ mov(l)
          BY <4>2
        <4>3. CASE ic.t # "umi" /\ ~mov(l)
          BY <4>3
        <4> QED BY <4>1, <4>2, <4>3
      <3> QED BY <3>2, <3>3, <3>4
    <2>3. f \in Spefscrs
      <3>1. mov(0) \in BOOLEAN /\ mov(1) \in BOOLEAN
        OBVIOUS
      <3> HIDE DEF mov
      <3> QED BY <3>1, Flagging, Zenon
    <2> HIDE DEF v, f
    <2>4. v(0) \in Words /\ v(1) \in Words
      BY <2>2 DEF Lanes
    <2> QED BY <2>1, <2>3, <2>4, LanesTyped, Zenon DEF WritesLanes
  <1>2. CASE evmwl
    <2> DEFINE p(l) == Lo(WordProduct(l))
               ovn(l) == IF l = 0 THEN MinW ELSE 2^(WB - 5)
               a == [l \in Lanes |-> SignedSum(ic.s, l, p(l), ovn(l))]
               b == [l \in Lanes |-> UnsignedSum(ic.s, l, p(l))]
               v(l) == Modulo(ic.s, l, p(l))
    <2>1. SpeSaturated(a) \/ SpeSaturated(b) \/ SpeDone(PACK_2W(v(0), v(1)), ic.s # "", spefscr)
      BY <1>2 DEF evmwl, Pack
    <2>2. ASSUME NEW l \in Lanes PROVE IsLane(a[l]) /\ IsLane(b[l]) /\ v(l) \in Words
      <3>1. p(l) \in Words
        BY WordProducts
      <3>2. ovn(l) \in Words
        <4>1. WB - 5 \in 0..(WB - 1) /\ WB - 1 \in 0..DB
          BY Widths, AmountAssumption
        <4> DEFINE g == 2^(WB - 5)
        <4>2. g <= MinW /\ g \in Nat
          BY <4>1, PowerOrder, Powers, Widths DEF MinW
        <4>3. Words = 0..(WordSize - 1) /\ WordSize \in Nat
          BY InSizes, Sizes
        <4> HIDE DEF g
        <4>4. g \in Words
          BY <4>2, <4>3, BoundTypes
        <4> QED BY <4>4, BoundTypes DEF g
      <3> HIDE DEF p, ovn
      <3>3. /\ IsLane(SignedSum(ic.s, l, p(l), ovn(l))) /\ IsLane(UnsignedSum(ic.s, l, p(l)))
            /\ Modulo(ic.s, l, p(l)) \in Words
        BY <3>1, <3>2, WordSums
      <3> QED BY <3>3
    <2> HIDE DEF a, b, v
    <2>3. SpeSaturated(a) \/ SpeSaturated(b) \/ WritesLanes(v(0), v(1))
      BY <2>1, Flagging, Zenon DEF WritesLanes
    <2>4. v(0) \in Words /\ v(1) \in Words
      BY <2>2 DEF Lanes
    <2> QED BY <2>2, <2>3, <2>4, LanesTyped, SaturatedTypes DEF IsLane
  <1> QED BY <1>1, <1>2

\* The multiplies that take the whole product.
LEMMA WholeTyped ==
    ASSUME Ready, evmws \/ evmwssf
    PROVE  Typed'
  <1>1. 1 \in Lanes
    BY DEF Lanes
  <1>2. SF(OddA(1), OddB(1)) \in Doubles
    BY <1>1, EvenOddProducts, WordsAreDoubles
  <1>3. CASE evmws
    <2> DEFINE p == CASE ic.t = "smf" -> SF(OddA(1), OddB(1))
                      [] ic.t = "smi" -> x86_imulf(Lo(REG1), Lo(REG2))
                      [] ic.t = "umi" -> WordProduct(1)
    <2>1. SpeDone(ModuloDouble(ic.s, p), ic.s # "", spefscr)
      BY <1>3, Zenon DEF evmws
    <2>2. ic.t \in {"smf", "smi", "umi"}
      BY <1>3 DEF evmws, Fetch, Ready, IsInstruction
    <2>3. x86_imulf(Lo(REG1), Lo(REG2)) \in Doubles /\ WordProduct(1) \in Doubles
      BY <1>1, Fields, SignedProductTypes, WordProducts
    <2>4. p \in Doubles
      <3>1. CASE ic.t = "smf"
        BY <1>2, <3>1
      <3>2. CASE ic.t = "smi"
        BY <2>3, <3>2
      <3>3. CASE ic.t = "umi"
        BY <2>3, <3>3
      <3> QED BY <2>2, <3>1, <3>2, <3>3
    <2> HIDE DEF p
    <2>5. ModuloDouble(ic.s, p) \in Doubles
      BY <2>4, WholeSumTypes
    <2> QED BY <2>1, <2>5, VectorEnds, Flagging
  <1>4. CASE evmwssf
    <2> DEFINE mov == MostW(1)
               p   == IF mov THEN 2^(DB - 1) - 1 ELSE SF(OddA(1), OddB(1))
               v   == ModuloDouble(ic.s, p)
               cf  == IF Subtracts(ic.s) THEN acc < p ELSE acc + p >= 2^DB
               ov  == Accumulates(ic.s) /\ cf # (B_N(v, 0) = 1)
               f   == UPDATE_SPEFSCR_OV(FALSE, ov \/ mov)
    <2>1. SpeDone(v, ic.s # "", f)
      BY <1>4, Zenon DEF evmwssf
    <2>2. p \in Doubles
      <3> DEFINE g == 2^(DB - 1)
      <3>1. g \in Nat /\ g > 0 /\ g <= DoubleSize
        <4>1. DB - 1 \in 0..DB /\ DB \in 0..DB
          BY Widths
        <4> QED BY <4>1, Powers, PowerOrder DEF DoubleSize
      <3> HIDE DEF g
      <3>2. g - 1 \in Doubles
        BY <3>1, InSizes, Sizes
      <3> QED BY <1>2, <3>2 DEF g
    <2> HIDE DEF p
    <2>3. v \in Doubles
      BY <2>2, WholeSumTypes
    <2> HIDE DEF v
    <2>4. f \in Spefscrs
      <3>1. (ov \/ mov) \in BOOLEAN /\ FALSE \in BOOLEAN
        OBVIOUS
      <3> HIDE DEF ov, mov
      <3> QED BY <3>1, Flagging, Zenon
    <2> HIDE DEF f
    <2> QED BY <2>1, <2>3, <2>4, VectorEnds
  <1> QED BY <1>3, <1>4

---------------------------------------------------------------------------
(* The types of the other vector instructions *)

\* evmra, evxor, and evnand to evorc.
LEMMA VectorLogicTyped ==
    ASSUME Ready, evmra \/ evxor \/ evlogic
    PROVE  Typed'
  <1> DEFINE v(l) == x86_neg(W(REG1, l)).r
  <1>1. REG1 \in Doubles /\ REG2 \in Doubles
    BY Fields
  <1>2. /\ (REG1 ^^ REG2) \in Doubles /\ (REG1 | REG2) \in Doubles /\ (REG1 & REG2) \in Doubles
        /\ Compl(REG2) \in Doubles
    BY <1>1, BitwiseTypes
  <1>3. /\ Compl(REG1 & REG2) \in Doubles /\ Compl(REG1 | REG2) \in Doubles
        /\ (REG1 | Compl(REG2)) \in Doubles
    BY <1>1, <1>2, BitwiseTypes
  <1>4. ASSUME NEW l \in Lanes PROVE v(l) \in Words
    BY Fields, HostTypes
  <1>5. \/ SpeDone(REG1, TRUE, spefscr)
        \/ SpeDone(REG1 ^^ REG2, FALSE, spefscr)
        \/ SpeDone(Compl(REG1 & REG2), FALSE, spefscr)
        \/ SpeDone(PACK_2W(v(0), v(1)), FALSE, spefscr)
        \/ SpeDone(Compl(REG1 | REG2), FALSE, spefscr)
        \/ SpeDone(REG1 | REG2, FALSE, spefscr)
        \/ SpeDone(REG1 | Compl(REG2), FALSE, spefscr)
    BY DEF evmra, evxor, evlogic, Fetch, Pack
  <1> HIDE DEF v
  <1>6. v(0) \in Words /\ v(1) \in Words
    BY <1>4 DEF Lanes
  <1>7. PACK_2W(v(0), v(1)) \in Doubles
    BY <1>6, Packed
  <1> QED BY <1>1, <1>2, <1>3, <1>5, <1>7, VectorEnds, Flagging

\* evrlw, evrlwi, evrndw and evsel.
LEMMA SelectTyped ==
    ASSUME Ready, evrotate_sel
    PROVE  Typed'
  <1> DEFINE h == 2^HB
             a(l) == ROTL32(W(REG1, l), W(REG2, l))
             b(l) == ROTL32(W(REG1, l), ic.i)
             c(l) == (ToW(W(REG1, l) + 2^(HB - 1)) \div 2^HB) * 2^HB
             e(l) == IF get_crf(4 * ic.i + l) = 1 THEN W(REG1, l) ELSE W(REG2, l)
  <1>1. ASSUME NEW l \in Lanes
        PROVE  a(l) \in Words /\ b(l) \in Words /\ c(l) \in Words /\ e(l) \in Words
    <2>1. W(REG1, l) \in Words /\ W(REG2, l) \in Words /\ W(REG1, l) \in Int /\ W(REG2, l) \in Int /\ ic.i \in Int
      BY Fields
    <2>2. a(l) \in Words /\ b(l) \in Words
      BY <2>1, Rotates
    <2>3. c(l) \in Words
      <3> DEFINE x == ToW(W(REG1, l) + 2^(HB - 1))
      <3>1. x \in Words /\ x \in Int
        <4>1. HB - 1 \in 0..DB
          BY Widths
        <4> DEFINE g == 2^(HB - 1)
        <4>2. g \in Int
          BY <4>1, Powers
        <4> HIDE DEF g
        <4>3. W(REG1, l) + g \in Int
          BY <2>1, <4>2
        <4>4. ToW(W(REG1, l) + g) \in Words
          BY <4>3, Casts
        <4> QED BY <4>4, CastWithin DEF g
      <3>2. h \in Nat /\ h > 0
        BY Sizes DEF HalfSize
      <3>3. Words = 0..(WordSize - 1) /\ WordSize \in Nat
        BY InSizes, Sizes
      <3>4. c(l) = (x \div h) * h
        OBVIOUS
      <3> HIDE DEF x, h, c
      <3>5. x = (x \div h) * h + (x % h) /\ x % h \in 0..(h - 1) /\ x \div h \in Int
        BY <3>1, <3>2, Division
      <3>6. x \div h >= 0
        BY <3>1, <3>2, <3>3
      <3> DEFINE q == x \div h
                 r == x % h
                 m == q * h
      <3>7. m \in Int /\ m >= 0
        <4>1. q \in Nat
          BY <3>5, <3>6
        <4> HIDE DEF q
        <4> QED BY <3>2, <4>1
      <3>8. r \in Int /\ r >= 0 /\ x = m + r
        BY <3>2, <3>5
      <3> HIDE DEF m, r
      <3>9. m \in Words
        BY <3>1, <3>3, <3>7, <3>8
      <3> QED BY <3>4, <3>9 DEF m
    <2>4. e(l) \in Words
      BY <2>1
    <2> QED BY <2>2, <2>3, <2>4
  <1>2. \/ SpeDone(PACK_2W(a(0), a(1)), FALSE, spefscr)
        \/ SpeDone(PACK_2W(b(0), b(1)), FALSE, spefscr)
        \/ SpeDone(PACK_2W(c(0), c(1)), FALSE, spefscr)
        \/ SpeDone(PACK_2W(e(0), e(1)), FALSE, spefscr)
    BY DEF evrotate_sel, Fetch, Pack
  <1> HIDE DEF a, b, c, e
  <1>3. \A l \in {0, 1} : a(l) \in Words /\ b(l) \in Words /\ c(l) \in Words /\ e(l) \in Words
    BY <1>1 DEF Lanes
  <1>4. \/ WritesLanes(a(0), a(1)) \/ WritesLanes(b(0), b(1))
        \/ WritesLanes(c(0), c(1)) \/ WritesLanes(e(0), e(1))
    BY <1>2, Flagging, Zenon DEF WritesLanes
  <1> QED BY <1>3, <1>4, LanesTyped

\* A word shifted left, and an immediate of 5 bits moved to the top of a word.
LEMMA LeftTypes ==
    /\ \A w \in Int, n \in Nat : SL(w, n) \in Words
    /\ \A i \in Int : (i % 32) * 2^(WB - 5) \in Words /\ ToW(Signed(i, 5)) \in Words
  <1>1. ASSUME NEW w \in Int, NEW n \in Nat PROVE SL(w, n) \in Words
    <2>1. CASE n > WB - 1
      BY <2>1, ZeroTypes DEF SL
    <2>2. CASE ~(n > WB - 1)
      <3>1. n \in 0..DB
        BY <2>2, Widths
      <3> DEFINE g == 2^n
      <3>2. g \in Int
        BY <3>1, Powers
      <3> HIDE DEF g
      <3>3. w * g \in Int
        BY <3>2, Times
      <3>4. ToW(w * g) \in Words
        BY <3>3, Casts
      <3> QED BY <2>2, <3>4 DEF SL, g
    <2> QED BY <2>1, <2>2
  <1>2. ASSUME NEW i \in Int PROVE (i % 32) * 2^(WB - 5) \in Words /\ ToW(Signed(i, 5)) \in Words
    <2>1. WB \in Nat /\ WB >= 5 /\ WB - 5 \in Nat /\ 5 \in Nat /\ (WB - 5) + 5 = WB /\ WB <= DB /\ WB - 5 \in 0..DB
      BY Widths, AmountAssumption
    <2>2. 2^5 = 32
      <3>1. 0 \in 0..(DB - 1) /\ 1 \in 0..(DB - 1) /\ 2 \in 0..(DB - 1) /\ 3 \in 0..(DB - 1) /\ 4 \in 0..(DB - 1)
        BY <2>1, Widths
      <3>2. /\ 2^0 = 1 /\ 2^(0 + 1) = 2 * 2^0 /\ 2^(1 + 1) = 2 * 2^1 /\ 2^(2 + 1) = 2 * 2^2
            /\ 2^(3 + 1) = 2 * 2^3 /\ 2^(4 + 1) = 2 * 2^4
        BY <3>1, WidthAssumption
      <3>3. 2^1 = 2 /\ 2^2 = 4
        BY <3>2
      <3>4. 2^3 = 8 /\ 2^4 = 16
        BY <3>2, <3>3
      <3> QED BY <3>2, <3>4
    <2> DEFINE g == 2^(WB - 5)
               a == i % 32
    <2>3. g \in Nat /\ WordSize = g * 32
      <3>1. 2^((WB - 5) + 5) = 2^(WB - 5) * 2^5
        BY <2>1, PowerOfSum
      <3>2. 2^(WB - 5) \in Nat
        BY <2>1, Powers
      <3> QED BY <2>1, <2>2, <3>1, <3>2 DEF WordSize
    <2>4. a \in 0..31
      OBVIOUS
    <2>5. a * g \in Int /\ a * g >= 0 /\ a * g <= g * 32 - 1
      <3>1. g > 0
        BY <2>1, Powers
      <3> HIDE DEF a, g
      <3>2. a * g \in Int /\ a * g >= 0
        BY <2>3, <2>4
      <3>3. a * g <= 31 * g
        BY <2>3, <2>4
      <3> QED BY <2>3, <3>1, <3>2, <3>3
    <2>6. a * g \in Words
      <3> DEFINE p == a * g
      <3>1. p \in Int /\ p >= 0 /\ p <= WordSize - 1
        BY <2>3, <2>5
      <3> HIDE DEF p
      <3>2. p \in Words
        BY <3>1, InSizes, Sizes
      <3> QED BY <3>2 DEF p
    <2>7. ToW(Signed(i, 5)) \in Words
      <3>1. 5 \in 1..WB
        BY <2>1
      <3> DEFINE n == 5
      <3>2. n \in 1..WB
        BY <3>1
      <3> HIDE DEF n
      <3>3. Signed(i, n) \in Int
        BY <3>2, SignedFieldLow
      <3> QED BY <3>3, Casts DEF n
    <2> QED BY <2>6, <2>7
  <1> QED BY <1>1, <1>2

\* evslw to evsplati.
LEMMA ShiftLeftTyped ==
    ASSUME Ready, evshift_left
    PROVE  Typed'
  <1> DEFINE a(l) == SL(W(REG1, l), W(REG2, l) % (2 * WB))
             b(l) == SL(IF l = 0 THEN Hi(REG1) ELSE Lo(REG2), ic.i)
             c(l) == (ic.i % 32) * 2^(WB - 5)
             e(l) == ToW(Signed(ic.i, 5))
  <1>1. ASSUME NEW l \in Lanes PROVE a(l) \in Words /\ c(l) \in Words /\ e(l) \in Words
    <2>1. W(REG1, l) \in Int /\ W(REG2, l) \in Int /\ ic.i \in Int
      BY Fields
    <2>2. W(REG2, l) % (2 * WB) \in Nat
      <3>1. W(REG2, l) % (2 * WB) \in 0..(2 * WB - 1)
        BY <2>1, AmountOfWord
      <3> QED BY <3>1
    <2> QED BY <2>1, <2>2, LeftTypes
  <1>2. ASSUME ic.op = "evslwi", NEW l \in Lanes PROVE b(l) \in Words
    <2>1. ic.i \in Nat
      BY <1>2 DEF Ready, IsInstruction
    <2> DEFINE x == IF l = 0 THEN Hi(REG1) ELSE Lo(REG2)
    <2>2. x \in Int
      BY Fields
    <2> HIDE DEF x
    <2>3. SL(x, ic.i) \in Words
      BY <2>1, <2>2, LeftTypes
    <2> QED BY <2>3 DEF x
  <1>3. \/ SpeDone(PACK_2W(a(0), a(1)), FALSE, spefscr)
        \/ ic.op = "evslwi" /\ SpeDone(PACK_2W(b(0), b(1)), FALSE, spefscr)
        \/ SpeDone(PACK_2W(c(0), c(1)), FALSE, spefscr)
        \/ SpeDone(PACK_2W(e(0), e(1)), FALSE, spefscr)
    BY DEF evshift_left, Fetch, Pack
  <1> HIDE DEF a, b, c, e
  <1>4. 0 \in Lanes /\ 1 \in Lanes
    BY DEF Lanes
  <1>5. \/ WritesLanes(a(0), a(1)) \/ (ic.op = "evslwi" /\ WritesLanes(b(0), b(1)))
        \/ WritesLanes(c(0), c(1)) \/ WritesLanes(e(0), e(1))
    BY <1>3, Flagging, Zenon DEF WritesLanes
  <1> QED BY <1>1, <1>2, <1>4, <1>5, LanesTyped

\* evsrwis to evsrwu.
LEMMA ShiftRightTyped ==
    ASSUME Ready, evshift_right
    PROVE  Typed'
  <1> DEFINE imm == ic.op \in {"evsrwis", "evsrwiu"}
             n(l) == IF imm THEN ic.i ELSE W(REG2, l) % (2 * WB)
             x == IF imm THEN REG0 ELSE REG1
             y(l) == l * WB + WB - 1 - n(l)
             sgn == ic.op \in {"evsrwis", "evsrws"}
             v(l) == Lo(sign_exts_f(x, l * WB, y(l), sgn))
  <1>1. SpeDone(PACK_2W(v(0), v(1)), FALSE, spefscr)
    BY Zenon DEF evshift_right, Pack
  <1>2. ASSUME NEW l \in Lanes PROVE v(l) \in Words
    <2>1. x \in Int
      BY Fields
    <2>2. n(l) \in Nat
      <3>1. W(REG2, l) % (2 * WB) \in 0..(2 * WB - 1)
        BY Fields, AmountOfWord
      <3>2. imm => ic.i \in Nat
        BY DEF Ready, IsInstruction
      <3> QED BY <3>1, <3>2
    <2> HIDE DEF n, x
    <2>3. l * WB \in {0, WB} /\ l * WB \in Int /\ WB \in Int
      BY Widths DEF Lanes
    <2> DEFINE b == l * WB
    <2>4. y(l) = b + WB - 1 - n(l)
      OBVIOUS
    <2> HIDE DEF b, y
    <2>5. y(l) \in Int /\ y(l) <= b + WB - 1
      BY <2>2, <2>3, <2>4 DEF b
    <2>6. b \in {0, WB}
      BY <2>3 DEF b
    <2>7. sgn \in BOOLEAN
      OBVIOUS
    <2> HIDE DEF sgn
    <2>8. sign_exts_f(x, b, y(l), sgn) \in Int
      BY <2>1, <2>5, <2>6, <2>7, FieldIsInteger
    <2>9. Lo(sign_exts_f(x, b, y(l), sgn)) \in Words
      BY <2>8, Casts
    <2> QED BY <2>9 DEF b
  <1> HIDE DEF v
  <1>3. v(0) \in Words /\ v(1) \in Words
    BY <1>2 DEF Lanes
  <1> QED BY <1>1, <1>3, LanesTyped, Flagging, Zenon DEF WritesLanes

\* evsubfsmiaaw to evsubifw.
LEMMA SubtractTyped ==
    ASSUME Ready, evsubf
    PROVE  Typed'
  <1> DEFINE a(l) == ToW(W(acc, l) - W(REG1, l))
             b == [l \in Lanes |-> SignedSum("anw", l, W(REG1, l), MinW)]
             c == [l \in Lanes |-> UnsignedSum("anw", l, W(REG1, l))]
             e(l) == ToW(W(REG2, l) - W(REG1, l))
             f(l) == ToW(W(REG2, l) - ic.i)
  <1>1. ASSUME NEW l \in Lanes
        PROVE  a(l) \in Words /\ IsLane(b[l]) /\ IsLane(c[l]) /\ e(l) \in Words /\ f(l) \in Words
    <2>1. W(REG1, l) \in Words /\ W(REG1, l) \in Int /\ W(REG2, l) \in Int /\ W(acc, l) \in Int /\ ic.i \in Int
      BY Fields
    <2>2. W(acc, l) - W(REG1, l) \in Int /\ W(REG2, l) - W(REG1, l) \in Int /\ W(REG2, l) - ic.i \in Int
      BY <2>1
    <2>3. a(l) \in Words /\ e(l) \in Words /\ f(l) \in Words
      BY <2>2, Casts
    <2>4. IsLane(SignedSum("anw", l, W(REG1, l), MinW)) /\ IsLane(UnsignedSum("anw", l, W(REG1, l)))
      BY <2>1, WordSums
    <2> QED BY <2>3, <2>4
  <1>2. \/ SpeDone(PACK_2W(a(0), a(1)), TRUE, spefscr)
        \/ SpeSaturated(b) \/ SpeSaturated(c)
        \/ SpeDone(PACK_2W(e(0), e(1)), FALSE, spefscr)
        \/ SpeDone(PACK_2W(f(0), f(1)), FALSE, spefscr)
    BY DEF evsubf, Fetch, Pack
  <1> HIDE DEF a, b, c, e, f
  <1>3. \/ WritesLanes(a(0), a(1)) \/ SpeSaturated(b) \/ SpeSaturated(c)
        \/ WritesLanes(e(0), e(1)) \/ WritesLanes(f(0), f(1))
    BY <1>2, Flagging, Zenon DEF WritesLanes
  <1>4. 0 \in Lanes /\ 1 \in Lanes
    BY DEF Lanes
  <1> QED BY <1>1, <1>3, <1>4, LanesTyped, SaturatedTypes DEF IsLane

\* The flag of SPEFSCR after an operation of the host.
LEMMA HostFlags ==
    ASSUME NEW s \in Spefscrs, NEW m \in BOOLEAN
    PROVE  update_spefscr(m, s) \in Spefscrs
  <1>1. [s EXCEPT !.fp = FALSE] \in Spefscrs
    BY Zenon DEF Spefscrs
  <1> QED BY <1>1 DEF update_spefscr

\* The signs of floating point values.
LEMMA SignTyped ==
    ASSUME Ready, evfs_sign \/ efd_sign
    PROVE  Typed'
  <1>1. CASE evfs_sign
    <2> DEFINE v(l) == (W(REG1, l) % MinW) + (IF ic.op = "evfsabs" THEN 0 ELSE MinW)
    <2>1. SpeDone(PACK_2W(v(0), v(1)), FALSE, spefscr)
      BY <1>1, Zenon DEF evfs_sign, Pack
    <2>2. ASSUME NEW l \in Lanes PROVE v(l) \in Words
      <3> DEFINE x == W(REG1, l)
                 m == MinW
      <3>1. x \in Int
        BY Fields
      <3>2. m \in Nat /\ m > 1 /\ WordSize = 2 * m /\ Words = 0..(WordSize - 1)
        BY Sizes, InSizes
      <3> HIDE DEF x, m
      <3>3. x % m \in 0..(m - 1)
        BY <3>1, <3>2, Division
      <3> QED BY <3>2, <3>3 DEF x, m
    <2> HIDE DEF v
    <2>3. v(0) \in Words /\ v(1) \in Words
      BY <2>2 DEF Lanes
    <2> QED BY <2>1, <2>3, LanesTyped, Flagging, Zenon DEF WritesLanes
  <1>2. CASE efd_sign
    <2> DEFINE top == 2^(DB - 1)
    <2>1. REG1 \in Doubles /\ REG1 \in Int
      BY Fields
    <2>2. top \in Nat /\ top > 0 /\ DoubleSize = 2 * top
      <3>1. DB - 1 \in 0..DB /\ DB \in 1..DB
        BY Widths
      <3> QED BY <3>1, Powers, Doubling DEF DoubleSize
    <2>3. \/ SpeDone(REG1 % top, FALSE, spefscr)
          \/ SpeDone((REG1 % top) + top, FALSE, spefscr)
          \/ SpeDone(REG1 ^^ top, FALSE, spefscr)
      BY <1>2 DEF efd_sign, Fetch
    <2> HIDE DEF top
    <2>4. REG1 % top \in 0..(top - 1) /\ Doubles = 0..(DoubleSize - 1)
      BY <2>1, <2>2, Division, InSizes
    <2>5. top \in Doubles /\ REG1 % top \in Doubles /\ (REG1 % top) + top \in Doubles
      BY <2>2, <2>4
    <2>6. (REG1 ^^ top) \in Doubles
      BY <2>1, <2>5, BitwiseTypes
    <2> QED BY <2>3, <2>5, <2>6, VectorEnds, Flagging
  <1> QED BY <1>1, <1>2

\* Floating point arithmetic and comparison.
LEMMA FloatTyped ==
    ASSUME Ready, evfs_arith \/ evfs_compare
    PROVE  Typed'
  <1>0. /\ gpr \in [Regs -> Doubles] /\ xer \in Xers /\ cr \in [CrFields -> 0..15]
        /\ acc \in Doubles /\ spefscr \in Spefscrs /\ mxcsr \in BOOLEAN
    BY DEF Ready, Typed
  <1>1. ASSUME NEW high \in BOOLEAN, NEW low \in BOOLEAN
        PROVE  LET m1 == mxcsr \/ high
                   m2 == m1 \/ low
               IN  m2 \in BOOLEAN /\ update_spefscr(m2, update_spefscr(m1, spefscr)) \in Spefscrs
    <2> DEFINE m1 == mxcsr \/ high
               m2 == m1 \/ low
    <2>1. m1 \in BOOLEAN /\ m2 \in BOOLEAN
      OBVIOUS
    <2> HIDE DEF m1, m2
    <2>2. update_spefscr(m1, spefscr) \in Spefscrs
      BY <1>0, <2>1, HostFlags, Zenon
    <2>3. update_spefscr(m2, update_spefscr(m1, spefscr)) \in Spefscrs
      BY <2>1, <2>2, HostFlags, Zenon
    <2> QED BY <2>1, <2>3, Zenon DEF m1, m2
  <1>2. CASE evfs_arith
    <2>1. PICK u \in FpWords, v \in FpWords, high \in BOOLEAN, low \in BOOLEAN :
            LET m1 == mxcsr \/ high
                m2 == m1 \/ low
            IN  /\ Complete([gpr EXCEPT ![ic.d] = PACK_2W(u, v)], xer, cr)
                /\ mxcsr' = m2
                /\ spefscr' = update_spefscr(m2, update_spefscr(m1, spefscr))
      BY <1>2, Zenon DEF evfs_arith
    <2>2. acc' = acc
      BY <1>2 DEF evfs_arith
    <2>3. PACK_2W(u, v) \in Doubles
      <3>1. u \in Words /\ v \in Words
        BY HostAssumption
      <3> QED BY <3>1, Packed
    <2>4. [gpr EXCEPT ![ic.d] = PACK_2W(u, v)] \in [Regs -> Doubles]
      BY <2>3, Ranges
    <2>5. mxcsr' \in BOOLEAN /\ spefscr' \in Spefscrs
      BY <1>1, <2>1, Zenon
    <2>6. Complete([gpr EXCEPT ![ic.d] = PACK_2W(u, v)], xer, cr)
      BY <2>1, Zenon
    <2> QED BY <1>0, <2>2, <2>4, <2>5, <2>6 DEF Typed, Complete
  <1>3. CASE evfs_compare
    <2>1. PICK ch \in BOOLEAN, cl \in BOOLEAN, high \in BOOLEAN, low \in BOOLEAN :
            LET m1 == mxcsr \/ high
                m2 == m1 \/ low
            IN  /\ Complete(gpr, xer, [cr EXCEPT ![ic.d] = FORM_CRX(ch, cl)])
                /\ mxcsr' = m2
                /\ spefscr' = IF ic.op = "evfstst" THEN spefscr
                              ELSE update_spefscr(m2, update_spefscr(m1, spefscr))
      BY <1>3, Zenon DEF evfs_compare
    <2>2. acc' = acc
      BY <1>3 DEF evfs_compare
    <2>3. FORM_CRX(ch, cl) \in 0..15
      <3>1. \A b : Bit(b) \in {0, 1}
        BY DEF Bit
      <3>2. Bit(ch) \in {0, 1} /\ Bit(cl) \in {0, 1} /\ Bit(ch \/ cl) \in {0, 1} /\ Bit(ch /\ cl) \in {0, 1}
        BY <3>1
      <3> QED BY <3>2 DEF FORM_CRX
    <2>4. [cr EXCEPT ![ic.d] = FORM_CRX(ch, cl)] \in [CrFields -> 0..15]
      BY <2>3, Ranges
    <2>5. mxcsr' \in BOOLEAN /\ spefscr' \in Spefscrs
      BY <1>0, <1>1, <2>1, Zenon
    <2>6. Complete(gpr, xer, [cr EXCEPT ![ic.d] = FORM_CRX(ch, cl)])
      BY <2>1, Zenon
    <2> QED BY <1>0, <2>2, <2>4, <2>5, <2>6 DEF Typed, Complete
  <1> QED BY <1>2, <1>3

\* Every instruction keeps the types.
LEMMA SpeTyped ==
    ASSUME Ready, SpeNext
    PROVE  Typed'
  <1>1. CASE evdivw
    BY <1>1 DEF evdivw, Ready, Typed, speVars
  <1> QED
    BY <1>1, IncrementTyped, AbsoluteTyped, AddToAccTyped, AddAndTyped, VectorCompareTyped,
       CountTyped, ExtendTyped, MergeTyped, GuardedTyped, ModuloTyped, FractionTyped,
       SaturatingTyped, PartialTyped, WholeTyped, VectorLogicTyped, SelectTyped,
       ShiftLeftTyped, ShiftRightTyped, SubtractTyped, SignTyped, FloatTyped
    DEF SpeNext

---------------------------------------------------------------------------
(* The types: the invariant *)

\* An instruction runs only while the process does, and only one of the program.
LEMMA Fetches ==
    ASSUME Next
    PROVE  ~down /\ k <= Len(prog)
  <1> DEFINE F == ~down /\ k <= Len(prog)
  <1>1. \A ops : Fetch(ops) => F
    BY DEF Fetch
  <1> HIDE DEF F
  <1>2. IntegerNext => F
    <2>1. Add \/ Subtract \/ Divide \/ Multiply \/ Logical \/ LogicalWide => F
      BY <1>1, Zenon DEF Add, Subtract, Divide, Multiply, Logical, LogicalWide
    <2>2. Compare \/ CrLogic \/ mcrf \/ mtcrf \/ mcrxr \/ mfcr \/ isel => F
      BY <1>1, Zenon DEF Compare, CrLogic, mcrf, mtcrf, mcrxr, mfcr, isel
    <2>3. Rotate \/ ShiftLogical \/ ShiftAlgebraic => F
      BY <1>1, Zenon DEF Rotate, ShiftLogical, ShiftAlgebraic
    <2> QED BY <2>1, <2>2, <2>3, Zenon DEF IntegerNext
  <1>3. SpeNext => F
    <2>1. brinc \/ evabs_addiw \/ evadd_aaw \/ evaddw_and \/ evcmp \/ evcntl \/ evdivw => F
      BY <1>1, Zenon DEF brinc, evabs_addiw, evadd_aaw, evaddw_and, evcmp, evcntl, evdivw
    <2>2. eveqv_ext \/ evmerge \/ evmra \/ evxor => F
      BY <1>1, Zenon DEF eveqv_ext, evmerge, evmra, evxor
    <2>3. evmheg \/ evmhesm \/ evmhessf \/ evmhessi \/ evmheumi \/ evmheusi => F
      BY <1>1, Zenon DEF evmheg, evmhesm, evmhessf, evmhessi, evmheumi, evmheusi
    <2>4. evmhog \/ evmhosm \/ evmhossf \/ evmhossi \/ evmhoumi \/ evmhousi => F
      BY <1>1, Zenon DEF evmhog, evmhosm, evmhossf, evmhossi, evmhoumi, evmhousi
    <2>5. evmwh \/ evmwl \/ evmws \/ evmwssf => F
      BY <1>1, Zenon DEF evmwh, evmwl, evmws, evmwssf
    <2>6. evlogic \/ evrotate_sel \/ evshift_left \/ evshift_right \/ evsubf => F
      BY <1>1, Zenon DEF evlogic, evrotate_sel, evshift_left, evshift_right, evsubf
    <2>7. evfs_sign \/ evfs_arith \/ evfs_compare \/ efd_sign => F
      BY <1>1, Zenon DEF evfs_sign, evfs_arith, evfs_compare, efd_sign
    <2> QED BY <2>1, <2>2, <2>3, <2>4, <2>5, <2>6, <2>7, Zenon DEF SpeNext
  <1>4. F
    BY <1>2, <1>3 DEF Next
  <1> QED BY <1>4 DEF F

\* What an instruction needs of the one before it.
TypeInv ==
    /\ TypeOK
    /\ Len(prog) \in Nat
    /\ \A n \in 1..Len(prog) : IsInstruction(prog[n])

\* A run starts with the registers typed.
LEMMA Starts ==
    ASSUME Init
    PROVE  TypeInv
  <1>1. PICK c \in Cases : prog = c.prog /\ gpr \in c.gprs
    BY DEF Init
  <1>2. /\ gpr \in [Regs -> Doubles] /\ Len(prog) \in Nat
        /\ \A n \in 1..Len(prog) : IsInstruction(prog[n])
    BY <1>1, CasesAssumption
  <1>3. PICK up \in BOOLEAN, carry \in BOOLEAN :
          /\ xer = [so |-> up, ov |-> FALSE, ca |-> carry]
          /\ cr = [f \in CrFields |-> IF up THEN 9 ELSE 4]
          /\ spefscr = [ovh |-> FALSE, ov |-> FALSE, sovh |-> up, sov |-> up, fp |-> up]
    BY DEF Init
  <1>4. xer \in Xers /\ spefscr \in Spefscrs
    BY <1>3, Zenon DEF Xers, Spefscrs
  <1>5. cr \in [CrFields -> 0..15]
    BY <1>3
  <1>6. acc \in Doubles /\ mxcsr \in BOOLEAN
    BY ZeroTypes DEF Init
  <1>7. k = 1 /\ down \in BOOLEAN
    BY DEF Init
  <1>8. k \in 1..(Len(prog) + 1)
    BY <1>2, <1>7
  <1> QED BY <1>2, <1>4, <1>5, <1>6, <1>7, <1>8 DEF TypeInv, TypeOK

\* An instruction leaves them typed.
LEMMA Keeps ==
    ASSUME TypeInv, Next
    PROVE  TypeInv'
  <1>1. k \in 1..Len(prog)
    BY Fetches DEF TypeInv, TypeOK
  <1>2. IsInstruction(ic)
    BY <1>1 DEF TypeInv, ic
  <1>3. Ready
    BY <1>2 DEF TypeInv, TypeOK, Ready, Typed
  <1>4. Typed'
    BY <1>3, IntegerTyped, SpeTyped DEF Next
  <1>5. prog' = prog /\ (k' = k + 1 \/ k' = k)
    BY Steps DEF Goes, Stops
  <1>6. k' \in 1..(Len(prog) + 1) /\ Len(prog)' = Len(prog)
    BY <1>1, <1>5 DEF TypeInv
  <1>7. down' \in BOOLEAN
    BY Steps DEF Goes, Stops, TypeInv, TypeOK
  <1>8. TypeOK'
    BY <1>4, <1>5, <1>6, <1>7 DEF TypeOK, Typed
  <1> QED BY <1>5, <1>8 DEF TypeInv

\* The registers keep to their widths, whatever the instructions and the host's answers:
\* every value of an integer or vector instruction is 64 bits wide, and every nibble of
\* the condition register four.
THEOREM ExecuteTypes == Spec => []TypeOK
  <1>1. Init => TypeInv
    BY Starts
  <1>2. TypeInv /\ [Next]_vars => TypeInv'
    <2>1. TypeInv /\ UNCHANGED vars => TypeInv'
      BY DEF TypeInv, TypeOK, vars
    <2> QED BY <2>1, Keeps
  <1>3. TypeInv => TypeOK
    BY DEF TypeInv
  <1> QED BY <1>1, <1>2, <1>3, PTL DEF Spec

=============================================================================
