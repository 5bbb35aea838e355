---------------------------- MODULE BlocksProofs ----------------------------
(***************************************************************************)
(* Proofs about Blocks, for any number of blocks, pages and contexts, any  *)
(* hash and any length of buffers.                                         *)
(***************************************************************************)
EXTENDS Blocks, TLAPS, FiniteSetTheorems, SequenceTheorems, WellFoundedInduction

---------------------------------------------------------------------------
\* A set of natural numbers that is not empty has a least member: what every induction
\* below goes by, as a least counterexample.
LEMMA LeastNatural ==
    ASSUME NEW S, S \subseteq Nat, S # {}
    PROVE  \E n \in S : \A m \in S : n <= m
  <1>1. \E n \in S : \A m \in S : ~(<<m, n>> \in OpToRel(<, Nat))
    BY NatLessThanWellFounded, WFMin
  <1>2. \A m, n \in Nat : m < n => <<m, n>> \in OpToRel(<, Nat)
    BY Zenon DEF OpToRel
  <1>3. PICK n \in S : \A m \in S : ~(<<m, n>> \in OpToRel(<, Nat))
    BY <1>1
  <1>4. ASSUME NEW m \in S PROVE n <= m
    <2>1. ~(m < n)
      BY <1>2, <1>3
    <2> QED BY <2>1
  <1> QED BY <1>4

\* LeastOf is that member.
LEMMA LeastOfNaturals ==
    ASSUME NEW S, S \subseteq Nat, S # {}
    PROVE  LeastOf(S) \in S /\ \A m \in S : LeastOf(S) <= m
  BY LeastNatural, Zenon DEF LeastOf

---------------------------------------------------------------------------
(* The decoder *)

\* The words the decoder reads can be executed, and are not more than a block holds.
LEMMA ValidWords ==
    ASSUME pc \in Words, ctx \in Contexts
    PROVE  /\ ValidCount \in 0..MAX_BB_INS
           /\ \A n \in 1..ValidCount : pc + n - 1 \in Words /\ pc + n \in Words
  <1>1. MAX_BB_INS \in Nat /\ LastWord \in Nat
    BY BlocksAssumption, SpaceAssumption
  <1>2. Unreadable \subseteq pc..(pc + MAX_BB_INS - 1) /\ Unreadable \subseteq Nat
    BY <1>1 DEF Unreadable, Words
  <1>3. LastWord \in pc..(pc + MAX_BB_INS - 1) => LastWord \in Unreadable
    BY SpaceAssumption DEF Unreadable, Page
  <1>4. CASE Unreadable = {}
    <2>1. ValidCount = MAX_BB_INS /\ LastWord \notin pc..(pc + MAX_BB_INS - 1)
      BY <1>3, <1>4 DEF ValidCount
    <2> QED BY <1>1, <2>1 DEF Words
  <1>5. CASE Unreadable # {}
    <2>1. LeastOf(Unreadable) \in Unreadable /\ \A m \in Unreadable : LeastOf(Unreadable) <= m
      BY <1>2, <1>5, LeastOfNaturals
    <2>2. ValidCount = LeastOf(Unreadable) - pc
      BY <1>5 DEF ValidCount
    <2>3. PICK u \in pc..(pc + MAX_BB_INS - 1) :
              ValidCount = u - pc /\ \A m \in Unreadable : u <= m
      BY <1>2, <2>1, <2>2
    <2>4. u <= LastWord
      BY <1>1, <1>3, <2>3 DEF Words
    <2> QED BY <1>1, <2>3, <2>4 DEF Words
  <1> QED BY <1>4, <1>5

Start == [ops |-> <<>>, buff |-> <<>>, done |-> FALSE]

\* The recursion of the decoder has a solution, which Decoding is.
LEMMA DecodingRuns ==
    ASSUME ValidCount \in Nat
    PROVE  /\ Decoding[0] = Start
           /\ \A n \in 1..ValidCount : Decoding[n] = Decode(Decoding[n - 1], pc + n - 1)
  <1> DEFINE Runs(g, n) ==
                 g = [m \in 0..n |-> IF m = 0 THEN Start ELSE Decode(g[m - 1], pc + m - 1)]
             Bad == {n \in Nat : ~(\E g : Runs(g, n))}
  <1>1. Bad = {}
    <2> SUFFICES ASSUME Bad # {} PROVE FALSE
      OBVIOUS
    <2>1. PICK n \in Bad : \A m \in Bad : n <= m
      BY LeastNatural
    <2>2. CASE n = 0
      <3> DEFINE h == [m \in 0..0 |-> Start]
      <3>1. h = [m \in 0..0 |-> IF m = 0 THEN Start ELSE Decode(h[m - 1], pc + m - 1)]
        OBVIOUS
      <3> QED BY <2>2, <3>1
    <2>3. CASE n # 0
      <3>1. n \in Nat /\ n - 1 \in Nat
        BY <2>3
      <3>2. PICK g : Runs(g, n - 1)
        <4>1. n - 1 \notin Bad
          <5> HIDE DEF Bad
          <5> QED BY <2>1, <3>1
        <4> QED BY <3>1, <4>1
      <3> DEFINE h == [m \in 0..n |-> IF m = n THEN Decode(g[n - 1], pc + n - 1) ELSE g[m]]
      <3>3. \A m \in 0..(n - 1) : h[m] = g[m]
        BY <3>1
      <3>4. ASSUME NEW m \in 0..n
            PROVE  h[m] = IF m = 0 THEN Start ELSE Decode(h[m - 1], pc + m - 1)
        <4>1. CASE m = n
          <5>1. h[m] = Decode(g[n - 1], pc + n - 1) /\ g[n - 1] = h[n - 1]
            BY <3>1, <3>3, <4>1
          <5> HIDE DEF h
          <5> QED BY <2>3, <4>1, <5>1
        <4>2. CASE m # n
          <5>1. m \in 0..(n - 1)
            BY <4>2
          <5>2. g[m] = IF m = 0 THEN Start ELSE Decode(g[m - 1], pc + m - 1)
            BY <3>1, <3>2, <5>1
          <5>3. m # 0 => m - 1 \in 0..(n - 1)
            BY <5>1
          <5> HIDE DEF h
          <5> QED BY <3>3, <5>1, <5>2, <5>3
        <4> QED BY <4>1, <4>2
      <3>5. h = [m \in 0..n |-> h[m]]
        OBVIOUS
      <3> HIDE DEF h
      <3>6. Runs(h, n)
        BY <3>4, <3>5
      <3> QED BY <2>1, <3>6
    <2> QED BY <2>2, <2>3
  <1>2. \E g : Runs(g, ValidCount)
    BY <1>1
  <1>3. Decoding = CHOOSE g : Runs(g, ValidCount)
    BY DEF Decoding, Start
  <1>4. Runs(Decoding, ValidCount)
    <2> HIDE DEF Runs
    <2> QED BY <1>2, <1>3, Zenon
  <1> QED BY <1>4

Ops == Seq([at : Words, kind : Kinds])

\* The first k words from pc on, as instructions.
Word(i)       == [at |-> pc + i - 1, kind |-> code[pc + i - 1]]
FirstWords(k) == [i \in 1..k |-> Word(i)]

\* The fields of an instruction.
LEMMA WordFields ==
    \A i : Word(i).at = pc + i - 1 /\ Word(i).kind = code[pc + i - 1]
  BY DEF Word

\* What the decoder has after n words: all of them, or the ones up to the first branch.
DecodedTo(d, n) ==
    /\ d \in [ops : Ops, buff : Ops, done : BOOLEAN]
    /\ \E k \in 0..n :
          /\ d.ops \o d.buff = FirstWords(k)
          /\ \A i \in 1..(k - 1) : code[pc + i - 1] # "br"
          /\ IF d.done THEN d.buff = <<>> /\ k # 0 /\ code[pc + k - 1] = "br"
                       ELSE k = n /\ \A i \in 1..k : code[pc + i - 1] # "br"

\* Flush loses nothing of what fits into a block.
LEMMA FlushJoins ==
    ASSUME NEW d \in [ops : Ops, buff : Ops, done : BOOLEAN],
           Len(d.ops) + Len(d.buff) <= MAX_BB_INS
    PROVE  Flush(d) = [ops |-> d.ops \o d.buff, buff |-> <<>>, done |-> d.done]
  <1> DEFINE n == Len(d.ops) + Len(d.buff)
             all == d.ops \o d.buff
  <1>1. MAX_BB_INS \in Nat /\ n \in Nat
    BY BlocksAssumption DEF Ops
  <1>2. (IF n < MAX_BB_INS THEN n ELSE MAX_BB_INS) = n
    BY <1>1
  <1>3. all \in Ops /\ Len(all) = n
    BY DEF Ops
  <1>4. SubSeq(all, 1, n) = all
    <2> HIDE DEF all, n
    <2> QED BY <1>3 DEF Ops
  <1>5. Flush(d) = [d EXCEPT !.ops = all, !.buff = <<>>]
    <2>1. Flush(d) = [d EXCEPT !.ops = SubSeq(d.ops \o d.buff, 1,
                                  IF n < MAX_BB_INS THEN n ELSE MAX_BB_INS), !.buff = <<>>]
      BY DEF Flush
    <2> HIDE DEF all, n
    <2> QED BY <1>2, <1>4, <2>1 DEF all
  <1> HIDE DEF all
  <1> QED BY <1>5 DEF all

\* They are instructions at their own addresses.
LEMMA FirstWordsType ==
    ASSUME code \in Codes, pc \in Words, ctx \in Contexts, NEW k \in 0..ValidCount
    PROVE  /\ FirstWords(k) \in Ops /\ Len(FirstWords(k)) = k
           /\ \A i \in 1..k : FirstWords(k)[i] = Word(i)
  <1>1. ValidCount \in Nat /\ \A i \in 1..k : pc + i - 1 \in Words
    BY ValidWords, BlocksAssumption
  <1>2. \A v \in Words : code[v] \in Kinds
    BY SpaceAssumption
  <1>3. k \in Nat
    BY <1>1
  <1>4. \A i \in 1..k : Word(i) \in [at : Words, kind : Kinds]
    BY <1>1, <1>2 DEF Word
  <1> QED BY <1>3, <1>4 DEF FirstWords, Ops

\* The decoder's last assignment.
LEMMA SetDone ==
    ASSUME NEW d \in [ops : Ops, buff : Ops, done : BOOLEAN]
    PROVE  LET e == [d EXCEPT !.done = TRUE]
           IN  /\ e \in [ops : Ops, buff : Ops, done : BOOLEAN]
               /\ e.ops = d.ops /\ e.buff = d.buff /\ e.done
  OBVIOUS

\* A word more.
LEMMA DecodeStep ==
    ASSUME code \in Codes, pc \in Words, ctx \in Contexts,
           NEW n \in 1..ValidCount, NEW d, DecodedTo(d, n - 1)
    PROVE  DecodedTo(Decode(d, pc + n - 1), n)
  <1> DEFINE w == pc + n - 1
             x == [at |-> pc + n - 1, kind |-> code[pc + n - 1]]
             e == IF Len(d.buff) = MAX_TRANS_INS THEN Flush(d) ELSE d
             f == [e EXCEPT !.buff = Append(e.buff, x)]
  <1>1. /\ n \in Nat /\ n <= MAX_BB_INS /\ MAX_BB_INS \in Nat /\ pc \in Nat
        /\ \A i \in 1..n : pc + i - 1 \in Words
        /\ n \in 0..ValidCount /\ \A k \in 0..(n - 1) : k \in 0..ValidCount
    BY ValidWords, BlocksAssumption DEF Words
  <1>2. \A v \in Words : code[v] \in Kinds
    BY SpaceAssumption
  <1>3. d \in [ops : Ops, buff : Ops, done : BOOLEAN]
    BY DEF DecodedTo
  <1>4. PICK k \in 0..(n - 1) :
          /\ d.ops \o d.buff = FirstWords(k)
          /\ \A i \in 1..(k - 1) : code[pc + i - 1] # "br"
          /\ IF d.done THEN d.buff = <<>> /\ k # 0 /\ code[pc + k - 1] = "br"
                       ELSE k = n - 1 /\ \A i \in 1..k : code[pc + i - 1] # "br"
    BY DEF DecodedTo
  <1>5. Len(d.ops) + Len(d.buff) = k
    <2>1. Len(d.ops \o d.buff) = Len(d.ops) + Len(d.buff)
      BY <1>3 DEF Ops
    <2>2. Len(FirstWords(k)) = k
      BY <1>1, FirstWordsType
    <2> QED BY <1>4, <2>1, <2>2
  <1>6. CASE d.done
    <2>1. Decode(d, w) = d
      BY <1>6 DEF Decode
    <2>2. k \in 0..n
      BY <1>1, <1>4
    <2> QED BY <1>3, <1>4, <1>6, <2>1, <2>2 DEF DecodedTo
  <1>7. CASE ~d.done
    <2>1. k = n - 1 /\ \A i \in 1..k : code[pc + i - 1] # "br"
      BY <1>4, <1>7
    <2>2. /\ e \in [ops : Ops, buff : Ops, done : BOOLEAN] /\ e.done = FALSE
          /\ e.ops \o e.buff = FirstWords(k)
      <3>1. CASE Len(d.buff) = MAX_TRANS_INS
        <4>1. e = [ops |-> d.ops \o d.buff, buff |-> <<>>, done |-> d.done]
          <5>1. Len(d.ops) + Len(d.buff) <= MAX_BB_INS
            <6>1. n - 1 <= MAX_BB_INS
              BY <1>1
            <6> QED BY <1>5, <2>1, <6>1
          <5>2. e = Flush(d)
            BY <3>1
          <5> HIDE DEF e
          <5> QED BY <1>3, <5>1, <5>2, FlushJoins
        <4>2. d.ops \o d.buff \in Ops /\ (d.ops \o d.buff) \o <<>> = d.ops \o d.buff
          BY <1>3 DEF Ops
        <4> HIDE DEF e
        <4> QED BY <1>3, <1>4, <1>7, <4>1, <4>2 DEF Ops
      <3>2. CASE Len(d.buff) # MAX_TRANS_INS
        BY <1>3, <1>4, <1>7, <3>2
      <3> QED BY <3>1, <3>2
    <2> HIDE DEF e
    <2>3. x \in [at : Words, kind : Kinds] /\ w = pc + k /\ w \in Words
      BY <1>1, <1>2, <2>1
    <2>4. /\ f \in [ops : Ops, buff : Ops, done : BOOLEAN] /\ f.done = FALSE
          /\ f.ops = e.ops /\ f.buff = Append(e.buff, x)
      <3>1. Append(e.buff, x) \in Ops
        <4> HIDE DEF x
        <4> QED BY <2>2, <2>3 DEF Ops
      <3> HIDE DEF x
      <3> QED BY <2>2, <3>1
    <2>5. f.ops \o f.buff = FirstWords(n)
      <3>1. f.ops \o f.buff = Append(FirstWords(k), x)
        <4>1. e.ops \o Append(e.buff, x) = Append(e.ops \o e.buff, x)
          <5> HIDE DEF x
          <5> QED BY <2>2, <2>3 DEF Ops
        <4> QED BY <2>2, <2>4, <4>1
      <3>2. Append(FirstWords(k), x) = FirstWords(n)
        <4>1. FirstWords(k) \in Ops /\ Len(FirstWords(k)) = k
          BY <1>1, <2>1, FirstWordsType
        <4>2. FirstWords(n) \in Ops /\ Len(FirstWords(n)) = n
          BY <1>1, FirstWordsType
        <4>3. FirstWords(n)[n] = x
          <5>1. FirstWords(n)[n] = Word(n)
            BY <1>1, FirstWordsType
          <5> QED BY <5>1 DEF Word
        <4>4. \A i \in 1..k : FirstWords(k)[i] = FirstWords(n)[i]
          BY <1>1, <2>1, FirstWordsType
        <4> HIDE DEF x
        <4>5. /\ Append(FirstWords(k), x) \in Seq([at : Words, kind : Kinds])
              /\ Len(Append(FirstWords(k), x)) = n
              /\ \A i \in 1..n : Append(FirstWords(k), x)[i] = FirstWords(n)[i]
          BY <1>1, <2>1, <2>3, <4>1, <4>3, <4>4 DEF Ops
        <4> QED BY <4>2, <4>5, SeqEqual DEF Ops
      <3> QED BY <3>1, <3>2
    <2>6. \A i \in 1..(n - 1) : code[pc + i - 1] # "br"
      BY <2>1
    <2>7. Decode(d, w) = IF code[w] = "br" THEN [Flush(f) EXCEPT !.done = TRUE] ELSE f
      BY <1>7 DEF Decode, e
    <2>8. CASE code[w] = "br"
      <3>1. Len(f.ops) + Len(f.buff) = n
        <4>1. Len(FirstWords(n)) = n
          BY <1>1, FirstWordsType
        <4>2. Len(f.ops \o f.buff) = Len(f.ops) + Len(f.buff)
          <5> HIDE DEF f
          <5> QED BY <2>4 DEF Ops
        <4> QED BY <2>5, <4>1, <4>2
      <3> HIDE DEF f, x, w
      <3>2. Flush(f) = [ops |-> f.ops \o f.buff, buff |-> <<>>, done |-> f.done]
        BY <1>1, <2>4, <3>1, FlushJoins
      <3>3. FirstWords(n) \in Ops /\ FirstWords(n) \o <<>> = FirstWords(n) /\ <<>> \in Ops
        <4>1. FirstWords(n) \in Ops
          BY <1>1, FirstWordsType
        <4> QED BY <4>1, ConcatEmptySeq DEF Ops
      <3>4. Decode(d, w) = [Flush(f) EXCEPT !.done = TRUE]
        BY <2>7, <2>8
      <3>5. n \in 0..n /\ n # 0 /\ code[pc + n - 1] = "br"
        BY <1>1, <2>8 DEF w
      <3>6. /\ Flush(f) \in [ops : Ops, buff : Ops, done : BOOLEAN]
            /\ Flush(f).ops = FirstWords(n) /\ Flush(f).buff = <<>>
        BY <2>4, <2>5, <3>2, <3>3
      <3>7. /\ Decode(d, w) \in [ops : Ops, buff : Ops, done : BOOLEAN]
            /\ Decode(d, w).ops = FirstWords(n) /\ Decode(d, w).buff = <<>> /\ Decode(d, w).done
        BY <3>4, <3>6, SetDone
      <3>8. Decode(d, w).ops \o Decode(d, w).buff = FirstWords(n)
        BY <3>3, <3>7
      <3> QED BY <2>6, <3>5, <3>7, <3>8 DEF DecodedTo, w
    <2>9. CASE code[w] # "br"
      <3>1. code[w] # "br"
        BY <1>2, <2>3, <2>9
      <3>2. \A i \in 1..n : code[pc + i - 1] # "br"
        <4>1. \A i \in 1..n : i = n \/ i \in 1..(n - 1)
          BY <1>1
        <4> QED BY <2>6, <3>1, <4>1
      <3>3. Decode(d, w) = f
        BY <2>7, <2>9
      <3>4. n \in 0..n
        BY <1>1
      <3> HIDE DEF f, w, x
      <3>5. /\ Decode(d, w) \in [ops : Ops, buff : Ops, done : BOOLEAN]
            /\ Decode(d, w).ops \o Decode(d, w).buff = FirstWords(n) /\ ~Decode(d, w).done
        BY <2>4, <2>5, <3>3
      <3> QED BY <2>6, <3>2, <3>4, <3>5 DEF DecodedTo, w
    <2> QED BY <2>8, <2>9
  <1> QED BY <1>6, <1>7

\* What translate gets: the words from pc on up to the first branch, or some of the words
\* before it when none comes.
LEMMA DecodedWords ==
    ASSUME code \in Codes, pc \in Words, ctx \in Contexts
    PROVE  DecodedTo(Decoded, ValidCount)
  <1> DEFINE Bad == {n \in 0..ValidCount : ~DecodedTo(Decoding[n], n)}
  <1>1. ValidCount \in Nat
    BY ValidWords, BlocksAssumption
  <1>2. Bad = {}
    <2> SUFFICES ASSUME Bad # {} PROVE FALSE
      OBVIOUS
    <2>1. PICK n \in Bad : \A m \in Bad : n <= m
      <3>1. Bad \subseteq Nat
        BY <1>1
      <3> HIDE DEF Bad
      <3> QED BY <3>1, LeastNatural
    <2>2. CASE n = 0
      <3>1. Decoding[0] = Start
        BY <1>1, DecodingRuns
      <3>2. Start \in [ops : Ops, buff : Ops, done : BOOLEAN] /\ ~Start.done
        BY DEF Start, Ops
      <3>3. Start.ops \o Start.buff = FirstWords(0)
        BY DEF Start, FirstWords
      <3>4. DecodedTo(Start, 0)
        BY <3>2, <3>3 DEF DecodedTo
      <3> QED BY <2>1, <2>2, <3>1, <3>4
    <2>3. CASE n # 0
      <3>1. n \in 1..ValidCount /\ n - 1 \in 0..ValidCount /\ ~(n <= n - 1)
        BY <1>1, <2>3
      <3>2. n - 1 \notin Bad
        <4> HIDE DEF Bad
        <4> QED BY <2>1, <3>1
      <3>3. DecodedTo(Decoding[n - 1], n - 1)
        BY <3>1, <3>2
      <3>4. DecodedTo(Decode(Decoding[n - 1], pc + n - 1), n)
        BY <3>1, <3>3, DecodeStep
      <3>5. Decoding[n] = Decode(Decoding[n - 1], pc + n - 1)
        BY <1>1, <3>1, DecodingRuns
      <3> QED BY <2>1, <3>4, <3>5
    <2> QED BY <2>2, <2>3
  <1>3. DecodedTo(Decoding[ValidCount], ValidCount)
    BY <1>1, <1>2
  <1> QED BY <1>3 DEF Decoded

\* A block is basic: what BlocksAreBasic asks of each.
IsBasic(b) ==
    /\ \A i \in DOMAIN b.ops :
          /\ b.ops[i] = [at |-> b.key.ip + i - 1, kind |-> code[b.ops[i].at]]
          /\ i < Len(b.ops) => b.ops[i].kind # "br"
    /\ b.brtype = "branch" <=> b.ops # <<>> /\ b.ops[Len(b.ops)].kind = "br"

\* A new block is.
LEMMA NewBlockIsBasic ==
    ASSUME code \in Codes, pc \in Words, ctx \in Contexts
    PROVE  /\ Decoded.ops \in Ops /\ Len(Decoded.ops) <= MAX_BB_INS
           /\ IsBasic(NewBlock)
           /\ \A i \in DOMAIN Decoded.ops : Decoded.ops[i].at + 1 \in Words
  <1> DEFINE d == Decoded
  <1>1. d \in [ops : Ops, buff : Ops, done : BOOLEAN]
    BY DecodedWords DEF DecodedTo
  <1>2. PICK k \in 0..ValidCount :
          /\ d.ops \o d.buff = FirstWords(k)
          /\ \A i \in 1..(k - 1) : code[pc + i - 1] # "br"
          /\ IF d.done THEN d.buff = <<>> /\ k # 0 /\ code[pc + k - 1] = "br"
                       ELSE k = ValidCount /\ \A i \in 1..k : code[pc + i - 1] # "br"
    BY DecodedWords DEF DecodedTo
  <1>3. ValidCount \in Nat /\ ValidCount <= MAX_BB_INS /\ k \in Nat /\ MAX_BB_INS \in Nat
    BY ValidWords, BlocksAssumption
  <1>4. /\ FirstWords(k) \in Ops /\ Len(FirstWords(k)) = k
        /\ \A i \in 1..k : FirstWords(k)[i] = Word(i)
    BY FirstWordsType
  <1> DEFINE n == Len(d.ops)
  <1> HIDE DEF d
  <1>5. n \in Nat /\ n <= k /\ \A i \in 1..n : d.ops[i] = FirstWords(k)[i]
    <2>1. Len(d.ops \o d.buff) = Len(d.ops) + Len(d.buff)
      BY <1>1 DEF Ops
    <2>2. \A i \in 1..n : d.ops[i] = (d.ops \o d.buff)[i]
      BY <1>1 DEF Ops
    <2>3. Len(d.ops) \in Nat /\ Len(d.buff) \in Nat
      BY <1>1 DEF Ops
    <2>4. Len(d.ops) + Len(d.buff) = k
      BY <1>2, <1>4, <2>1
    <2>5. \A i \in 1..n : d.ops[i] = FirstWords(k)[i]
      BY <1>2, <2>2
    <2>6. n \in Nat /\ n <= k
      <3>1. \A x, y \in Nat : x + y = k => x <= k
        BY <1>3
      <3> QED BY <2>3, <2>4, <3>1
    <2> QED BY <2>5, <2>6
  <1>6. \A i \in 1..n : d.ops[i] = Word(i)
    BY <1>3, <1>4, <1>5
  <1>7. d.done => n = k /\ n # 0
    <2>1. d.done => d.ops \o <<>> = FirstWords(k)
      BY <1>2
    <2>2. d.ops \o <<>> = d.ops
      BY <1>1 DEF Ops
    <2> QED BY <1>2, <1>4, <2>1, <2>2
  <1>8. d.ops \in Ops /\ DOMAIN d.ops = 1..n /\ (d.ops = <<>> <=> n = 0)
    BY <1>1 DEF Ops
  <1> HIDE DEF n
  <1>9. \A i \in 1..n : i < n => d.ops[i].kind # "br"
    <2>1. ASSUME NEW i \in 1..n, i < n PROVE code[pc + i - 1] # "br"
      <3>1. i \in 1..(k - 1)
        BY <1>3, <1>5, <2>1
      <3> QED BY <1>2, <3>1
    <2> QED BY <1>6, <2>1, WordFields
  <1>10. d.done <=> n # 0 /\ d.ops[n].kind = "br"
    <2>1. CASE d.done
      <3>1. n \in 1..n /\ n # 0 /\ code[pc + n - 1] = "br"
        BY <1>2, <1>5, <1>7, <2>1
      <3>2. d.ops[n].kind = code[pc + n - 1]
        BY <1>6, <3>1, WordFields
      <3> QED BY <2>1, <3>1, <3>2
    <2>2. CASE ~d.done
      <3>1. ASSUME n # 0 PROVE d.ops[n].kind # "br"
        <4>1. n \in 1..n /\ n \in 1..k
          BY <1>3, <1>5, <3>1
        <4>2. code[pc + n - 1] # "br"
          BY <1>2, <2>2, <4>1
        <4>3. d.ops[n].kind = code[pc + n - 1]
          BY <1>6, <4>1, WordFields
        <4> QED BY <4>2, <4>3
      <3> QED BY <2>2, <3>1
    <2> QED BY <2>1, <2>2
  <1>11. /\ NewBlock.ops = d.ops /\ NewBlock.key.ip = pc
         /\ NewBlock.brtype = IF d.done THEN "branch" ELSE "inv"
    BY DEF NewBlock, Key, d
  <1>12. \A i \in 1..n : d.ops[i] = [at |-> pc + i - 1, kind |-> code[d.ops[i].at]]
    <2>1. ASSUME NEW i \in 1..n
          PROVE  d.ops[i] = [at |-> pc + i - 1, kind |-> code[d.ops[i].at]]
      <3>1. d.ops[i] = Word(i) /\ d.ops[i].at = pc + i - 1
        BY <1>6, WordFields
      <3> QED BY <3>1 DEF Word
    <2> QED BY <2>1
  <1>13. IsBasic(NewBlock)
    <2> HIDE DEF NewBlock
    <2>1. NewBlock.brtype = "branch" <=> d.done
      BY <1>1, <1>11
    <2> QED BY <1>8, <1>9, <1>10, <1>11, <1>12, <2>1 DEF IsBasic, n
  <1>14. n <= MAX_BB_INS
    BY <1>3, <1>5
  <1>15. ASSUME NEW i \in 1..n PROVE d.ops[i].at + 1 \in Words
    <2>1. d.ops[i].at = pc + i - 1
      BY <1>6, WordFields
    <2>2. i \in 1..ValidCount /\ pc \in Nat
      BY <1>3, <1>5 DEF Words
    <2>3. pc + i \in Words
      BY <2>2, ValidWords
    <2>4. (pc + i - 1) + 1 = pc + i
      BY <2>2
    <2> QED BY <2>1, <2>3, <2>4
  <1> QED BY <1>8, <1>13, <1>14, <1>15 DEF n, d

---------------------------------------------------------------------------
(* The inductive invariant *)

\* What is in a slot of the table belongs there, and no address is there twice.
Tabled ==
    \A s \in HashSlots : \A i \in DOMAIN sets[s] :
        /\ block[sets[s][i]] # None /\ Slot(block[sets[s][i]].key) = s
        /\ \A j \in DOMAIN sets[s] :
              block[sets[s][i]].key.ip = block[sets[s][j]].key.ip => i = j

\* A block is where its key is looked up.
Found ==
    \A b \in Ids : block[b] # None =>
        \E i \in DOMAIN sets[Slot(block[b].key)] : sets[Slot(block[b].key)][i] = b

\* While the cache lives a block has its list, under its frame.
Listed ==
    state # "gone" =>
        /\ \A b \in Ids : block[b] # None =>
              \E i \in DOMAIN pages : pages[i] = [mfn |-> block[b].key.mfn, bb |-> b]
        /\ \A i, j \in DOMAIN pages : pages[i].bb = pages[j].bb => i = j
        /\ \A i \in DOMAIN pages : block[pages[i].bb] # None

\* A block is basic, and may be followed by another.
Basic ==
    \A b \in Ids : block[b] # None =>
        IsBasic(block[b]) /\ \A i \in DOMAIN block[b].ops : block[b].ops[i].at + 1 \in Words

\* A block was prepared at least once; one that runs, or that was left half prepared, has
\* a reference.
InUse ==
    /\ run # None => block[run] # None
    /\ \A b \in Ids : block[b] # None =>
          /\ block[b].synthops # "null"
          /\ run = b \/ block[b].synthops = "torn" => block[b].refcount > 0

\* The inductive invariant.
Inv == TypeOK /\ Tabled /\ Found /\ Listed /\ Basic /\ InUse

---------------------------------------------------------------------------
(* Types of what the actions look up *)

Keys == [ip : Words, mfn : Frames, ctx : Contexts]

\* A key has a slot in the hash table.
LEMMA SlotType ==
    ASSUME NEW key \in Keys
    PROVE  Slot(key) \in HashSlots
  <1>1. <<key.ip, key.mfn, key.ctx>> \in Words \X Frames \X Contexts
    BY DEF Keys
  <1> QED BY <1>1, SpaceAssumption DEF Slot, HashSlots

\* The parts of a block have their types.
LEMMA BlockTypes ==
    ASSUME TypeOK, NEW b \in Ids, block[b] # None
    PROVE  /\ block[b] \in BasicBlock /\ block[b].key \in Keys /\ block[b].key.mfn \in Frames
           /\ Slot(block[b].key) \in HashSlots /\ block[b].refcount \in Nat
           /\ block[b].refcount <= MaxRefs
           /\ block[b].synthops \in {"null", "ready", "torn"}
  <1>1. block[b] \in BasicBlock /\ block[b].refcount <= MaxRefs
    BY DEF TypeOK
  <1>2. /\ block[b].key \in Keys /\ block[b].refcount \in Nat
        /\ block[b].synthops \in {"null", "ready", "torn"}
    BY <1>1 DEF BasicBlock, Keys
  <1>3. block[b].key.mfn \in Frames
    BY <1>2 DEF Keys
  <1> QED BY <1>1, <1>2, <1>3, SlotType

\* So has a slot of the table.
LEMMA TableTypes ==
    ASSUME TypeOK
    PROVE  /\ \A s \in HashSlots : sets[s] \in Seq(Ids) /\ \A i \in DOMAIN sets[s] : sets[s][i] \in Ids
           /\ DOMAIN sets = HashSlots
  <1>1. \A s \in HashSlots : sets[s] \in Seq(Ids)
    BY DEF TypeOK
  <1> QED BY <1>1 DEF TypeOK

\* Get returns a block of the address that is in the slot of the key, if there is one.
LEMMA GetFinds ==
    ASSUME TypeOK, NEW key \in Keys
    PROVE  /\ Get(key) # None =>
                 /\ Get(key) \in Ids
                 /\ \E i \in DOMAIN sets[Slot(key)] :
                       sets[Slot(key)][i] = Get(key) /\ block[Get(key)].key.ip = key.ip
           /\ Get(key) = None =>
                 \A i \in DOMAIN sets[Slot(key)] : block[sets[Slot(key)][i]].key.ip # key.ip
  <1> DEFINE q == sets[Slot(key)]
             found == {i \in DOMAIN q : block[q[i]].key.ip = key.ip}
  <1>1. q \in Seq(Ids)
    BY SlotType, TableTypes
  <1>2. Get(key) = IF found = {} THEN None ELSE q[LeastOf(found)]
    BY DEF Get
  <1>3. found \subseteq Nat /\ found \subseteq DOMAIN q
    BY <1>1
  <1>4. found # {} => LeastOf(found) \in found
    BY <1>3, LeastOfNaturals
  <1>5. \A i \in found : i \in DOMAIN q /\ q[i] \in Ids /\ block[q[i]].key.ip = key.ip
    BY <1>1
  <1>6. found = {} => \A i \in DOMAIN q : block[q[i]].key.ip # key.ip
    OBVIOUS
  <1> HIDE DEF found, q
  <1>7. found # {} => Get(key) # None
    BY <1>2, <1>4, <1>5, BlocksAssumption
  <1> QED BY <1>2, <1>4, <1>5, <1>6, <1>7 DEF q

\* It exists.
LEMMA GetExists ==
    ASSUME TypeOK, Tabled, NEW key \in Keys, Get(key) # None
    PROVE  Get(key) \in Ids /\ block[Get(key)] # None /\ block[Get(key)] \in BasicBlock
  <1>1. /\ Get(key) \in Ids
        /\ \E i \in DOMAIN sets[Slot(key)] : sets[Slot(key)][i] = Get(key)
    BY GetFinds
  <1>2. block[Get(key)] # None
    BY <1>1, SlotType DEF Tabled
  <1> QED BY <1>1, <1>2, BlockTypes

\* The key of the block to run is one when its page can be read.
LEMMA KeyType ==
    ASSUME TypeOK, Key.mfn \in Frames
    PROVE  Key \in Keys
  BY DEF TypeOK, Key, Keys

\* A block is cached when it is in the table, and that is when it exists.
LEMMA CachedBlocks ==
    ASSUME Inv, NEW b
    PROVE  b \in Cached <=> b \in Ids /\ block[b] # None
  <1>1. TypeOK /\ Tabled /\ Found
    BY DEF Inv
  <1>2. b \in Cached <=> \E s \in HashSlots : \E i \in DOMAIN sets[s] : sets[s][i] = b
    BY <1>1, TableTypes DEF Cached
  <1>3. ASSUME b \in Cached PROVE b \in Ids /\ block[b] # None
    BY <1>1, <1>2, <1>3, TableTypes DEF Tabled
  <1>4. ASSUME b \in Ids, block[b] # None PROVE b \in Cached
    BY <1>1, <1>2, <1>4, BlockTypes DEF Found
  <1> QED BY <1>3, <1>4

---------------------------------------------------------------------------
(* Steps that leave the table and the lists alone *)

\* At first there is no block.
LEMMA InitInv == Init => Inv
  <1> SUFFICES ASSUME Init PROVE Inv
    OBVIOUS
  <1>1. /\ \A b \in Ids : block[b] = None
        /\ \A s \in HashSlots : sets[s] = <<>>
        /\ pages = <<>> /\ run = None /\ state = "up"
    BY DEF Init
  <1>2. TypeOK
    <2>1. block \in [Ids -> BasicBlock \cup {None}] /\ sets \in [HashSlots -> Seq(Ids)]
      BY DEF Init
    <2>2. pages \in Seq(PageLists)
      BY <1>1
    <2>3. code \in Codes /\ pc \in Words /\ ctx \in Contexts
      BY SpaceAssumption DEF Init
    <2> QED BY <1>1, <2>1, <2>2, <2>3 DEF TypeOK
  <1>3. Tabled /\ Found /\ Listed /\ Basic /\ InUse
    BY <1>1 DEF Tabled, Found, Listed, Basic, InUse
  <1> QED BY <1>2, <1>3 DEF Inv

\* The table and the lists stay, and so do the blocks, but for their references and
\* handlers.
Same ==
    /\ UNCHANGED <<code, sets, pages>>
    /\ \A b \in Ids :
          /\ block'[b] = None <=> block[b] = None
          /\ block[b] # None => /\ block'[b].key = block[b].key
                                /\ block'[b].ops = block[b].ops
                                /\ block'[b].brtype = block[b].brtype

\* Then most of the invariant stays.
LEMMA SameInv ==
    ASSUME Inv, Same, TypeOK', InUse', state' # "gone" => state # "gone"
    PROVE  Inv'
  <1>1. TypeOK /\ Tabled /\ Found /\ Listed /\ Basic
    BY DEF Inv
  <1>2. ASSUME NEW b \in Ids, block[b] # None
        PROVE  /\ block'[b] # None /\ block'[b].key = block[b].key
               /\ block'[b].ops = block[b].ops /\ block'[b].brtype = block[b].brtype
               /\ Slot(block'[b].key) = Slot(block[b].key)
    BY <1>2 DEF Same
  <1>3. \A s \in HashSlots : \A i \in DOMAIN sets[s] : sets[s][i] \in Ids /\ block[sets[s][i]] # None
    BY <1>1, TableTypes DEF Tabled
  <1>4. Tabled'
    <2> SUFFICES ASSUME NEW s \in HashSlots, NEW i \in DOMAIN sets'[s]
                 PROVE  /\ block'[sets'[s][i]] # None /\ Slot(block'[sets'[s][i]].key) = s
                        /\ \A j \in DOMAIN sets'[s] :
                              block'[sets'[s][i]].key.ip = block'[sets'[s][j]].key.ip => i = j
      BY DEF Tabled, Slot
    <2>1. sets' = sets
      BY DEF Same
    <2> QED BY <1>1, <1>2, <1>3, <2>1 DEF Tabled
  <1>5. Found'
    <2> SUFFICES ASSUME NEW b \in Ids, block'[b] # None
                 PROVE  \E i \in DOMAIN sets'[Slot(block'[b].key)] :
                            sets'[Slot(block'[b].key)][i] = b
      BY DEF Found, Slot
    <2>1. sets' = sets /\ block[b] # None
      BY DEF Same
    <2> QED BY <1>1, <1>2, <2>1 DEF Found
  <1>6. Listed'
    <2>1. pages' = pages
      BY DEF Same
    <2>2. CASE state' # "gone"
      <3>1. \A i \in DOMAIN pages : pages[i].bb \in Ids
        <4>1. pages \in Seq(PageLists)
          BY <1>1 DEF TypeOK
        <4>2. \A i \in DOMAIN pages : pages[i] \in PageLists
          BY <4>1
        <4> QED BY <4>2 DEF PageLists
      <3> QED BY <1>1, <1>2, <2>1, <2>2, <3>1 DEF Listed, Same
    <2>3. CASE state' = "gone"
      BY <2>3 DEF Listed
    <2> QED BY <2>2, <2>3
  <1>7. Basic'
    <2> SUFFICES ASSUME NEW b \in Ids, block'[b] # None
                 PROVE  /\ IsBasic(block[b])
                        /\ \A i \in DOMAIN block[b].ops : block[b].ops[i].at + 1 \in Words
      BY <1>2 DEF Basic, IsBasic, Same
    <2> QED BY <1>1 DEF Basic, Same
  <1> QED BY <1>4, <1>5, <1>6, <1>7 DEF Inv

\* Holding a block changes its references and handlers alone.
LEMMA HeldBlock ==
    ASSUME NEW b \in BasicBlock
    PROVE  /\ Held(b) \in BasicBlock /\ Held(b).refcount = b.refcount + 1
           /\ Held(b).key = b.key /\ Held(b).ops = b.ops /\ Held(b).brtype = b.brtype
           /\ Held(b).synthops # "null"
           /\ b.refcount \in Nat
  <1>1. b.refcount + 1 \in Nat /\ b.refcount \in Nat
    BY DEF BasicBlock
  <1> DEFINE n == b.refcount + 1
             h == IF b.synthops # "null" THEN b.synthops
                  ELSE IF Unprepared(b) THEN "torn" ELSE "ready"
  <1>2. Held(b) = [b EXCEPT !.synthops = h, !.refcount = n]
    BY DEF Held, Prepared, BasicBlock
  <1>3. h \in {"ready", "torn"}
    BY DEF BasicBlock
  <1> HIDE DEF n, h
  <1>4. /\ Held(b) \in BasicBlock /\ Held(b).refcount = n
        /\ Held(b).key = b.key /\ Held(b).ops = b.ops /\ Held(b).brtype = b.brtype
        /\ Held(b).synthops = h
    BY <1>1, <1>2, <1>3 DEF BasicBlock, n
  <1> QED BY <1>1, <1>3, <1>4 DEF n

\* Letting go of it changes its references alone.
LEMMA LetGoBlock ==
    ASSUME NEW b \in BasicBlock, b.refcount > 0
    PROVE  /\ LetGo(b) \in BasicBlock /\ LetGo(b).refcount = b.refcount - 1
           /\ LetGo(b).key = b.key /\ LetGo(b).ops = b.ops /\ LetGo(b).brtype = b.brtype
           /\ LetGo(b).synthops = b.synthops
           /\ b.refcount \in Nat
  <1>1. b.refcount - 1 \in Nat /\ b.refcount \in Nat
    BY DEF BasicBlock
  <1> DEFINE n == b.refcount - 1
  <1>2. LetGo(b) = [b EXCEPT !.refcount = n]
    BY DEF LetGo
  <1> HIDE DEF n
  <1>3. /\ LetGo(b) \in BasicBlock /\ LetGo(b).refcount = n
        /\ LetGo(b).key = b.key /\ LetGo(b).ops = b.ops /\ LetGo(b).brtype = b.brtype
        /\ LetGo(b).synthops = b.synthops
    BY <1>1, <1>2 DEF BasicBlock, n
  <1> QED BY <1>1, <1>3 DEF n

\* One block is replaced by one that differs in its references and handlers.
LEMMA OneChanges ==
    ASSUME Inv, UNCHANGED <<code, sets, pages>>, NEW b \in Ids, block[b] # None,
           NEW new \in BasicBlock, new.refcount <= MaxRefs,
           new.key = block[b].key, new.ops = block[b].ops, new.brtype = block[b].brtype,
           block' = [block EXCEPT ![b] = new],
           pc' \in Words, ctx' \in Contexts, run' \in {b, None},
           state' \in {"up", "ended", "crashed"}, state # "gone",
           new.synthops # "null", run \in {b, None},
           run' = b \/ new.synthops = "torn" => new.refcount > 0
    PROVE  Inv'
  <1>1. TypeOK /\ InUse /\ block \in [Ids -> BasicBlock \cup {None}]
    BY DEF Inv, TypeOK
  <1>2. block' \in [Ids -> BasicBlock \cup {None}]
    BY <1>1
  <1>3. \A x \in Ids : block'[x] = IF x = b THEN new ELSE block[x]
    BY <1>1
  <1>4. new # None /\ b # None
    BY BlocksAssumption
  <1>5. \A x \in Ids : block'[x] # None =>
            Len(block'[x].ops) <= MAX_BB_INS /\ block'[x].refcount <= MaxRefs
    BY <1>1, <1>3 DEF TypeOK
  <1>6. TypeOK'
    BY <1>1, <1>2, <1>5 DEF TypeOK
  <1>7. Same
    BY <1>3, <1>4 DEF Same
  <1>8. InUse'
    <2>1. run' # None => block'[run'] # None
      BY <1>3, <1>4
    <2>2. ASSUME NEW x \in Ids, block'[x] # None
          PROVE  /\ block'[x].synthops # "null"
                 /\ run' = x \/ block'[x].synthops = "torn" => block'[x].refcount > 0
      <3>1. CASE x = b
        BY <1>3, <3>1
      <3>2. CASE x # b
        <4>1. run' # x
          BY <3>2, BlocksAssumption
        <4> QED BY <1>1, <1>3, <2>2, <3>2, <4>1 DEF InUse
      <3> QED BY <3>1, <3>2
    <2> QED BY <2>1, <2>2 DEF InUse
  <1> QED BY <1>6, <1>7, <1>8, SameInv

\* A hit takes a reference.
LEMMA HitKeeps == ASSUME Inv, Hit PROVE Inv'
  <1> DEFINE b == Get(Key)
             new == Held(block[b])
  <1>1. /\ state = "up" /\ run = None /\ Key.mfn \in Frames /\ b # None
        /\ block[b].refcount < MaxRefs /\ block' = [block EXCEPT ![b] = new]
        /\ run' \in {b, None} /\ state' \in {"up", "ended"}
        /\ UNCHANGED <<code, sets, pages, pc, ctx>>
    BY DEF Hit, Idle, Enter
  <1>2. TypeOK /\ Tabled /\ pc \in Words /\ ctx \in Contexts
    BY DEF Inv, TypeOK
  <1>3. b \in Ids /\ block[b] # None /\ block[b] \in BasicBlock
    BY <1>1, <1>2, KeyType, GetExists
  <1> HIDE DEF b
  <1>4. /\ new \in BasicBlock /\ new.refcount = block[b].refcount + 1
        /\ new.key = block[b].key /\ new.ops = block[b].ops /\ new.brtype = block[b].brtype
        /\ new.synthops # "null" /\ block[b].refcount \in Nat
    BY <1>3, HeldBlock
  <1> HIDE DEF new
  <1>5. new.refcount <= MaxRefs /\ new.refcount > 0
    <2>1. MaxRefs \in Nat
      BY BlocksAssumption
    <2> QED BY <1>1, <1>4, <2>1
  <1> QED BY <1>1, <1>2, <1>3, <1>4, <1>5, OneChanges

\* A step that leaves the blocks and what they are in alone.
LEMMA ElsewhereKeeps ==
    ASSUME Inv, UNCHANGED <<code, block, sets, pages>>,
           pc' \in Words, ctx' \in Contexts, run' \in {run, None},
           state' \in {"up", "ended", "crashed"}, state # "gone"
    PROVE  Inv'
  <1>1. TypeOK /\ InUse
    BY DEF Inv
  <1>2. TypeOK'
    BY <1>1 DEF TypeOK
  <1>3. InUse'
    <2>1. \A b \in Ids : run' = b => run = b
      BY BlocksAssumption
    <2> QED BY <1>1, <2>1 DEF InUse
  <1>4. Same
    BY DEF Same
  <1> QED BY <1>2, <1>3, <1>4, SameInv

\* Errors, exceptions, a new thread and the end of the process do.
LEMMA OthersKeep ==
    ASSUME Inv, \/ TranslateFatal \/ Fault \/ Restart \/ Throw \/ CallWild
                \/ \E key \in {block[b].key : b \in Cached} : Invalidate(key)
    PROVE  Inv'
  <1>1. pc \in Words /\ ctx \in Contexts
    BY DEF Inv, TypeOK
  <1>2. Vector \in Words /\ \A c \in Contexts : Interrupted[c] \in Contexts
    BY SpaceAssumption
  <1>3. CASE TranslateFatal
    BY <1>1, <1>3, ElsewhereKeeps DEF TranslateFatal, Idle
  <1>4. CASE Fault
    BY <1>1, <1>2, <1>4, ElsewhereKeeps DEF Fault, Idle
  <1>5. CASE Restart
    BY <1>1, <1>5, ElsewhereKeeps DEF Restart
  <1>6. CASE Throw
    <2>1. /\ state = "up" /\ UNCHANGED <<code, block, sets, pages, state>>
          /\ run' = None /\ pc' = Vector /\ \E c \in Contexts : ctx' = Interrupted[c]
      BY <1>6 DEF Throw, Running
    <2> QED BY <1>2, <2>1, ElsewhereKeeps
  <1>7. CASE CallWild
    BY <1>1, <1>7, ElsewhereKeeps DEF CallWild, Running
  <1>8. CASE (\E key \in {block[b].key : b \in Cached} : Invalidate(key))
    <2>1. PICK key \in {block[b].key : b \in Cached} : Invalidate(key)
      BY <1>8
    <2> QED BY <1>1, <2>1, ElsewhereKeeps DEF Invalidate
  <1> QED BY <1>3, <1>4, <1>5, <1>6, <1>7, <1>8

\* The addresses of a block that exists, and those behind them, are words.
LEMMA OpsWords ==
    ASSUME Inv, NEW b \in Ids, block[b] # None, NEW i \in DOMAIN block[b].ops
    PROVE  block[b].ops[i].at \in Words /\ block[b].ops[i].at + 1 \in Words
  <1>1. block[b].ops \in Seq([at : Words, kind : Kinds])
    BY BlockTypes DEF Inv, BasicBlock
  <1>2. block[b].ops[i].at \in Words
    <2> DEFINE ops == block[b].ops
               T == [at : Words, kind : Kinds]
    <2>1. ops \in Seq(T) /\ i \in DOMAIN ops
      BY <1>1
    <2> HIDE DEF ops, T
    <2>2. ops[i] \in T
      BY <2>1
    <2> QED BY <2>2 DEF ops, T
  <1>3. block[b].ops[i].at + 1 \in Words
    BY DEF Inv, Basic
  <1> QED BY <1>2, <1>3

\* An error in a block leaves PC in it.
LEMMA ThrowFatalKeeps == ASSUME Inv, ThrowFatal PROVE Inv'
  <1>1. /\ state = "up" /\ run # None /\ run' = None /\ state' = "ended" /\ ctx' \in Contexts
        /\ UNCHANGED <<code, block, sets, pages>>
    BY DEF ThrowFatal, Running
  <1>2. PICK i \in DOMAIN block[run].ops : pc' = block[run].ops[i].at
    BY DEF ThrowFatal, Executed
  <1>3. run \in Ids /\ block[run] # None
    BY <1>1 DEF Inv, TypeOK, InUse
  <1>4. pc' \in Words
    BY <1>2, <1>3, OpsWords
  <1> QED BY <1>1, <1>4, ElsewhereKeeps

\* A block that ends gives its reference back.
LEMMA FinishKeeps == ASSUME Inv, Finish PROVE Inv'
  <1> DEFINE b == run
             ops == block[b].ops
             new == LetGo(block[b])
  <1>1. /\ state = "up" /\ b # None /\ block[b].synthops = "ready"
        /\ block' = [block EXCEPT ![b] = new] /\ run' = None
        /\ IF ops = <<>> THEN UNCHANGED <<pc, ctx>>
           ELSE ctx' \in Contexts /\ pc' \in Entries \cup {ops[Len(ops)].at + 1}
        /\ UNCHANGED <<code, sets, pages, state>>
    BY DEF Finish, Running
  <1>2. TypeOK /\ InUse /\ pc \in Words /\ ctx \in Contexts /\ b \in Ids \cup {None}
    BY DEF Inv, TypeOK
  <1>3. /\ b \in Ids /\ block[b] # None /\ block[b].refcount > 0 /\ block[b] \in BasicBlock
        /\ block[b].refcount <= MaxRefs
    BY <1>1, <1>2, BlockTypes DEF InUse
  <1>4. /\ new \in BasicBlock /\ new.refcount = block[b].refcount - 1
        /\ new.key = block[b].key /\ new.ops = ops /\ new.brtype = block[b].brtype
        /\ new.synthops = "ready" /\ block[b].refcount \in Nat
    BY <1>1, <1>3, LetGoBlock
  <1> HIDE DEF new
  <1>5. new.refcount <= MaxRefs
    <2>1. MaxRefs \in Nat
      BY BlocksAssumption
    <2> QED BY <1>3, <1>4, <2>1
  <1>6. pc' \in Words /\ ctx' \in Contexts
    <2>1. CASE ops = <<>>
      BY <1>1, <1>2, <2>1
    <2>2. CASE ops # <<>>
      <3>1. ops \in Seq([at : Words, kind : Kinds])
        BY <1>3 DEF BasicBlock
      <3>2. Len(ops) \in DOMAIN ops
        BY <2>2, <3>1
      <3>3. ops[Len(ops)].at + 1 \in Words
        BY <1>3, <3>2, OpsWords
      <3> QED BY <1>1, <2>2, <3>3, SpaceAssumption
    <2> QED BY <2>1, <2>2
  <1> HIDE DEF ops
  <1>7. run' # b /\ run' \in {b, None} /\ run \in {b, None}
    BY <1>1
  <1> HIDE DEF b
  <1> QED BY <1>1, <1>3, <1>4, <1>5, <1>6, <1>7, OneChanges DEF ops

\* The destructor leaves the table as it was, and has no list left or ends the process.
LEMMA DestroyKeeps == ASSUME Inv, Destroy PROVE Inv'
  <1>1. /\ UNCHANGED <<code, block, sets, pc, ctx, run>> /\ state # "gone"
        /\ \/ state' = "crashed" /\ UNCHANGED pages
           \/ state' = "gone" /\ pages' = <<>>
    BY DEF Destroy
  <1>2. pc \in Words /\ ctx \in Contexts
    BY DEF Inv, TypeOK
  <1>3. CASE state' = "crashed" /\ UNCHANGED pages
    BY <1>1, <1>2, <1>3, ElsewhereKeeps
  <1>4. CASE state' = "gone" /\ pages' = <<>>
    <2>1. TypeOK /\ Tabled /\ Found /\ Basic /\ InUse
      BY DEF Inv
    <2>2. pages' \in Seq(PageLists)
      BY <1>4
    <2>3. TypeOK'
      BY <1>1, <1>4, <2>1, <2>2 DEF TypeOK
    <2>4. Tabled' /\ Found' /\ Basic' /\ InUse'
      BY <1>1, <2>1 DEF Tabled, Found, Basic, InUse, IsBasic, Slot
    <2>5. Listed'
      BY <1>4 DEF Listed
    <2> QED BY <2>3, <2>4, <2>5 DEF Inv
  <1> QED BY <1>1, <1>3, <1>4

---------------------------------------------------------------------------
(* A new block *)

\* What translate makes is a block.
LEMMA NewBlockType ==
    ASSUME TypeOK, Key.mfn \in Frames
    PROVE  /\ NewBlock \in BasicBlock /\ NewBlock.refcount = 0 /\ NewBlock.key = Key
           /\ NewBlock.ops = Decoded.ops
  <1>1. code \in Codes /\ pc \in Words /\ ctx \in Contexts
    BY DEF TypeOK
  <1>2. Decoded.ops \in Ops
    BY <1>1, NewBlockIsBasic
  <1>3. Key \in [ip : Words, mfn : Frames, ctx : Contexts]
    BY KeyType DEF Keys
  <1> DEFINE ops == Decoded.ops
             key == Key
             kind == IF Decoded.done THEN "branch" ELSE "inv"
  <1>4. NewBlock = [key |-> key, ops |-> ops, brtype |-> kind, synthops |-> "null",
                    refcount |-> 0]
    BY DEF NewBlock
  <1>5. kind \in {"branch", "inv"}
    OBVIOUS
  <1>6. ops \in Seq([at : Words, kind : Kinds])
    BY <1>2 DEF Ops
  <1> HIDE DEF ops, key, kind
  <1>7. NewBlock \in BasicBlock /\ NewBlock.refcount = 0 /\ NewBlock.key = key
        /\ NewBlock.ops = ops
    <2>1. key \in [ip : Words, mfn : Frames, ctx : Contexts]
      BY <1>3 DEF key
    <2> QED BY <1>4, <1>5, <1>6, <2>1 DEF BasicBlock
  <1> QED BY <1>7 DEF key, ops

\* In front of a list.
LEMMA InFront ==
    ASSUME NEW T, NEW s \in Seq(T), NEW b \in T
    PROVE  /\ <<b>> \o s \in Seq(T)
           /\ \A i \in DOMAIN (<<b>> \o s) :
                 \/ i = 1 /\ (<<b>> \o s)[i] = b
                 \/ i # 1 /\ i - 1 \in DOMAIN s /\ (<<b>> \o s)[i] = s[i - 1]
           /\ \A i \in DOMAIN (<<b>> \o s), j \in DOMAIN (<<b>> \o s) : i - 1 = j - 1 => i = j
           /\ 1 \in DOMAIN (<<b>> \o s) /\ (<<b>> \o s)[1] = b
           /\ \A i \in DOMAIN s : i + 1 \in DOMAIN (<<b>> \o s) /\ (<<b>> \o s)[i + 1] = s[i]
  <1> DEFINE t == <<b>> \o s
  <1>1. /\ t \in Seq(T) /\ DOMAIN t = 1..(Len(s) + 1) /\ Len(s) \in Nat /\ DOMAIN s = 1..Len(s)
        /\ t[1] = b /\ \A i \in 1..Len(s) : t[i + 1] = s[i]
    OBVIOUS
  <1> HIDE DEF t
  <1>2. ASSUME NEW i \in DOMAIN t
        PROVE  \/ i = 1 /\ t[i] = b
               \/ i # 1 /\ i - 1 \in DOMAIN s /\ t[i] = s[i - 1]
    <2>1. CASE i = 1
      BY <1>1, <2>1
    <2>2. CASE i # 1
      <3>1. i - 1 \in 1..Len(s) /\ i = (i - 1) + 1
        BY <1>1, <2>2
      <3> QED BY <1>1, <2>2, <3>1
    <2> QED BY <2>1, <2>2
  <1>3. 1 \in DOMAIN t /\ \A i \in DOMAIN s : i + 1 \in DOMAIN t /\ t[i + 1] = s[i]
    BY <1>1
  <1>4. \A i \in DOMAIN t, j \in DOMAIN t : i - 1 = j - 1 => i = j
    BY <1>1
  <1> QED BY <1>1, <1>2, <1>3, <1>4 DEF t

\* A block that was not found is translated, and found from then on.
LEMMA TranslateKeeps == ASSUME Inv, Translate PROVE Inv'
  <1> DEFINE new == Held(NewBlock)
             S == Slot(Key)
             item(b) == [mfn |-> Key.mfn, bb |-> b]
  <1>1. state = "up" /\ run = None /\ Key.mfn \in Frames /\ Get(Key) = None
        /\ UNCHANGED <<code, pc, ctx>>
    BY DEF Translate, Idle
  <1>2. PICK b \in Ids :
          /\ block[b] = None
          /\ block' = [block EXCEPT ![b] = new]
          /\ sets' = [sets EXCEPT ![S] = <<b>> \o sets[S]]
          /\ pages' = <<item(b)>> \o pages
          /\ run' \in {b, None} /\ state' \in {"up", "ended"}
    BY <1>1 DEF Translate, Enter, Add
  <1>3. TypeOK /\ Tabled /\ Found /\ Listed /\ Basic /\ InUse
    BY DEF Inv
  <1>4. /\ code \in Codes /\ block \in [Ids -> BasicBlock \cup {None}]
        /\ sets \in [HashSlots -> Seq(Ids)] /\ pages \in Seq(PageLists)
        /\ pc \in Words /\ ctx \in Contexts
    BY <1>3 DEF TypeOK
  <1>5. Key \in Keys /\ S \in HashSlots /\ sets[S] \in Seq(Ids)
    BY <1>1, <1>3, <1>4, KeyType, SlotType
  <1>6. \A i \in DOMAIN sets[S] : block[sets[S][i]].key.ip # Key.ip
    BY <1>1, <1>3, <1>5, GetFinds
  <1>7. /\ new \in BasicBlock /\ new.refcount = 1 /\ new.key = Key
        /\ new.ops = Decoded.ops /\ new.brtype = NewBlock.brtype /\ new.synthops # "null"
        /\ NewBlock.ops = Decoded.ops /\ NewBlock.key = Key
    <2>1. NewBlock \in BasicBlock /\ NewBlock.refcount = 0 /\ NewBlock.key = Key
          /\ NewBlock.ops = Decoded.ops
      BY <1>1, <1>3, NewBlockType
    <2> HIDE DEF new
    <2>2. 0 + 1 = 1
      OBVIOUS
    <2> QED BY <2>1, <2>2, HeldBlock DEF new
  <1>8. new # None /\ b # None
    BY <1>7, BlocksAssumption
  <1>9. IsBasic(NewBlock) /\ Len(Decoded.ops) <= MAX_BB_INS
        /\ \A i \in DOMAIN Decoded.ops : Decoded.ops[i].at + 1 \in Words
    BY <1>4, NewBlockIsBasic
  <1> HIDE DEF new, S
  <1>10. \A x \in Ids : block'[x] = IF x = b THEN new ELSE block[x]
    BY <1>2, <1>4
  <1>11. \A x \in Ids : block[x] # None => x # b /\ block'[x] = block[x]
    BY <1>2, <1>10
  <1>12. /\ sets'[S] = <<b>> \o sets[S] /\ \A s \in HashSlots : s # S => sets'[s] = sets[s]
         /\ sets' \in [HashSlots -> Seq(Ids)]
    BY <1>2, <1>4, <1>5, InFront
  <1>13. item(b) \in PageLists /\ item(b).bb = b /\ item(b).mfn = Key.mfn
    BY <1>1 DEF PageLists
  <1>14. /\ pages' \in Seq(PageLists)
         /\ \A i \in DOMAIN pages' :
               \/ i = 1 /\ pages'[i] = item(b)
               \/ i # 1 /\ i - 1 \in DOMAIN pages /\ pages'[i] = pages[i - 1]
         /\ \A i \in DOMAIN pages', j \in DOMAIN pages' : i - 1 = j - 1 => i = j
         /\ 1 \in DOMAIN pages' /\ pages'[1] = item(b)
         /\ \A i \in DOMAIN pages : i + 1 \in DOMAIN pages' /\ pages'[i + 1] = pages[i]
    <2> HIDE DEF item
    <2>1. pages' = <<item(b)>> \o pages
      BY <1>2
    <2> QED BY <1>4, <1>13, <2>1, InFront
  <1>15. /\ \A i \in DOMAIN sets'[S] :
               \/ i = 1 /\ sets'[S][i] = b
               \/ i # 1 /\ i - 1 \in DOMAIN sets[S] /\ sets'[S][i] = sets[S][i - 1]
         /\ \A i \in DOMAIN sets'[S], j \in DOMAIN sets'[S] : i - 1 = j - 1 => i = j
         /\ 1 \in DOMAIN sets'[S] /\ sets'[S][1] = b
         /\ \A i \in DOMAIN sets[S] : i + 1 \in DOMAIN sets'[S] /\ sets'[S][i + 1] = sets[S][i]
    BY <1>5, <1>12, InFront
  <1>16. \A s \in HashSlots : \A i \in DOMAIN sets[s] :
             sets[s][i] \in Ids /\ block[sets[s][i]] # None /\ block'[sets[s][i]] = block[sets[s][i]]
    BY <1>3, <1>11, TableTypes DEF Tabled
  <1>17. TypeOK'
    <2>1. block' \in [Ids -> BasicBlock \cup {None}]
      BY <1>2, <1>4, <1>7
    <2>2. 1 <= MaxRefs
      BY BlocksAssumption
    <2>3. \A x \in Ids : block'[x] # None =>
              Len(block'[x].ops) <= MAX_BB_INS /\ block'[x].refcount <= MaxRefs
      BY <1>3, <1>7, <1>9, <1>10, <2>2 DEF TypeOK
    <2>4. run' \in Ids \cup {None} /\ state' \in {"up", "ended", "crashed", "gone"}
      BY <1>2
    <2> HIDE DEF item
    <2> QED BY <1>1, <1>4, <1>12, <1>14, <2>1, <2>3, <2>4 DEF TypeOK
  <1>18. Tabled'
    <2> SUFFICES ASSUME NEW s \in HashSlots, NEW i \in DOMAIN sets'[s]
                 PROVE  /\ block'[sets'[s][i]] # None /\ Slot(block'[sets'[s][i]].key) = s
                        /\ \A j \in DOMAIN sets'[s] :
                              block'[sets'[s][i]].key.ip = block'[sets'[s][j]].key.ip => i = j
      BY DEF Tabled, Slot
    <2>1. CASE s # S
      <3>1. sets'[s] = sets[s]
        BY <1>12, <2>1
      <3> QED BY <1>3, <1>16, <3>1 DEF Tabled
    <2>2. CASE s = S
      <3>1. block'[b] = new /\ Slot(new.key) = S /\ new.key.ip = Key.ip
        BY <1>7, <1>10 DEF S
      <3>2. ASSUME NEW k \in DOMAIN sets'[S], k # 1
            PROVE  /\ k - 1 \in DOMAIN sets[S]
                   /\ block'[sets'[S][k]] = block[sets[S][k - 1]]
                   /\ block[sets[S][k - 1]] # None
                   /\ Slot(block[sets[S][k - 1]].key) = S
                   /\ block[sets[S][k - 1]].key.ip # Key.ip
        <4>1. k - 1 \in DOMAIN sets[S] /\ sets'[S][k] = sets[S][k - 1]
          BY <1>15, <3>2
        <4> QED BY <1>3, <1>5, <1>6, <1>16, <4>1 DEF Tabled
      <3>3. block'[sets'[S][1]] = new
        BY <1>15, <3>1
      <3>4. block'[sets'[S][i]] # None /\ Slot(block'[sets'[S][i]].key) = S
        <4>1. CASE i = 1
          BY <1>8, <3>1, <3>3, <4>1
        <4>2. CASE i # 1
          BY <2>2, <3>2, <4>2
        <4> QED BY <4>1, <4>2
      <3>5. ASSUME NEW j \in DOMAIN sets'[S],
                   block'[sets'[S][i]].key.ip = block'[sets'[S][j]].key.ip
            PROVE  i = j
        <4>1. CASE i = 1 \/ j = 1
          BY <2>2, <3>1, <3>2, <3>3, <3>5, <4>1
        <4>2. CASE i # 1 /\ j # 1
          <5>1. i - 1 \in DOMAIN sets[S] /\ j - 1 \in DOMAIN sets[S]
            BY <2>2, <3>2, <4>2
          <5>2. block[sets[S][i - 1]].key.ip = block[sets[S][j - 1]].key.ip
            BY <2>2, <3>2, <3>5, <4>2
          <5>3. i - 1 = j - 1
            BY <1>3, <1>5, <5>1, <5>2 DEF Tabled
          <5> QED BY <1>15, <2>2, <5>3
        <4> QED BY <4>1, <4>2
      <3> QED BY <2>2, <3>4, <3>5
    <2> QED BY <2>1, <2>2
  <1>19. Found'
    <2> SUFFICES ASSUME NEW x \in Ids, block'[x] # None
                 PROVE  \E i \in DOMAIN sets'[Slot(block'[x].key)] :
                            sets'[Slot(block'[x].key)][i] = x
      BY DEF Found, Slot
    <2>1. CASE x = b
      <3>1. Slot(block'[x].key) = S
        BY <1>7, <1>10, <2>1 DEF S
      <3> QED BY <1>15, <2>1, <3>1
    <2>2. CASE x # b
      <3>1. block[x] # None /\ block'[x] = block[x]
        BY <1>10, <2>2
      <3>2. PICK i \in DOMAIN sets[Slot(block[x].key)] : sets[Slot(block[x].key)][i] = x
        BY <1>3, <3>1 DEF Found
      <3>3. Slot(block[x].key) \in HashSlots
        BY <1>3, <3>1, BlockTypes
      <3>4. CASE Slot(block[x].key) = S
        <4>1. i + 1 \in DOMAIN sets'[S] /\ sets'[S][i + 1] = x
          BY <1>15, <3>2, <3>4
        <4> QED BY <3>1, <3>4, <4>1
      <3>5. CASE Slot(block[x].key) # S
        <4>1. sets'[Slot(block[x].key)] = sets[Slot(block[x].key)]
          BY <1>12, <3>3, <3>5
        <4> QED BY <3>1, <3>2, <4>1
      <3> QED BY <3>4, <3>5
    <2> QED BY <2>1, <2>2
  <1>20. Listed'
    <2> HIDE DEF item
    <2>1. \A i \in DOMAIN pages : pages[i].bb \in Ids /\ block[pages[i].bb] # None /\ pages[i].bb # b
      <3>1. pages \in Seq(PageLists)
        BY <1>4
      <3>2. \A i \in DOMAIN pages : pages[i] \in PageLists
        BY <3>1
      <3>3. \A i \in DOMAIN pages : block[pages[i].bb] # None
        BY <1>1, <1>3 DEF Listed
      <3> QED BY <1>2, <3>2, <3>3 DEF PageLists
    <2>2. ASSUME NEW x \in Ids, block'[x] # None
          PROVE  \E i \in DOMAIN pages' : pages'[i] = [mfn |-> block'[x].key.mfn, bb |-> x]
      <3>1. CASE x = b
        BY <1>7, <1>10, <1>14, <3>1 DEF item
      <3>2. CASE x # b
        <4>1. block[x] # None /\ block'[x] = block[x]
          BY <1>10, <2>2, <3>2
        <4>2. PICK i \in DOMAIN pages : pages[i] = [mfn |-> block[x].key.mfn, bb |-> x]
          BY <1>1, <1>3, <4>1 DEF Listed
        <4>3. i + 1 \in DOMAIN pages' /\ pages'[i + 1] = pages[i]
          BY <1>14
        <4> QED BY <4>1, <4>2, <4>3
      <3> QED BY <3>1, <3>2
    <2>3. ASSUME NEW i \in DOMAIN pages', NEW j \in DOMAIN pages', pages'[i].bb = pages'[j].bb
          PROVE  i = j
      <3>1. CASE i = 1 \/ j = 1
        BY <1>13, <1>14, <2>1, <2>3, <3>1
      <3>2. CASE i # 1 /\ j # 1
        <4>1. /\ i - 1 \in DOMAIN pages /\ j - 1 \in DOMAIN pages
              /\ pages[i - 1].bb = pages[j - 1].bb
          BY <1>14, <2>3, <3>2
        <4>2. i - 1 = j - 1
          BY <1>1, <1>3, <4>1 DEF Listed
        <4> QED BY <1>14, <4>2
      <3> QED BY <3>1, <3>2
    <2>4. ASSUME NEW i \in DOMAIN pages' PROVE block'[pages'[i].bb] # None
      <3>1. CASE i = 1
        BY <1>8, <1>10, <1>13, <1>14, <3>1
      <3>2. CASE i # 1
        BY <1>11, <1>14, <2>1, <3>2
      <3> QED BY <3>1, <3>2
    <2> QED BY <2>2, <2>3, <2>4 DEF Listed
  <1>21. Basic'
    <2> SUFFICES ASSUME NEW x \in Ids, block'[x] # None
                 PROVE  /\ IsBasic(block'[x])
                        /\ \A i \in DOMAIN block'[x].ops : block'[x].ops[i].at + 1 \in Words
      BY <1>1 DEF Basic, IsBasic
    <2>1. CASE x = b
      <3>1. block'[x] = new
        BY <1>10, <2>1
      <3>2. IsBasic(new)
        BY <1>7, <1>9 DEF IsBasic
      <3> QED BY <1>7, <1>9, <3>1, <3>2
    <2>2. CASE x # b
      BY <1>3, <1>10, <2>2 DEF Basic
    <2> QED BY <2>1, <2>2
  <1>22. InUse'
    <2>1. run' # None => block'[run'] # None
      BY <1>2, <1>8, <1>10
    <2>2. ASSUME NEW x \in Ids, block'[x] # None
          PROVE  /\ block'[x].synthops # "null"
                 /\ run' = x \/ block'[x].synthops = "torn" => block'[x].refcount > 0
      <3>1. CASE x = b
        BY <1>7, <1>10, <3>1
      <3>2. CASE x # b
        <4>1. run' # x
          BY <1>2, <3>2, BlocksAssumption
        <4> QED BY <1>3, <1>10, <2>2, <3>2, <4>1 DEF InUse
      <3> QED BY <3>1, <3>2
    <2> QED BY <2>1, <2>2 DEF InUse
  <1> QED BY <1>17, <1>18, <1>19, <1>20, <1>21, <1>22 DEF Inv

---------------------------------------------------------------------------
(* The theorems *)

\* Every step keeps Inv.
LEMMA InvStep == Inv /\ [Next]_vars => Inv'
  <1> SUFFICES ASSUME Inv, [Next]_vars PROVE Inv'
    OBVIOUS
  <1>1. CASE UNCHANGED vars
    <2>1. UNCHANGED <<code, block, sets, pages, pc, ctx, run, state>>
      BY <1>1 DEF vars
    <2>2. TypeOK /\ InUse
      BY DEF Inv
    <2>3. TypeOK' /\ InUse'
      BY <2>1, <2>2 DEF TypeOK, InUse
    <2>4. Same
      BY <2>1 DEF Same
    <2> QED BY <2>1, <2>3, <2>4, SameInv
  <1>2. CASE Next
    BY <1>2, HitKeeps, TranslateKeeps, OthersKeep, ThrowFatalKeeps, FinishKeeps, DestroyKeeps
       DEF Next
  <1> QED BY <1>1, <1>2

\* The invariant of the basic block cache holds in every reachable state.
THEOREM BlocksInvariance == Spec => []Inv
  BY InitInv, InvStep, PTL DEF Spec

\* Every variable keeps its type; in particular no reference is dropped that was not taken,
\* and no block is longer than MAX_BB_INS.
THEOREM BlocksTypes == Spec => []TypeOK
  <1>1. Inv => TypeOK
    BY DEF Inv
  <1> QED BY <1>1, BlocksInvariance, PTL

\* A block is found by its own key, in one place, and on one list.
LEMMA OnceFromInv == Inv => TranslatedOnce
  <1> SUFFICES ASSUME Inv PROVE TranslatedOnce
    OBVIOUS
  <1>1. TypeOK /\ Tabled /\ Found /\ Listed
    BY DEF Inv
  <1>2. \A b \in Ids : block[b] # None <=> b \in Cached
    BY CachedBlocks
  <1>3. ASSUME NEW b \in Cached
        PROVE  /\ \E i \in DOMAIN sets[Slot(block[b].key)] : \A s \in DOMAIN sets :
                     {j \in DOMAIN sets[s] : sets[s][j] = b} =
                         IF s = Slot(block[b].key) THEN {i} ELSE {}
               /\ Get(block[b].key) = b
               /\ state # "gone" => \E i \in DOMAIN pages :
                     /\ pages[i].mfn = block[b].key.mfn
                     /\ {j \in DOMAIN pages : pages[j].bb = b} = {i}
    <2> DEFINE S == Slot(block[b].key)
    <2>1. b \in Ids /\ block[b] # None
      BY CachedBlocks
    <2>2. block[b].key \in Keys /\ S \in HashSlots
      BY <1>1, <2>1, BlockTypes
    <2>3. PICK i \in DOMAIN sets[S] : sets[S][i] = b
      BY <1>1, <2>1 DEF Found
    <2>4. \A j \in DOMAIN sets[S] : block[sets[S][j]].key.ip = block[b].key.ip => j = i
      BY <1>1, <2>2, <2>3 DEF Tabled
    <2>5. \A s \in HashSlots : \A j \in DOMAIN sets[s] : sets[s][j] = b => s = S
      BY <1>1 DEF Tabled
    <2>6. \A s \in DOMAIN sets : {j \in DOMAIN sets[s] : sets[s][j] = b} = IF s = S THEN {i} ELSE {}
      <3> HIDE DEF S
      <3>1. DOMAIN sets = HashSlots
        BY <1>1, TableTypes
      <3> QED BY <2>3, <2>4, <2>5, <3>1
    <2>7. Get(block[b].key) = b
      <3> HIDE DEF S
      <3>1. Get(block[b].key) # None =>
                \E j \in DOMAIN sets[S] :
                    sets[S][j] = Get(block[b].key) /\ block[Get(block[b].key)].key.ip = block[b].key.ip
        BY <1>1, <2>2, GetFinds DEF S
      <3>2. Get(block[b].key) # None
        BY <1>1, <2>2, <2>3, GetFinds DEF S
      <3> QED BY <2>3, <2>4, <3>1, <3>2
    <2>8. ASSUME state # "gone"
          PROVE  \E k \in DOMAIN pages : /\ pages[k].mfn = block[b].key.mfn
                                         /\ {j \in DOMAIN pages : pages[j].bb = b} = {k}
      <3>1. PICK k \in DOMAIN pages : pages[k] = [mfn |-> block[b].key.mfn, bb |-> b]
        BY <1>1, <2>1, <2>8 DEF Listed
      <3>2. pages[k].mfn = block[b].key.mfn /\ pages[k].bb = b
        BY <3>1
      <3>3. {j \in DOMAIN pages : pages[j].bb = b} = {k}
        BY <1>1, <2>8, <3>2 DEF Listed
      <3> QED BY <3>2, <3>3
    <2> QED BY <2>3, <2>6, <2>7, <2>8
  <1> QED BY <1>2, <1>3 DEF TranslatedOnce

\* Nothing is translated twice, and nothing that was translated is lost.
THEOREM BlocksTranslatedOnce == Spec => []TranslatedOnce
  BY BlocksInvariance, OnceFromInv, PTL

\* Every cached block is basic: the words from its ip on, a transfer of control only at its
\* end, whatever MAX_TRANS_INS and MAX_BB_INS are.
THEOREM BlocksStayBasic == Spec => []BlocksAreBasic
  <1>1. Inv => BlocksAreBasic
    <2> SUFFICES ASSUME Inv, NEW b \in Cached PROVE IsBasic(block[b])
      BY DEF BlocksAreBasic, IsBasic
    <2>1. b \in Ids /\ block[b] # None
      BY CachedBlocks
    <2> QED BY <2>1 DEF Inv, Basic
  <1> QED BY <1>1, BlocksInvariance, PTL

\* What invalidate would take neither runs nor was left half prepared by an exception.
THEOREM TakenStaysAtRest == Spec => []TakenIsAtRest
  <1>1. Inv => TakenIsAtRest
    <2> SUFFICES ASSUME Inv, NEW b \in Cached, ~Refuses(b)
                 PROVE  b # run /\ block[b].synthops = "ready"
      BY DEF TakenIsAtRest
    <2>1. b \in Ids /\ block[b] # None
      BY CachedBlocks
    <2>2. block[b].refcount = 0 /\ block[b].synthops \in {"null", "ready", "torn"}
      BY <2>1, BlockTypes DEF Inv, Refuses
    <2>3. ~(block[b].refcount > 0)
      BY <2>2
    <2> QED BY <2>1, <2>2, <2>3 DEF Inv, InUse
  <1> QED BY <1>1, BlocksInvariance, PTL
=============================================================================
