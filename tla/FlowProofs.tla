----------------------------- MODULE FlowProofs -----------------------------
(***************************************************************************)
(* Proofs about Flow, for any number of registers, any cache line, any     *)
(* pages and any program: registers and memory hold what they can hold, an *)
(* instruction that faults after some of its accesses can be executed      *)
(* again, and loads and stores of all widths agree on the order of bytes.  *)
(***************************************************************************)
EXTENDS Flow, HostWordsProofs, SequenceTheorems

---------------------------------------------------------------------------
(* Registers and memory as an instruction finds them and leaves them *)

\* A record of these fields.
HasFields(s) == s \in [gpr : {s.gpr}, mem : {s.mem}, lr : {s.lr}, ctr : {s.ctr}, cr : {s.cr},
                       msr : {s.msr}]

HasRegisters(g) == g = [r \in 0..LastReg |-> g[r]]
HasAddresses(m) == m = [a \in DOMAIN m |-> m[a]]

\* Registers are those of the core, memory has its addresses.
IsState(s) ==
    /\ HasFields(s)
    /\ HasRegisters(s.gpr)
    /\ HasAddresses(s.mem)

\* States with the same fields are the same.
LEMMA SameState ==
    ASSUME NEW s, NEW t, HasFields(s), HasFields(t), s.gpr = t.gpr, s.mem = t.mem,
           s.lr = t.lr, s.ctr = t.ctr, s.cr = t.cr, s.msr = t.msr
    PROVE  s = t
  BY DEF HasFields

\* After the first accesses.
LEMMA AfterParts ==
    ASSUME NEW s, HasFields(s), NEW i, NEW first
    PROVE  LET accs == Accesses(i, s.gpr, s.mem)
               t == After(i, first, s)
           IN  /\ HasFields(t)
               /\ t.gpr = Registers(i, accs, first, s.gpr, s.mem)
               /\ t.mem = Written(accs, first, s.mem)
               /\ t.lr = s.lr /\ t.ctr = s.ctr /\ t.cr = s.cr /\ t.msr = s.msr
  <1> DEFINE accs == Accesses(i, s.gpr, s.mem)
             g == Registers(i, accs, first, s.gpr, s.mem)
             m == Written(accs, first, s.mem)
             t == After(i, first, s)
  <1>1. t = [s EXCEPT !.gpr = g, !.mem = m]
    BY DEF After
  <1> HIDE DEF g, m, t
  <1>2. /\ t \in [gpr : {g}, mem : {m}, lr : {s.lr}, ctr : {s.ctr}, cr : {s.cr}, msr : {s.msr}]
        /\ t.gpr = g /\ t.mem = m
        /\ t.lr = s.lr /\ t.ctr = s.ctr /\ t.cr = s.cr /\ t.msr = s.msr
    BY <1>1 DEF HasFields
  <1>3. HasFields(t)
    BY <1>2 DEF HasFields
  <1> QED BY <1>2, <1>3 DEF g, m, t

\* The registers stay registers.
LEMMA RegistersShape ==
    ASSUME NEW i, NEW accs, NEW first, NEW g, NEW m, HasRegisters(g)
    PROVE  HasRegisters(Registers(i, accs, first, g, m))
  <1> DEFINE v == [k \in 1..first |-> LoadN(m, accs[k].ea, accs[k].n)]
             loaded == [g EXCEPT ![i.d] = Loaded(i.op, v)]
             multiple == [n \in DOMAIN g |-> IF n - i.d + 1 \in 1..first
                                              THEN v[n - i.d + 1] ELSE g[n]]
             all == first = Len(accs)
             r == CASE i.op = "lmw" -> multiple
                    [] all /\ i.op \in ScalarLoads \cup VectorLoads -> loaded
                    [] OTHER -> g
             e == Ea(i, g)
  <1>1. Registers(i, accs, first, g, m) = IF all /\ i.u THEN [r EXCEPT ![i.a] = e] ELSE r
    BY DEF Registers
  <1>2. HasRegisters(loaded)
    BY DEF HasRegisters
  <1>3. HasRegisters(multiple)
    BY DEF HasRegisters
  <1> HIDE DEF loaded, multiple, all, e, v
  <1>4. HasRegisters(r)
    <2>1. r = multiple \/ r = loaded \/ r = g
      BY DEF ScalarLoads, VectorLoads
    <2> QED BY <1>2, <1>3, <2>1
  <1> HIDE DEF r
  <1>5. HasRegisters([r EXCEPT ![i.a] = e])
    BY <1>4 DEF HasRegisters
  <1> QED BY <1>1, <1>4, <1>5

\* So an instruction leaves a state.
LEMMA AfterIsState ==
    ASSUME NEW s, IsState(s), NEW i, NEW first
    PROVE  IsState(After(i, first, s))
  <1> DEFINE accs == Accesses(i, s.gpr, s.mem)
             g == Registers(i, accs, first, s.gpr, s.mem)
             m == Written(accs, first, s.mem)
             t == After(i, first, s)
  <1>1. HasRegisters(g)
    BY RegistersShape DEF IsState
  <1>2. HasAddresses(m)
    BY DEF Written, HasAddresses
  <1>3. HasFields(t) /\ t.gpr = g /\ t.mem = m
    <2>1. HasFields(s)
      BY DEF IsState
    <2> HIDE DEF accs
    <2> QED BY <2>1, AfterParts DEF accs
  <1> HIDE DEF g, m, t
  <1> QED BY <1>1, <1>2, <1>3 DEF IsState, t
---------------------------------------------------------------------------
(* The invariant: the code is that of a case, the state has its parts *)

Inv == code \in {c.code : c \in Cases} /\ IsState(st)

\* What a debug interrupt, or any other, leaves of a state.
LEMMA LessMsr ==
    ASSUME NEW s, IsState(s), NEW msr
    PROVE  IsState([s EXCEPT !.msr = msr])
  <1> DEFINE t == [s EXCEPT !.msr = msr]
  <1>1. t \in [gpr : {s.gpr}, mem : {s.mem}, lr : {s.lr}, ctr : {s.ctr}, cr : {s.cr}, msr : {msr}]
    BY DEF IsState, HasFields
  <1> HIDE DEF t
  <1>2. HasFields(t) /\ t.gpr = s.gpr /\ t.mem = s.mem
    BY <1>1 DEF HasFields
  <1>3. IsState(t)
    BY <1>2 DEF IsState
  <1> QED BY <1>3 DEF t

LEMMA CalledState == IsState(st) => IsState(S)
  <1> SUFFICES ASSUME IsState(st) PROVE IsState(S)
    OBVIOUS
  <1> DEFINE msr == st.msr \ Cleared("DBG")
  <1>1. S = IF DebugTaken THEN [st EXCEPT !.msr = msr] ELSE st
    BY DEF S
  <1> HIDE DEF msr
  <1> QED BY <1>1, LessMsr

\* Exceptions leave a state, also when step() drops them.
LEMMA ThrownState ==
    ASSUME NEW s, IsState(s), NEW e, NEW p, NEW v, Thrown(e, p, s, v)
    PROVE  IsState(st')
  <1>1. CASE Taken(e, p, s, v)
    <2> DEFINE msr == s.msr \ Cleared(e.nr)
    <2>1. st' = [s EXCEPT !.msr = msr]
      BY <1>1 DEF Taken
    <2> HIDE DEF msr
    <2> QED BY <2>1, LessMsr
  <1>2. CASE st' = s
    BY <1>2
  <1> QED BY <1>1, <1>2 DEF Thrown

\* A branch and a move leave a state.
LEMMA ResultState ==
    ASSUME NEW s, IsState(s), NEW i, NEW p
    PROVE  IsState(Result(i, s, p))
  <1> DEFINE after == After(i, AllOf(i, s), s)
             counted == [s EXCEPT !.ctr = CtrAfter(i, s), !.lr = IF i.l THEN Following(p) ELSE @]
             moved == Moved(i, s)
  <1>a. /\ i.op \in Branches => i.op \notin Accessing /\ i.op \notin Moves
        /\ i.op \in Moves => i.op \notin Accessing /\ i.op \notin Branches
    BY DEF Moves, Branches, Accessing, ScalarLoads, Stores, VectorLoads, TouchLoads, TouchStores,
           Multiples
  <1>0. /\ i.op \in Accessing => Result(i, s, p) = after
        /\ i.op \in Branches  => Result(i, s, p) = counted
        /\ i.op \in Moves     => Result(i, s, p) = moved
        /\ i.op \notin Accessing \cup Branches \cup Moves => Result(i, s, p) = s
    BY <1>a DEF Result
  <1> HIDE DEF after, counted, moved
  <1>1. CASE i.op \in Accessing
    <2>1. Result(i, s, p) = after
      BY <1>0, <1>a, <1>1
    <2> QED BY <2>1, AfterIsState DEF after
  <1>2. CASE i.op \in Branches
    <2> DEFINE ctr == CtrAfter(i, s)
               lr == IF i.l THEN Following(p) ELSE s.lr
               t == [s EXCEPT !.ctr = ctr, !.lr = lr]
    <2>0. t = counted
      BY DEF counted
    <2>1. Result(i, s, p) = t
      BY <1>0, <1>a, <1>2, <2>0
    <2> HIDE DEF ctr, lr
    <2>2. t \in [gpr : {s.gpr}, mem : {s.mem}, lr : {lr}, ctr : {ctr}, cr : {s.cr}, msr : {s.msr}]
      BY DEF IsState, HasFields
    <2> HIDE DEF t
    <2>3. HasFields(t) /\ t.gpr = s.gpr /\ t.mem = s.mem
      BY <2>2 DEF HasFields
    <2> QED BY <2>1, <2>3 DEF IsState
  <1>3. CASE i.op \in Moves
    <2>1. Result(i, s, p) = Moved(i, s)
      BY <1>0, <1>a, <1>3 DEF moved
    <2>2. ASSUME NEW msr PROVE IsState([s EXCEPT !.msr = msr])
      BY LessMsr
    <2>3. ASSUME NEW v PROVE IsState([s EXCEPT !.gpr[i.d] = v])
      <3> DEFINE g == [s.gpr EXCEPT ![i.d] = v]
                 t == [s EXCEPT !.gpr = g]
      <3>1. HasRegisters(g)
        BY DEF IsState, HasRegisters
      <3> HIDE DEF g
      <3>2. t \in [gpr : {g}, mem : {s.mem}, lr : {s.lr}, ctr : {s.ctr}, cr : {s.cr}, msr : {s.msr}]
        BY DEF IsState, HasFields
      <3> HIDE DEF t
      <3>3. HasFields(t) /\ t.gpr = g /\ t.mem = s.mem
        BY <3>2 DEF HasFields
      <3>4. IsState(t)
        BY <3>1, <3>3 DEF IsState
      <3> QED BY <3>4 DEF t, g
    <2>4. ASSUME NEW v PROVE IsState([s EXCEPT !.lr = v]) /\ IsState([s EXCEPT !.ctr = v])
      <3> DEFINE t == [s EXCEPT !.lr = v]
                 u == [s EXCEPT !.ctr = v]
      <3>1. /\ t \in [gpr : {s.gpr}, mem : {s.mem}, lr : {v}, ctr : {s.ctr}, cr : {s.cr},
                      msr : {s.msr}]
            /\ u \in [gpr : {s.gpr}, mem : {s.mem}, lr : {s.lr}, ctr : {v}, cr : {s.cr},
                      msr : {s.msr}]
        BY DEF IsState, HasFields
      <3> HIDE DEF t, u
      <3>2. /\ HasFields(t) /\ t.gpr = s.gpr /\ t.mem = s.mem
            /\ HasFields(u) /\ u.gpr = s.gpr /\ u.mem = s.mem
        BY <3>1 DEF HasFields
      <3>3. IsState(t) /\ IsState(u)
        BY <3>2 DEF IsState
      <3> QED BY <3>3 DEF t, u
    <2>5. \/ \E msr : Moved(i, s) = [s EXCEPT !.msr = msr]
          \/ \E v : Moved(i, s) = [s EXCEPT !.gpr[i.d] = v]
          \/ \E v : Moved(i, s) = [s EXCEPT !.lr = v] \/ Moved(i, s) = [s EXCEPT !.ctr = v]
      <3> DEFINE m1 == MsrOf(s.gpr[i.d])
                 m2 == (s.msr \ {"EE"}) \cup (MsrOf(s.gpr[i.d]) \cap {"EE"})
                 m3 == (s.msr \ {"EE"}) \cup IF i.i = 1 THEN {"EE"} ELSE {}
                 v1 == MsrWord(s.msr)
                 v2 == IF i.i = "LR" THEN s.lr ELSE s.ctr
                 v3 == s.gpr[i.d]
      <3>1. Moved(i, s) =
              CASE i.op = "mtmsr"  -> [s EXCEPT !.msr = m1]
                [] i.op = "mfmsr"  -> [s EXCEPT !.gpr[i.d] = v1]
                [] i.op = "wrtee"  -> [s EXCEPT !.msr = m2]
                [] i.op = "wrteei" -> [s EXCEPT !.msr = m3]
                [] i.op = "mtspr"  -> IF i.i = "LR" THEN [s EXCEPT !.lr = v3]
                                                    ELSE [s EXCEPT !.ctr = v3]
                [] i.op = "mfspr"  -> [s EXCEPT !.gpr[i.d] = v2]
        BY DEF Moved
      <3> HIDE DEF m1, m2, m3, v1, v2, v3
      <3>2. i.op \in {"mtmsr", "mfmsr", "wrtee", "wrteei", "mtspr", "mfspr"}
        BY <1>3 DEF Moves
      <3>3. CASE i.op \in {"mtmsr", "wrtee", "wrteei"}
        BY <3>1, <3>3
      <3>4. CASE i.op \in {"mfmsr", "mfspr"}
        BY <3>1, <3>4
      <3>5. CASE i.op = "mtspr"
        BY <3>1, <3>5
      <3> QED BY <3>2, <3>3, <3>4, <3>5
    <2>6. IsState(Moved(i, s))
      <3>1. CASE \E msr : Moved(i, s) = [s EXCEPT !.msr = msr]
        <4>1. PICK msr : Moved(i, s) = [s EXCEPT !.msr = msr]
          BY <3>1
        <4>2. IsState([s EXCEPT !.msr = msr])
          BY <2>2
        <4> QED BY <4>1, <4>2
      <3>2. CASE \E v : Moved(i, s) = [s EXCEPT !.gpr[i.d] = v]
        <4>1. PICK v : Moved(i, s) = [s EXCEPT !.gpr[i.d] = v]
          BY <3>2
        <4>2. IsState([s EXCEPT !.gpr[i.d] = v])
          BY <2>3
        <4> QED BY <4>1, <4>2
      <3>3. CASE \E v : Moved(i, s) = [s EXCEPT !.lr = v] \/ Moved(i, s) = [s EXCEPT !.ctr = v]
        <4>1. PICK v : Moved(i, s) = [s EXCEPT !.lr = v] \/ Moved(i, s) = [s EXCEPT !.ctr = v]
          BY <3>3
        <4>2. IsState([s EXCEPT !.lr = v]) /\ IsState([s EXCEPT !.ctr = v])
          BY <2>4
        <4> QED BY <4>1, <4>2
      <3> QED BY <2>5, <3>1, <3>2, <3>3
    <2> QED BY <2>1, <2>6
  <1>4. CASE i.op \notin Accessing /\ i.op \notin Branches /\ i.op \notin Moves
    BY <1>0, <1>4
  <1> QED BY <1>1, <1>2, <1>3, <1>4

\* Programs begin with a state.
LEMMA InitInv == Init => Inv
  <1> SUFFICES ASSUME Init PROVE Inv
    OBVIOUS
  <1>1. PICK c \in Cases :
            /\ code = c.code
            /\ st \in [gpr : c.gprs, mem : c.mems, lr : {0}, ctr : c.ctrs, cr : {c.cr},
                       msr : {c.msr}]
    BY DEF Init
  <1>2. HasFields(st)
    BY <1>1 DEF HasFields
  <1>3. HasRegisters(st.gpr) /\ HasAddresses(st.mem)
    BY <1>1, CasesAssumption DEF HasRegisters, HasAddresses
  <1> QED BY <1>1, <1>2, <1>3 DEF Inv, IsState

\* Every step leaves the code and a state.
LEMMA InvStep == Inv /\ [Next]_vars => Inv'
  <1> SUFFICES ASSUME Inv, [Next]_vars PROVE Inv'
    OBVIOUS
  <1>1. IsState(st) /\ IsState(S)
    BY CalledState DEF Inv
  <1>2. code' = code
    BY DEF Next, Run, FetchFaults, DebugHalts, Instruction, InstructionRaises, InstructionFaults,
           Return, tlbwe, Interrupt, Checkstop, Ends, Fails, vars
  <1>3. IsState(st')
    <2>1. CASE FetchFaults
      BY <1>1, <2>1, ThrownState DEF FetchFaults
    <2>2. CASE DebugHalts
      BY <1>1, <2>2 DEF DebugHalts
    <2>3. CASE Instruction
      BY <1>1, <2>3, ResultState DEF Instruction, Ends
    <2>4. CASE InstructionRaises
      BY <1>1, <2>4, ThrownState DEF InstructionRaises, Fails
    <2>5. CASE InstructionFaults
      <3>1. PICK k \in Faulting : Fails(AccessFault(k), After(code[pc], k - 1, S))
        BY <2>5 DEF InstructionFaults
      <3>2. IsState(After(code[pc], k - 1, S))
        BY <1>1, AfterIsState
      <3> QED BY <3>1, <3>2, ThrownState DEF Fails
    <2>6. CASE Return
      <3> DEFINE msr == V[ReturnClass(code[pc].op)].msr
      <3>1. st' = [S EXCEPT !.msr = msr]
        BY <2>6 DEF Return, Ends
      <3> HIDE DEF msr
      <3> QED BY <1>1, <3>1, LessMsr
    <2>7. CASE tlbwe
      BY <1>1, <2>7 DEF tlbwe, Ends
    <2>8. ASSUME NEW nr \in Devices, Interrupt(nr) PROVE IsState(st')
      <3> DEFINE msr == st.msr \ Cleared(Exc(nr, "none").nr)
      <3>1. st' = [st EXCEPT !.msr = msr]
        BY <2>8 DEF Interrupt, Taken
      <3> HIDE DEF msr
      <3> QED BY <1>1, <3>1, LessMsr
    <2>9. CASE Checkstop
      BY <1>1, <2>9 DEF Checkstop
    <2>10. CASE UNCHANGED vars
      BY <1>1, <2>10 DEF vars
    <2> QED
      BY <2>1, <2>2, <2>3, <2>4, <2>5, <2>6, <2>7, <2>8, <2>9, <2>10 DEF Next, Run
  <1> QED BY <1>2, <1>3 DEF Inv, IsState, HasFields, HasRegisters, HasAddresses
---------------------------------------------------------------------------
(* Accesses *)

\* A sequence is as long as its domain says.
LEMMA LengthOf ==
    ASSUME NEW n \in Nat, NEW f, f = [k \in 1..n |-> f[k]]
    PROVE  Len(f) = n
  <1> DEFINE V0 == {f[k] : k \in 1..n}
  <1>1. f \in [1..n -> V0]
    OBVIOUS
  <1> HIDE DEF V0
  <1>2. f \in Seq(V0) /\ DOMAIN f = 1..n
    BY <1>1
  <1> QED BY <1>2, LenProperties

\* The registers and the displacement of lmw and stmw.
LEMMA MultipleFields ==
    ASSUME NEW i, IsInstruction(i), i.op \in {"lmw", "stmw"}
    PROVE  ~i.x /\ ~i.u /\ i.a \in 0..LastReg /\ i.d \in 0..LastReg /\ i.i \in Int
  <1>1. i.op \in Accessing /\ i.op \notin ScalarLoads \cup Stores
    BY DEF Accessing, Multiples, ScalarLoads, Stores
  <1> QED BY <1>1 DEF IsInstruction

\* How many registers lmw and stmw access, how many doublewords dcbz.
Multiplicity(i) == IF i.op = "dcbz" THEN CacheLine \div 8 ELSE LastReg + 1 - i.d

\* The accesses of the multiple ones.
LEMMA MultipleAccesses ==
    ASSUME NEW i, IsInstruction(i), i.op \in Multiples, NEW g, NEW m
    PROVE  LET accs == Accesses(i, g, m) IN
           /\ Multiplicity(i) \in Nat
           /\ accs = [k \in 1..Multiplicity(i) |->
                         Access(ToW(Ea(i, g) + (k - 1) * Size(i.op)), Size(i.op),
                                i.op # "lmw",
                                IF i.op = "stmw" THEN Lo(g[i.d + k - 1]) ELSE 0)]
           /\ Len(accs) = Multiplicity(i)
  <1> DEFINE accs == Accesses(i, g, m)
             ea == Ea(i, g)
             n == Size(i.op)
  <1>1. Multiplicity(i) \in Nat
    BY GuestAssumption, MultipleFields DEF Multiplicity, Multiples
  <1>n. i.op = "dcbz" => n = 8
    BY DEF Size
  <1>c. i.op = "lmw" \/ i.op = "stmw" \/ i.op = "dcbz"
    BY DEF Multiples
  <1> DEFINE all == [k \in 1..Multiplicity(i) |->
                        Access(ToW(ea + (k - 1) * n), n, i.op # "lmw",
                               IF i.op = "stmw" THEN Lo(g[i.d + k - 1]) ELSE 0)]
  <1>2. accs = all
    <2>1. CASE i.op = "lmw"
      <3>1. accs = [k \in 1..(LastReg + 1 - i.d) |-> Access(ToW(ea + (k - 1) * n), n, FALSE, 0)]
        BY <2>1 DEF Accesses, TouchStores, Stores, ScalarLoads, VectorLoads, TouchLoads
      <3> HIDE DEF accs, ea, n
      <3> QED BY <2>1, <3>1 DEF Multiplicity
    <2>2. CASE i.op = "stmw"
      <3>1. accs = [k \in 1..(LastReg + 1 - i.d) |->
                       Access(ToW(ea + (k - 1) * n), n, TRUE, Lo(g[i.d + k - 1]))]
        BY <2>2 DEF Accesses, TouchStores, Stores, ScalarLoads, VectorLoads, TouchLoads
      <3> HIDE DEF accs, ea, n
      <3> QED BY <2>2, <3>1 DEF Multiplicity
    <2>3. CASE i.op = "dcbz"
      <3>1. accs = [k \in 1..(CacheLine \div n) |-> Access(ToW(ea + (k - 1) * n), n, TRUE, 0)]
        BY <2>3 DEF Accesses, TouchStores, Stores, ScalarLoads, VectorLoads, TouchLoads
      <3>2. CacheLine \div n = Multiplicity(i)
        BY <2>3, <1>n DEF Multiplicity
      <3> HIDE DEF accs, ea, n
      <3> QED BY <2>3, <3>1, <3>2
    <2> QED BY <1>c, <2>1, <2>2, <2>3
  <1> HIDE DEF accs
  <1>3. accs = [k \in 1..Multiplicity(i) |-> accs[k]]
    BY <1>2
  <1>4. Len(accs) = Multiplicity(i)
    BY <1>1, <1>3, LengthOf
  <1> QED BY <1>1, <1>2, <1>4 DEF accs
\* The others do not write before their last access.
LEMMA SingleAccesses ==
    ASSUME NEW i, i.op \in Accessing \ Multiples, NEW g, NEW m
    PROVE  LET accs == Accesses(i, g, m) IN
           /\ Len(accs) \in Nat
           /\ \A k \in 1..(Len(accs) - 1) : ~accs[k].wr
  <1> DEFINE accs == Accesses(i, g, m)
             ea == Ea(i, g)
             n == Size(i.op)
             value == LoadN(m, ea, n)
             stored == StoredValue(i.op, g[i.d])
  <1>1. CASE i.op \in TouchStores
    <2>1. accs = <<Access(ea, n, FALSE, 0), Access(ea, n, TRUE, value)>>
      BY <1>1 DEF Accesses, TouchStores, Stores, ScalarLoads, VectorLoads, TouchLoads, Multiples
    <2> HIDE DEF accs, ea, n, value
    <2>2. Len(accs) = 2 /\ accs[1] = Access(ea, n, FALSE, 0)
      BY <2>1
    <2>3. ~accs[1].wr
      BY <2>2 DEF Access
    <2>4. \A k \in 1..(Len(accs) - 1) : ~accs[k].wr
      <3> TAKE k \in 1..(Len(accs) - 1)
      <3>1. k = 1
        BY <2>2
      <3> QED BY <2>3, <3>1
    <2> QED BY <2>2, <2>4 DEF accs
  <1>2. CASE i.op \in Stores
    <2>1. accs = <<Access(ea, n, TRUE, stored)>>
      BY <1>2 DEF Accesses, TouchStores, Stores, ScalarLoads, VectorLoads, TouchLoads, Multiples
    <2> HIDE DEF accs, ea, n, stored
    <2>2. Len(accs) = 1
      BY <2>1
    <2> QED BY <2>2 DEF accs
  <1>3. CASE i.op \in ScalarLoads \cup VectorLoads \cup TouchLoads
    <2>1. accs = [k \in 1..Count(i.op) |-> Access(ToW(ea + (k - 1) * n), n, FALSE, 0)]
      BY <1>3 DEF Accesses, Stores, TouchStores, ScalarLoads, VectorLoads, TouchLoads
    <2>2. Count(i.op) \in Nat
      BY DEF Count
    <2> HIDE DEF accs, ea, n
    <2>3. accs = [k \in 1..Count(i.op) |-> accs[k]]
      BY <2>1
    <2>4. Len(accs) = Count(i.op)
      BY <2>2, <2>3, LengthOf
    <2>5. \A k \in 1..Count(i.op) : ~accs[k].wr
      BY <2>1 DEF Access
    <2> QED BY <2>2, <2>4, <2>5 DEF accs
  <1> QED BY <1>1, <1>2, <1>3 DEF Accessing
---------------------------------------------------------------------------
(* What an instruction that faults leaves, and what it does when it is executed again *)

\* Accesses of which none writes leave memory alone.
LEMMA NothingWritten ==
    ASSUME NEW accs, NEW first, NEW m, HasAddresses(m), \A k \in 1..first : ~accs[k].wr
    PROVE  Written(accs, first, m) = m
  <1>1. \A k \in 1..first, x \in DOMAIN m : ~Covers(accs[k], x)
    BY DEF Covers
  <1>2. \A x \in DOMAIN m : Written(accs, first, m)[x] = m[x]
    BY <1>1 DEF Written
  <1>3. Written(accs, first, m) = [x \in DOMAIN m |-> Written(accs, first, m)[x]]
    BY DEF Written
  <1> QED BY <1>2, <1>3 DEF HasAddresses

\* What was written before is written again, and nothing else.
LEMMA WrittenAgain ==
    ASSUME NEW accs, NEW n \in Nat, NEW first \in 0..n, NEW m
    PROVE  Written(accs, n, Written(accs, first, m)) = Written(accs, n, m)
  <1> DEFINE w == Written(accs, first, m)
             By(x) == \E k \in 1..n : Covers(accs[k], x)
             Val(x) == LET acc == accs[CHOOSE k \in 1..n : Covers(accs[k], x)]
                       IN  (acc.val \div 2^(BB * (acc.n - 1 - ToW(x - acc.ea)))) % ByteValue
  <1>1. DOMAIN w = DOMAIN m
    BY DEF Written
  <1>2. ASSUME NEW x \in DOMAIN m, ~By(x) PROVE w[x] = m[x]
    <2>1. ~\E k \in 1..first : Covers(accs[k], x)
      BY <1>2
    <2> QED BY <2>1 DEF Written
  <1>3. Written(accs, n, m) = [x \in DOMAIN m |-> IF By(x) THEN Val(x) ELSE m[x]]
    BY DEF Written
  <1>4. Written(accs, n, w) = [x \in DOMAIN w |-> IF By(x) THEN Val(x) ELSE w[x]]
    BY DEF Written
  <1> HIDE DEF w, By, Val
  <1>5. [x \in DOMAIN w |-> IF By(x) THEN Val(x) ELSE w[x]]
          = [x \in DOMAIN m |-> IF By(x) THEN Val(x) ELSE m[x]]
    BY <1>1, <1>2
  <1> QED BY <1>3, <1>4, <1>5 DEF w

\* Registers are assigned at the end, except by lmw.
LEMMA RegistersKept ==
    ASSUME NEW i, i.op # "lmw", NEW accs, NEW first, first # Len(accs), NEW g, NEW m
    PROVE  Registers(i, accs, first, g, m) = g
  BY DEF Registers

\* An instruction of single accesses that faults has done nothing.
LEMMA SingleRestarts ==
    ASSUME NEW s, IsState(s), NEW i, i.op \in Accessing \ Multiples,
           NEW first \in 0..(AllOf(i, s) - 1)
    PROVE  After(i, first, s) = s
  <1> DEFINE accs == Accesses(i, s.gpr, s.mem)
             t == After(i, first, s)
  <1>1. Len(accs) \in Nat /\ \A k \in 1..(Len(accs) - 1) : ~accs[k].wr
    BY SingleAccesses
  <1>2. first \in 0..(Len(accs) - 1)
    BY DEF AllOf
  <1>3. HasFields(s) /\ HasAddresses(s.mem)
    BY DEF IsState
  <1>o. i.op # "lmw"
    BY DEF Multiples
  <1>4. /\ HasFields(t)
        /\ t.gpr = Registers(i, accs, first, s.gpr, s.mem)
        /\ t.mem = Written(accs, first, s.mem)
        /\ t.lr = s.lr /\ t.ctr = s.ctr /\ t.cr = s.cr /\ t.msr = s.msr
    BY <1>3, AfterParts
  <1> HIDE DEF accs, t
  <1>5. Written(accs, first, s.mem) = s.mem
    <2>1. \A k \in 1..first : ~accs[k].wr
      BY <1>1, <1>2
    <2> QED BY <1>3, <2>1, NothingWritten
  <1>6. Registers(i, accs, first, s.gpr, s.mem) = s.gpr
    <2>1. first # Len(accs)
      BY <1>1, <1>2
    <2> QED BY <1>o, <2>1, RegistersKept
  <1>7. t = s
    BY <1>3, <1>4, <1>5, <1>6, SameState
  <1> QED BY <1>7 DEF t
\* Stores of several registers, and dcbz, change neither their operands nor what they wrote.
LEMMA StoresRestart ==
    ASSUME NEW s, IsState(s), NEW i, IsInstruction(i), i.op \in Multiples, i.op # "lmw",
           NEW first \in 0..(AllOf(i, s) - 1)
    PROVE  LET t == After(i, first, s)
           IN  After(i, AllOf(i, t), t) = After(i, AllOf(i, s), s)
  <1> DEFINE n == Multiplicity(i)
             g == s.gpr
             accs == Accesses(i, g, s.mem)
             t == After(i, first, s)
             m == Written(accs, first, s.mem)
             u == After(i, n, t)
             v == After(i, n, s)
  <1>1. /\ n \in Nat /\ Len(accs) = n /\ Len(Accesses(i, g, m)) = n
        /\ Accesses(i, g, m) = accs
    <2> HIDE DEF n, g, m
    <2>1. n \in Nat /\ Len(accs) = n /\ Len(Accesses(i, g, m)) = n
      BY MultipleAccesses DEF n
    <2>2. Accesses(i, g, m) = accs
      BY MultipleAccesses
    <2> QED BY <2>1, <2>2
  <1>2. AllOf(i, s) = n
    BY <1>1 DEF AllOf
  <1>3. HasFields(s)
    BY DEF IsState
  <1>4. /\ HasFields(t)
        /\ t.gpr = Registers(i, accs, first, g, s.mem) /\ t.mem = m
        /\ t.lr = s.lr /\ t.ctr = s.ctr /\ t.cr = s.cr /\ t.msr = s.msr
    BY <1>3, AfterParts
  <1>5. first \in 0..n /\ first # Len(accs)
    BY <1>1, <1>2
  <1>6. t.gpr = g
    <2> HIDE DEF accs, t, g, m, n, u, v
    <2>1. \A x, y, z : x # Len(z) => Registers(i, z, x, y, s.mem) = y
      BY RegistersKept
    <2>2. Registers(i, accs, first, g, s.mem) = g
      BY <1>5, <2>1
    <2> QED BY <1>4, <2>2
  <1>7. Accesses(i, t.gpr, t.mem) = accs
    BY <1>1, <1>4, <1>6
  <1>8. AllOf(i, t) = n
    BY <1>1, <1>7 DEF AllOf
  <1>9. /\ HasFields(v)
        /\ v.gpr = Registers(i, accs, n, g, s.mem) /\ v.mem = Written(accs, n, s.mem)
        /\ v.lr = s.lr /\ v.ctr = s.ctr /\ v.cr = s.cr /\ v.msr = s.msr
    BY <1>3, AfterParts
  <1>10. /\ HasFields(u)
         /\ u.gpr = Registers(i, Accesses(i, t.gpr, t.mem), n, t.gpr, t.mem)
         /\ u.mem = Written(Accesses(i, t.gpr, t.mem), n, t.mem)
         /\ u.lr = t.lr /\ u.ctr = t.ctr /\ u.cr = t.cr /\ u.msr = t.msr
    <2> HIDE DEF t
    <2> QED BY <1>4, AfterParts
  <1>11. Registers(i, accs, n, g, m) = Registers(i, accs, n, g, s.mem)
    <2>1. ASSUME NEW x PROVE Registers(i, accs, n, g, x)
                               = IF n = Len(accs) /\ i.u THEN [g EXCEPT ![i.a] = Ea(i, g)] ELSE g
      <3>1. i.op \notin ScalarLoads \cup VectorLoads
        BY DEF Multiples, ScalarLoads, VectorLoads
      <3> HIDE DEF n, g, accs
      <3> QED BY <3>1 DEF Registers
    <2> HIDE DEF n, g, accs, m
    <2> QED BY <2>1
  <1>12. Written(accs, n, m) = Written(accs, n, s.mem)
    <2> HIDE DEF n, accs
    <2> QED BY <1>1, <1>5, WrittenAgain
  <1> HIDE DEF n, g, accs, t, m, u, v
  <1>13. u = v
    <2>1. u.gpr = v.gpr /\ u.mem = v.mem
      BY <1>4, <1>6, <1>7, <1>9, <1>10, <1>11, <1>12
    <2> QED BY <1>4, <1>9, <1>10, <2>1, SameState
  <1> QED BY <1>2, <1>8, <1>13 DEF u, v, t
\* An instruction that raises no exception of its own has a base register to update.
LEMMA BaseUpdated ==
    ASSUME NEW i, i.op = "lmw", NEW s, Raises(i, s) = None
    PROVE  ~(i.u /\ i.a = 0)
  <1> SUFFICES ASSUME i.u, i.a = 0 PROVE FALSE
    OBVIOUS
  <1>1. Raises(i, s) = Exc("PRG", "ILG")
    BY DEF Raises, Locks, Privileged, Returns
  <1>2. Exc("PRG", "ILG").nr = "PRG" /\ None.nr = "none"
    BY DEF Exc, None
  <1> QED BY <1>1, <1>2

\* What lmw has in its registers after some of its loads.
LEMMA LoadedSoFar ==
    ASSUME NEW i, i.op = "lmw", NEW accs, NEW first, NEW g, NEW m
    PROVE  LET r == [x \in DOMAIN g |-> IF x - i.d + 1 \in 1..first
                                        THEN LoadN(m, accs[x - i.d + 1].ea, accs[x - i.d + 1].n)
                                        ELSE g[x]]
           IN  Registers(i, accs, first, g, m)
                 = IF first = Len(accs) /\ i.u THEN [r EXCEPT ![i.a] = Ea(i, g)] ELSE r
  <1> DEFINE v == [k \in 1..first |-> LoadN(m, accs[k].ea, accs[k].n)]
             q == [x \in DOMAIN g |-> IF x - i.d + 1 \in 1..first THEN v[x - i.d + 1] ELSE g[x]]
             r == [x \in DOMAIN g |-> IF x - i.d + 1 \in 1..first
                                      THEN LoadN(m, accs[x - i.d + 1].ea, accs[x - i.d + 1].n)
                                      ELSE g[x]]
             all == first = Len(accs)
             o == [g EXCEPT ![i.d] = Loaded(i.op, v)]
             e == Ea(i, g)
  <1>1. q = r
    <2> HIDE DEF o, e, all
    <2> QED OBVIOUS
  <1>2. Registers(i, accs, first, g, m)
          = LET z == CASE i.op = "lmw" -> q
                       [] all /\ i.op \in ScalarLoads \cup VectorLoads -> o
                       [] OTHER -> g
            IN  IF all /\ i.u THEN [z EXCEPT ![i.a] = e] ELSE z
    BY DEF Registers
  <1>3. i.op \notin ScalarLoads \cup VectorLoads
    BY DEF ScalarLoads, VectorLoads
  <1> HIDE DEF q, r, o, e, all
  <1>4. (CASE i.op = "lmw" -> q
           [] all /\ i.op \in ScalarLoads \cup VectorLoads -> o
           [] OTHER -> g) = q
    BY <1>3
  <1>5. Registers(i, accs, first, g, m) = IF all /\ i.u THEN [r EXCEPT ![i.a] = e] ELSE r
    BY <1>1, <1>2, <1>4
  <1> QED BY <1>5 DEF r, all, e

\* lmw finds its base register as it was, unless it loads it before its last.
LEMMA BaseKept ==
    ASSUME NEW i, i.op = "lmw", IsInstruction(i), ~Clobbers(i), NEW g, NEW h,
           ~(i.u /\ i.a = 0),
           NEW first \in 0..(LastReg - i.d),
           \A x \in 0..LastReg : x - i.d + 1 \notin 1..first => h[x] = g[x]
    PROVE  Ea(i, h) = Ea(i, g)
  <1>1. ~i.x /\ i.a \in 0..LastReg /\ i.d \in 0..LastReg
    BY MultipleFields
  <1>2. i.a # 0 => h[i.a] = g[i.a]
    <2> SUFFICES ASSUME i.a # 0 PROVE h[i.a] = g[i.a]
      OBVIOUS
    <2>1. i.a < i.d \/ i.a = LastReg
      BY <1>1, GuestAssumption DEF Clobbers
    <2>2. i.a - i.d + 1 \notin 1..first
      BY <1>1, <2>1, GuestAssumption
    <2> QED BY <1>1, <2>2
  <1>3. i.op \notin VectorLoads /\ i.op # "dcbz"
    BY DEF VectorLoads
  <1> DEFINE disp == ExtsH(i.i)
             base == IF i.a # 0 THEN Lo(g[i.a]) ELSE 0
  <1>4. i.a # 0 \/ i.u <=> i.a # 0
    OBVIOUS
  <1>5. Ea(i, g) = ToW(base + disp)
    BY <1>1, <1>3, <1>4 DEF Ea
  <1>6. Ea(i, h) = ToW((IF i.a # 0 THEN Lo(h[i.a]) ELSE 0) + disp)
    BY <1>1, <1>3, <1>4 DEF Ea
  <1> QED BY <1>2, <1>5, <1>6

\* So lmw loads again what it has loaded, and the rest as in one go.
LEMMA LoadsRestart ==
    ASSUME NEW s, IsState(s), NEW i, IsInstruction(i), i.op = "lmw", ~Clobbers(i),
           Raises(i, s) = None, NEW first \in 0..(AllOf(i, s) - 1)
    PROVE  LET t == After(i, first, s)
           IN  After(i, AllOf(i, t), t) = After(i, AllOf(i, s), s)
  <1> DEFINE n == Multiplicity(i)
             g == s.gpr
             m == s.mem
             accs == Accesses(i, g, m)
             t == After(i, first, s)
             h == t.gpr
             u == After(i, n, t)
             v == After(i, n, s)
  <1>o. i.op \in Multiples
    BY DEF Multiples
  <1>1. n \in Nat /\ Len(accs) = n /\ \A k \in 1..n : ~accs[k].wr
    <2> HIDE DEF n, g, m, accs
    <2>1. accs = [k \in 1..n |-> Access(ToW(Ea(i, g) + (k - 1) * Size(i.op)), Size(i.op),
                                        i.op # "lmw",
                                        IF i.op = "stmw" THEN Lo(g[i.d + k - 1]) ELSE 0)]
      BY <1>o, MultipleAccesses DEF n, accs
    <2>2. n \in Nat /\ Len(accs) = n
      BY <1>o, MultipleAccesses DEF n, accs
    <2>3. \A k \in 1..n : ~accs[k].wr
      BY <2>1 DEF Access
    <2> QED BY <2>2, <2>3
  <1>2. AllOf(i, s) = n
    BY <1>1 DEF AllOf
  <1>3. HasFields(s) /\ HasRegisters(g) /\ HasAddresses(m)
    BY DEF IsState
  <1>4. /\ HasFields(t)
        /\ t.gpr = Registers(i, accs, first, g, m) /\ t.mem = Written(accs, first, m)
        /\ t.lr = s.lr /\ t.ctr = s.ctr /\ t.cr = s.cr /\ t.msr = s.msr
    BY <1>3, AfterParts
  <1>5. first \in 0..n /\ first # n /\ first \in 0..(LastReg - i.d)
    BY <1>1, <1>2, GuestAssumption, MultipleFields DEF Multiplicity
  <1>6. t.mem = m
    <2> HIDE DEF n, g, m, accs, t, u, v, h
    <2>1. \A k \in 1..first : ~accs[k].wr
      BY <1>1, <1>5
    <2> QED BY <1>3, <1>4, <2>1, NothingWritten
  <1>7. h = [x \in 0..LastReg |-> IF x - i.d + 1 \in 1..first
                                  THEN LoadN(m, accs[x - i.d + 1].ea, accs[x - i.d + 1].n)
                                  ELSE g[x]]
    <2> HIDE DEF n, g, m, accs, t, u, v
    <2>1. DOMAIN g = 0..LastReg
      BY <1>3 DEF HasRegisters
    <2>2. ~(first = Len(accs) /\ i.u)
      BY <1>1, <1>5
    <2>3. h = [x \in DOMAIN g |-> IF x - i.d + 1 \in 1..first
                                  THEN LoadN(m, accs[x - i.d + 1].ea, accs[x - i.d + 1].n)
                                  ELSE g[x]]
      BY <1>4, <2>2, LoadedSoFar
    <2> QED BY <2>1, <2>3
  <1> HIDE DEF n, g, m, accs, t, u, v, h
  <1>8. Ea(i, h) = Ea(i, g)
    <2>1. \A x \in 0..LastReg : x - i.d + 1 \notin 1..first => h[x] = g[x]
      BY <1>7
    <2>2. ~(i.u /\ i.a = 0)
      BY BaseUpdated
    <2> QED BY <1>5, <2>1, <2>2, BaseKept
  <1>9. Accesses(i, h, t.mem) = accs
    <2>1. accs = [k \in 1..n |-> Access(ToW(Ea(i, g) + (k - 1) * Size(i.op)), Size(i.op),
                                        i.op # "lmw",
                                        IF i.op = "stmw" THEN Lo(g[i.d + k - 1]) ELSE 0)]
      BY <1>o, MultipleAccesses DEF n, accs
    <2>2. Accesses(i, h, t.mem)
            = [k \in 1..n |-> Access(ToW(Ea(i, h) + (k - 1) * Size(i.op)), Size(i.op),
                                     i.op # "lmw",
                                     IF i.op = "stmw" THEN Lo(h[i.d + k - 1]) ELSE 0)]
      BY <1>o, MultipleAccesses DEF n
    <2> QED BY <1>8, <2>1, <2>2
  <1>10. AllOf(i, t) = n
    BY <1>1, <1>9 DEF AllOf, h
  <1>11. /\ HasFields(v)
         /\ v.gpr = Registers(i, accs, n, g, m) /\ v.mem = Written(accs, n, m)
         /\ v.lr = s.lr /\ v.ctr = s.ctr /\ v.cr = s.cr /\ v.msr = s.msr
    BY <1>3, AfterParts DEF v, accs, g, m
  <1>12. /\ HasFields(u)
         /\ u.gpr = Registers(i, Accesses(i, t.gpr, t.mem), n, t.gpr, t.mem)
         /\ u.mem = Written(Accesses(i, t.gpr, t.mem), n, t.mem)
         /\ u.lr = t.lr /\ u.ctr = t.ctr /\ u.cr = t.cr /\ u.msr = t.msr
    BY <1>4, AfterParts DEF u
  <1>13. Registers(i, accs, n, h, m) = Registers(i, accs, n, g, m)
    <2> DEFINE L(x) == LoadN(m, accs[x - i.d + 1].ea, accs[x - i.d + 1].n)
               R(f) == [x \in DOMAIN f |-> IF x - i.d + 1 \in 1..n THEN L(x) ELSE f[x]]
    <2>1. ASSUME NEW f
          PROVE  Registers(i, accs, n, f, m)
                   = IF n = Len(accs) /\ i.u THEN [R(f) EXCEPT ![i.a] = Ea(i, f)] ELSE R(f)
      BY LoadedSoFar
    <2>2. R(h) = R(g)
      <3>1. DOMAIN h = 0..LastReg /\ DOMAIN g = 0..LastReg
        BY <1>3, <1>7 DEF HasRegisters
      <3>2. \A x \in 0..LastReg : x - i.d + 1 \notin 1..n => h[x] = g[x]
        <4> TAKE x \in 0..LastReg
        <4> HAVE x - i.d + 1 \notin 1..n
        <4>1. x - i.d + 1 \notin 1..first
          BY <1>1, <1>5
        <4> QED BY <1>7, <4>1
      <3> HIDE DEF L
      <3> QED BY <3>1, <3>2
    <2> HIDE DEF R
    <2>3. /\ Registers(i, accs, n, h, m)
               = IF n = Len(accs) /\ i.u THEN [R(h) EXCEPT ![i.a] = Ea(i, h)] ELSE R(h)
          /\ Registers(i, accs, n, g, m)
               = IF n = Len(accs) /\ i.u THEN [R(g) EXCEPT ![i.a] = Ea(i, g)] ELSE R(g)
      BY <2>1
    <2> QED BY <1>8, <2>2, <2>3
  <1>14. u = v
    <2>1. u.gpr = v.gpr /\ u.mem = v.mem
      BY <1>6, <1>9, <1>11, <1>12, <1>13 DEF h
    <2> QED BY <1>4, <1>11, <1>12, <2>1, SameState
  <1> QED BY <1>2, <1>10, <1>14 DEF u, v, t

---------------------------------------------------------------------------
(* Bytes *)

\* How many values n bytes have.
Span(n) == 2^(BB * n)

\* Up to the width of a register they are powers that add up.
LEMMA Spans ==
    /\ \A n \in 0..8 : Span(n) \in Nat /\ Span(n) > 0 /\ BB * n \in 0..DB
    /\ \A a, b \in 0..8 : a + b <= 8 => Span(a + b) = Span(a) * Span(b)
    /\ Span(0) = 1 /\ Span(1) = ByteValue /\ Span(2) = HalfSize /\ Span(4) = WordSize
    /\ Span(8) = DoubleSize
    /\ ByteValue \in Nat /\ ByteValue > 1
  <1>1. /\ BB \in Nat /\ BB >= 1 /\ DB = 8 * BB /\ WB = 4 * BB /\ HB = 2 * BB
        /\ BB * 0 = 0 /\ BB * 1 = BB /\ BB * 2 = HB /\ BB * 4 = WB /\ BB * 8 = DB
    BY Widths
  <1>2. ASSUME NEW n \in 0..8 PROVE BB * n \in 0..DB
    <2>1. BB * n \in Nat /\ BB * (8 - n) \in Nat /\ BB * (8 - n) = BB * 8 - BB * n
      BY <1>1
    <2> QED BY <1>1, <2>1
  <1>3. \A n \in 0..8 : Span(n) \in Nat /\ Span(n) > 0
    BY <1>2, Powers DEF Span
  <1>4. ASSUME NEW a \in 0..8, NEW b \in 0..8, a + b <= 8 PROVE Span(a + b) = Span(a) * Span(b)
    <2>1. BB * (a + b) = BB * a + BB * b
      BY <1>1
    <2>2. BB * a \in Nat /\ BB * b \in Nat /\ BB * (a + b) \in 0..DB
      BY <1>2, <1>4
    <2>3. 2^(BB * a + BB * b) = 2^(BB * a) * 2^(BB * b)
      <3> DEFINE p == BB * a
                 q == BB * b
      <3>1. p \in Nat /\ q \in Nat /\ p + q <= DB
        BY <2>1, <2>2, Widths
      <3> HIDE DEF p, q
      <3>2. 2^(p + q) = 2^p * 2^q
        BY <3>1, PowerOfSum
      <3> QED BY <3>2 DEF p, q
    <2> QED BY <2>1, <2>3 DEF Span
  <1>5. /\ Span(0) = 1 /\ Span(1) = ByteValue /\ Span(2) = HalfSize /\ Span(4) = WordSize
        /\ Span(8) = DoubleSize
    BY <1>1, WidthAssumption DEF Span, ByteValue, HalfSize, WordSize, DoubleSize
  <1>6. ByteValue > 1
    <2>1. BB \in 1..DB /\ BB - 1 \in 0..DB
      BY <1>1
    <2>2. 2^BB = 2 * 2^(BB - 1) /\ 2^(BB - 1) \in Nat /\ 2^(BB - 1) > 0
      BY <2>1, Doubling, Powers
    <2> QED BY <2>2 DEF ByteValue
  <1>7. ByteValue \in Nat
    BY <1>3, <1>5
  <1> QED BY <1>2, <1>3, <1>4, <1>5, <1>6, <1>7

\* A load takes one byte after the other, the most significant first.
LEMMA LoadNext ==
    ASSUME NEW m \in [Words -> Bytes], NEW ea \in Int, NEW n \in Nat
    PROVE  /\ LoadN(m, ea, 0) = 0
           /\ LoadN(m, ea, n) \in Int
           /\ LoadN(m, ea, n + 1) = LoadN(m, ea, n) * ByteValue + m[ToW(ea + n)]
  <1> DEFINE Chain(g, N) ==
                g = [j \in 0..N |-> IF j = 0 THEN 0
                                    ELSE g[j - 1] * ByteValue + m[ToW(ea + j - 1)]]
             c(N) == CHOOSE g : Chain(g, N)
  <1>1. ASSUME NEW N \in Nat PROVE LoadN(m, ea, N) = c(N)[N]
    BY Zenon DEF LoadN
  <1>2. ASSUME NEW j \in Int PROVE m[ToW(ea + j)] \in Int
    <2>1. ToW(ea + j) \in Words
      BY Casts
    <2> QED BY <2>1, Spans DEF Bytes
  <1>3. ASSUME NEW N \in Nat PROVE Chain(c(N), N) /\ c(N) \in [0..N -> Int]
    <2> DEFINE f == [j \in 0..(N - 1) |-> m[ToW(ea + j)]]
    <2>1. \A j \in 0..(N - 1) : f[j] \in Int
      BY <1>2
    <2>2. PICK g \in [0..N -> Int] :
              g = [j \in 0..N |-> IF j = 0 THEN 0 ELSE g[j - 1] * ByteValue + f[j - 1]]
      <3> HIDE DEF f
      <3>1. ByteValue \in Int
        BY Spans
      <3> QED BY <2>1, <3>1, Horner
    <2>3. Chain(g, N)
      <3>1. \A j \in 0..N : j # 0 => f[j - 1] = m[ToW(ea + j - 1)]
        <4> TAKE j \in 0..N
        <4> HAVE j # 0
        <4>1. j - 1 \in 0..(N - 1) /\ ea + (j - 1) = ea + j - 1
          OBVIOUS
        <4> QED BY <4>1
      <3> HIDE DEF f
      <3> DEFINE r == [j \in 0..N |-> IF j = 0 THEN 0 ELSE g[j - 1] * ByteValue + f[j - 1]]
                 t == [j \in 0..N |-> IF j = 0 THEN 0
                                      ELSE g[j - 1] * ByteValue + m[ToW(ea + j - 1)]]
      <3>2. r = t
        BY <3>1
      <3> QED BY <2>2, <3>2
    <2>4. Chain(c(N), N)
      <3> HIDE DEF Chain
      <3> QED BY <2>3, Zenon
    <2>5. c(N) \in [0..N -> Int]
      <3> DEFINE h == c(N)
                 Z == {j \in 0..N : h[j] \notin Int}
      <3>0. Chain(h, N)
        BY <2>4
      <3> HIDE DEF h
      <3>1. h = [j \in 0..N |-> h[j]]
        BY <3>0
      <3>2. h[0] = 0 /\ \A j \in 1..N : h[j] = h[j - 1] * ByteValue + m[ToW(ea + j - 1)]
        <4> DEFINE R(j) == IF j = 0 THEN 0 ELSE h[j - 1] * ByteValue + m[ToW(ea + j - 1)]
        <4>1. \A j \in 0..N : h[j] = R(j)
          BY <3>0
        <4>2. 0 \in 0..N /\ \A j \in 1..N : j \in 0..N /\ j # 0
          OBVIOUS
        <4> QED BY <4>1, <4>2
      <3>3. Z = {}
        <4> SUFFICES ASSUME Z # {} PROVE FALSE
          OBVIOUS
        <4>0. Z \subseteq Nat
          OBVIOUS
        <4>1. PICK j \in Z : \A i \in Z : j <= i
          <5> HIDE DEF Z
          <5> QED BY <4>0, LeastNatural
        <4>2. j # 0
          BY <3>2, <4>1
        <4>3. j - 1 \in 0..N /\ j - 1 \notin Z /\ j \in 1..N
          BY <4>1, <4>2
        <4>4. h[j - 1] \in Int /\ m[ToW(ea + (j - 1))] \in Int /\ ea + (j - 1) = ea + j - 1
          <5>1. h[j - 1] \in Int
            BY <4>3
          <5> HIDE DEF Z
          <5>2. j - 1 \in Int /\ ea + (j - 1) = ea + j - 1
            BY <4>3
          <5> QED BY <1>2, <5>1, <5>2
        <4> DEFINE a == h[j - 1]
                   b == m[ToW(ea + j - 1)]
        <4>5. a \in Int /\ b \in Int /\ h[j] = a * ByteValue + b /\ ByteValue \in Int
          BY <3>2, <4>3, <4>4, Spans
        <4> HIDE DEF a, b
        <4>6. a * ByteValue \in Int
          BY <4>5
        <4>7. h[j] \in Int
          BY <4>5, <4>6
        <4> QED BY <4>1, <4>7
      <3> QED BY <3>1, <3>3 DEF h
    <2> QED BY <2>4, <2>5
  <1> HIDE DEF c
  <1>4. ASSUME NEW N \in Nat
        PROVE  /\ c(N)[0] = 0
               /\ \A j \in 1..N : c(N)[j] = c(N)[j - 1] * ByteValue + m[ToW(ea + j - 1)]
    <2> DEFINE h == c(N)
               R(j) == IF j = 0 THEN 0 ELSE h[j - 1] * ByteValue + m[ToW(ea + j - 1)]
    <2>1. \A j \in 0..N : h[j] = R(j)
      BY <1>3
    <2>2. 0 \in 0..N /\ \A j \in 1..N : j \in 0..N /\ j # 0
      OBVIOUS
    <2> QED BY <2>1, <2>2
  <1> HIDE DEF Chain
  <1>5. \A j \in 0..n : c(n + 1)[j] = c(n)[j]
    <2> DEFINE Z == {j \in 0..n : c(n + 1)[j] # c(n)[j]}
    <2> SUFFICES ASSUME Z # {} PROVE FALSE
      OBVIOUS
    <2>0. Z \subseteq Nat /\ n + 1 \in Nat
      OBVIOUS
    <2>1. PICK j \in Z : \A i \in Z : j <= i
      <3> HIDE DEF Z
      <3> QED BY <2>0, LeastNatural
    <2>2. c(n + 1)[0] = 0 /\ c(n)[0] = 0
      BY <1>4, <2>0
    <2>3. j # 0
      BY <2>1, <2>2
    <2>4. j - 1 \in 0..n /\ j - 1 \notin Z /\ j \in 1..n /\ j \in 1..(n + 1)
      BY <2>1, <2>3
    <2>5. /\ c(n + 1)[j] = c(n + 1)[j - 1] * ByteValue + m[ToW(ea + j - 1)]
          /\ c(n)[j] = c(n)[j - 1] * ByteValue + m[ToW(ea + j - 1)]
      BY <1>4, <2>0, <2>4
    <2>6. c(n + 1)[j - 1] = c(n)[j - 1]
      BY <2>4
    <2> QED BY <2>1, <2>5, <2>6
  <1>6. LoadN(m, ea, n + 1) = LoadN(m, ea, n) * ByteValue + m[ToW(ea + n)]
    <2>1. LoadN(m, ea, n + 1) = c(n + 1)[n + 1] /\ LoadN(m, ea, n) = c(n)[n]
      BY <1>1
    <2>2. n + 1 \in Nat /\ n + 1 \in 1..(n + 1) /\ n + 1 - 1 = n /\ ea + (n + 1) - 1 = ea + n
      OBVIOUS
    <2>3. c(n + 1)[n + 1] = c(n + 1)[n] * ByteValue + m[ToW(ea + n)]
      BY <1>4, <2>2
    <2>4. c(n + 1)[n] = c(n)[n]
      BY <1>5
    <2> QED BY <2>1, <2>3, <2>4
  <1>7. LoadN(m, ea, 0) = 0 /\ LoadN(m, ea, n) \in Int
    <2>1. LoadN(m, ea, 0) = c(0)[0] /\ c(0)[0] = 0 /\ LoadN(m, ea, n) = c(n)[n]
      BY <1>1, <1>4
    <2>2. c(n)[n] \in Int
      BY <1>3
    <2> QED BY <2>1, <2>2
  <1> QED BY <1>6, <1>7

---------------------------------------------------------------------------
(* What is loaded and what was stored *)

\* Addresses are words.
LEMMA LoadAt ==
    ASSUME NEW m \in [Words -> Bytes], NEW ea \in Int, NEW n \in Nat
    PROVE  LoadN(m, ToW(ea), n) = LoadN(m, ea, n)
  <1> DEFINE Z == {j \in 0..n : LoadN(m, ToW(ea), j) # LoadN(m, ea, j)}
  <1> SUFFICES ASSUME Z # {} PROVE FALSE
    OBVIOUS
  <1>0. Z \subseteq Nat
    OBVIOUS
  <1>1. PICK j \in Z : \A i \in Z : j <= i
    <2> HIDE DEF Z
    <2> QED BY <1>0, LeastNatural
  <1>w. ToW(ea) \in Int
    BY Casts, CastWithin
  <1>2. j # 0
    <2>1. LoadN(m, ToW(ea), 0) = 0 /\ LoadN(m, ea, 0) = 0
      BY <1>w, LoadNext
    <2> QED BY <1>1, <2>1
  <1>3. j - 1 \in Nat /\ j - 1 \in 0..n /\ j - 1 \notin Z /\ j - 1 + 1 = j
    BY <1>1, <1>2
  <1>4. LoadN(m, ToW(ea), j - 1) = LoadN(m, ea, j - 1)
    BY <1>3
  <1>5. ToW(ToW(ea) + (j - 1)) = ToW(ea + (j - 1))
    <2>1. j - 1 \in Int
      BY <1>3
    <2> HIDE DEF Z
    <2> QED BY <2>1, CastOfSum
  <1>6. /\ LoadN(m, ToW(ea), j) = LoadN(m, ToW(ea), j - 1) * ByteValue + m[ToW(ToW(ea) + (j - 1))]
        /\ LoadN(m, ea, j) = LoadN(m, ea, j - 1) * ByteValue + m[ToW(ea + (j - 1))]
    <2> DEFINE i == j - 1
    <2>1. i \in Nat /\ i + 1 = j
      BY <1>3
    <2> HIDE DEF i, Z
    <2>2. /\ LoadN(m, ToW(ea), i + 1) = LoadN(m, ToW(ea), i) * ByteValue + m[ToW(ToW(ea) + i)]
          /\ LoadN(m, ea, i + 1) = LoadN(m, ea, i) * ByteValue + m[ToW(ea + i)]
      BY <1>w, <2>1, LoadNext
    <2> QED BY <2>1, <2>2 DEF i
  <1> QED BY <1>1, <1>4, <1>5, <1>6

\* A load is a load of its first bytes and one of the rest.
LEMMA LoadSplit ==
    ASSUME NEW m \in [Words -> Bytes], NEW ea \in Int, NEW a \in 0..8, NEW b \in 0..8, a + b <= 8
    PROVE  LoadN(m, ea, a + b) = LoadN(m, ea, a) * Span(b) + LoadN(m, ea + a, b)
  <1> DEFINE L(n) == LoadN(m, ea, n)
             R(n) == LoadN(m, ea + a, n)
             Z == {j \in 0..b : L(a + j) # L(a) * Span(j) + R(j)}
  <1>i. \A n \in Nat : L(n) \in Int /\ R(n) \in Int
    <2>1. ea + a \in Int
      OBVIOUS
    <2> QED BY <2>1, LoadNext
  <1> SUFFICES ASSUME Z # {} PROVE FALSE
    <2>1. b \in 0..b
      OBVIOUS
    <2> HIDE DEF L, R
    <2>2. b \notin Z => L(a + b) = L(a) * Span(b) + R(b)
      BY <2>1
    <2> HIDE DEF Z
    <2>3. L(a + b) = L(a) * Span(b) + R(b)
      BY <2>2
    <2> QED BY <2>3 DEF L, R
  <1>0. Z \subseteq Nat
    OBVIOUS
  <1>1. PICK j \in Z : \A i \in Z : j <= i
    <2> HIDE DEF Z
    <2> QED BY <1>0, LeastNatural
  <1>2. j # 0
    <2>1. R(0) = 0
      <3>1. ea + a \in Int
        OBVIOUS
      <3> QED BY <3>1, LoadNext
    <2>2. a + 0 = a /\ Span(0) = 1 /\ L(a) \in Int
      <3>1. a \in Nat
        OBVIOUS
      <3>2. LoadN(m, ea, a) \in Int
        BY <3>1, LoadNext
      <3>3. Span(0) = 1
        BY Spans
      <3> QED BY <3>2, <3>3
    <2> HIDE DEF L, R
    <2>3. L(a + 0) = L(a) * Span(0) + R(0)
      BY <2>1, <2>2
    <2> QED BY <1>1, <2>3
  <1> DEFINE i == j - 1
  <1>3. i \in Nat /\ i \in 0..b /\ i + 1 = j /\ a + j = a + i + 1 /\ i + 1 <= 8 /\ j \in 0..8 /\ a + i \in Nat
    BY <1>1, <1>2
  <1>4. L(a + i) = L(a) * Span(i) + R(i)
    <2>1. i \notin Z
      BY <1>1, <1>2
    <2> HIDE DEF i
    <2> QED BY <1>3, <2>1
  <1> HIDE DEF i
  <1>5. L(a + j) = L(a + i) * ByteValue + m[ToW(ea + (a + i))]
    BY <1>3, LoadNext
  <1>6. R(j) = R(i) * ByteValue + m[ToW(ea + (a + i))]
    <2>1. ea + a \in Int /\ (ea + a) + i = ea + (a + i)
      BY <1>3
    <2>2. LoadN(m, ea + a, i + 1) = LoadN(m, ea + a, i) * ByteValue + m[ToW((ea + a) + i)]
      BY <1>3, <2>1, LoadNext
    <2> QED BY <1>3, <2>1, <2>2
  <1>7. Span(j) = Span(i) * ByteValue
    <2>1. i \in 0..8 /\ 1 \in 0..8
      BY <1>3
    <2> QED BY <1>3, <2>1, Spans
  <1>8. m[ToW(ea + (a + i))] \in Int
    <2>1. ToW(ea + (a + i)) \in Words
      BY <1>3, Casts
    <2> QED BY <2>1, Spans DEF Bytes
  <1> DEFINE x == L(a)
             y == R(i)
             z == Span(i)
             w == m[ToW(ea + (a + i))]
             B == ByteValue
  <1>9. x \in Int /\ y \in Int /\ z \in Int /\ w \in Int /\ B \in Int
    <2>1. L(a) \in Int
      BY <1>i, <1>3
    <2>2. R(i) \in Int
      BY <1>i, <1>3
    <2>3. i \in 0..8
      BY <1>3
    <2>4. Span(i) \in Nat
      BY <2>3, Spans
    <2>5. ByteValue \in Nat
      BY Spans
    <2> QED BY <2>1, <2>2, <2>4, <2>5, <1>8
  <1>10. L(a + j) = (x * z + y) * B + w /\ R(j) = y * B + w /\ Span(j) = z * B
    BY <1>4, <1>5, <1>6, <1>7
  <1>11. L(a) * Span(j) + R(j) = x * (z * B) + (y * B + w)
    BY <1>10
  <1> HIDE DEF x, y, z, w, B, L, R
  <1>12. (x * z + y) * B + w = x * (z * B) + (y * B + w)
    BY <1>9
  <1>13. L(a + j) = L(a) * Span(j) + R(j)
    BY <1>10, <1>11, <1>12
  <1> QED BY <1>1, <1>13

\* n bytes have no value beyond their span.
LEMMA LoadRange ==
    ASSUME NEW m \in [Words -> Bytes], NEW ea \in Int, NEW n \in 0..8
    PROVE  LoadN(m, ea, n) \in 0..(Span(n) - 1)
  <1> DEFINE L(j) == LoadN(m, ea, j)
             Z == {j \in 0..n : L(j) \notin 0..(Span(j) - 1)}
  <1>0. Z \subseteq Nat
    OBVIOUS
  <1>1. Z = {}
    <2> SUFFICES ASSUME Z # {} PROVE FALSE
      OBVIOUS
    <2>1. PICK j \in Z : \A i \in Z : j <= i
      <3> HIDE DEF Z
      <3> QED BY <1>0, LeastNatural
    <2>2. j # 0
      <3>1. L(0) = 0 /\ Span(0) = 1
        BY LoadNext, Spans
      <3> HIDE DEF L
      <3> QED BY <2>1, <3>1
    <2> DEFINE i == j - 1
    <2>3. i \in Nat /\ i \in 0..n /\ i + 1 = j /\ i \in 0..8 /\ i \notin Z
      BY <2>1, <2>2
    <2> HIDE DEF i
    <2> DEFINE x == L(i)
               z == Span(i)
               B == ByteValue
               w == m[ToW(ea + i)]
    <2>4. x \in 0..(z - 1)
      <3> HIDE DEF L
      <3> QED BY <2>3
    <2>5. L(j) = x * B + w
      BY <2>3, LoadNext
    <2>6. Span(j) = z * B /\ z \in Nat /\ B \in Nat
      <3>1. 1 \in 0..8 /\ i + 1 <= 8
        BY <2>3, <2>1
      <3> QED BY <2>3, <3>1, Spans
    <2>7. w \in 0..(B - 1)
      <3>1. ToW(ea + i) \in Words
        BY <2>3, Casts
      <3> QED BY <3>1 DEF Bytes
    <2> HIDE DEF x, z, B, w, L
    <2>8. x * B \in Nat /\ (z - 1 - x) * B \in Nat
      BY <2>4, <2>6
    <2>9. (z - 1 - x) * B = z * B - B - x * B
      BY <2>4, <2>6
    <2> DEFINE p == x * B
               q == z * B
    <2>10. p \in Nat /\ q \in Nat /\ q - B - p \in Nat
      BY <2>6, <2>8, <2>9
    <2> HIDE DEF p, q
    <2>11. p + w \in 0..(q - 1)
      BY <2>6, <2>7, <2>10
    <2>12. L(j) \in 0..(Span(j) - 1)
      BY <2>5, <2>6, <2>11 DEF p, q
    <2> QED BY <2>1, <2>12
  <1>2. n \in 0..n
    OBVIOUS
  <1> HIDE DEF L
  <1>3. L(n) \in 0..(Span(n) - 1)
    BY <1>1, <1>2
  <1> QED BY <1>3 DEF L

\* Bytes that are the digits of a value are loaded as that value.
LEMMA StoredDigits ==
    ASSUME NEW m \in [Words -> Bytes], NEW ea \in Int, NEW n \in 0..8, NEW val \in Int,
           \A j \in 0..(n - 1) : m[ToW(ea + j)] = (val \div Span(n - 1 - j)) % ByteValue
    PROVE  LoadN(m, ea, n) = val % Span(n)
  <1> DEFINE L(j) == LoadN(m, ea, j)
             Z == {j \in 0..n : L(j) # (val \div Span(n - j)) % Span(j)}
  <1>0. Z \subseteq Nat
    OBVIOUS
  <1>1. Z = {}
    <2> SUFFICES ASSUME Z # {} PROVE FALSE
      OBVIOUS
    <2>1. PICK j \in Z : \A i \in Z : j <= i
      <3> HIDE DEF Z
      <3> QED BY <1>0, LeastNatural
    <2>2. j # 0
      <3>1. L(0) = 0 /\ Span(0) = 1 /\ Span(n) \in Nat /\ Span(n) > 0 /\ n - 0 = n
        <4>1. LoadN(m, ea, 0) = 0
          BY LoadNext
        <4>2. Span(0) = 1
          BY Spans
        <4>3. Span(n) \in Nat /\ Span(n) > 0
          BY Spans
        <4> QED BY <4>1, <4>2, <4>3
      <3>2. val \div Span(n) \in Int
        BY <3>1, Division
      <3> DEFINE v == val \div Span(n)
      <3> HIDE DEF v, L
      <3>3. v % 1 = 0
        BY <3>2 DEF v
      <3> QED BY <2>1, <3>1, <3>3 DEF v
    <2> DEFINE i == j - 1
    <2>3. i \in Nat /\ i \in 0..n /\ i + 1 = j /\ i \in 0..8 /\ i \notin Z /\ n - 1 - i = n - j
          /\ n - j \in 0..8 /\ i \in 0..(n - 1) /\ n - i = n - j + 1 /\ n - i \in 0..8
          /\ j \in 0..8
      BY <2>1, <2>2
    <2> HIDE DEF i
    <2>4. L(i) = (val \div Span(n - i)) % Span(i)
      <3> HIDE DEF L
      <3> QED BY <2>3
    <2>5. L(j) = L(i) * ByteValue + m[ToW(ea + i)]
      BY <2>3, LoadNext
    <2>6. m[ToW(ea + i)] = (val \div Span(n - j)) % ByteValue
      BY <2>3
    <2> HIDE DEF L
    <2> DEFINE B == ByteValue
               z == Span(i)
               s == Span(n - j)
               q == val \div s
    <2>7. /\ B \in Nat /\ B > 0 /\ z \in Nat /\ z > 0 /\ s \in Nat /\ s > 0
          /\ Span(j) = z * B /\ Span(n - i) = s * B
      <3>1. 1 \in 0..8 /\ i + 1 <= 8 /\ (n - j) + 1 <= 8
        BY <2>3
      <3>2. Span(i + 1) = Span(i) * Span(1)
        BY <2>3, <3>1, Spans
      <3>3. Span((n - j) + 1) = Span(n - j) * Span(1)
        BY <2>3, <3>1, Spans
      <3>4. Span(j) = Span(i) * ByteValue /\ Span(n - i) = Span(n - j) * ByteValue
        BY <2>3, <3>2, <3>3, Spans
      <3>5. ByteValue \in Nat /\ ByteValue > 0
        BY Spans
      <3>6. Span(i) \in Nat /\ Span(i) > 0 /\ Span(n - j) \in Nat /\ Span(n - j) > 0
        BY <2>3, Spans
      <3> QED BY <3>4, <3>5, <3>6
    <2> HIDE DEF B, z, s
    <2>8. q \in Int
      BY <2>7, Division
    <2>9. val \div (s * B) = q \div B
      BY <2>7, DivideByProduct
    <2> HIDE DEF q
    <2>10. q % (B * z) = ((q \div B) % z) * B + (q % B)
      BY <2>7, <2>8, DivideByProduct
    <2>11. B * z = z * B
      BY <2>7
    <2>12. L(j) = ((q \div B) % z) * B + (q % B)
      BY <2>4, <2>5, <2>6, <2>7, <2>9 DEF q, B, z, s
    <2>13. L(j) = (val \div Span(n - j)) % Span(j)
      BY <2>7, <2>10, <2>11, <2>12 DEF q, s
    <2> QED BY <2>1, <2>13
  <1>2. n \in 0..n /\ n - n = 0
    OBVIOUS
  <1> HIDE DEF L
  <1>3. L(n) = (val \div Span(n - n)) % Span(n)
    BY <1>1, <1>2
  <1>4. val \div 1 = val
    OBVIOUS
  <1>5. L(n) = val % Span(n)
    BY <1>2, <1>3, <1>4, Spans
  <1> QED BY <1>5 DEF L

\* A byte of what was loaded.
LEMMA LoadedDigits ==
    ASSUME NEW m \in [Words -> Bytes], NEW ea \in Int, NEW n \in 0..8, NEW j \in 0..(n - 1)
    PROVE  (LoadN(m, ea, n) \div Span(n - 1 - j)) % ByteValue = m[ToW(ea + j)]
  <1> DEFINE b == n - 1 - j
             x == LoadN(m, ea, j + 1)
             y == LoadN(m, ea + (j + 1), b)
             z == LoadN(m, ea, j)
             w == m[ToW(ea + j)]
             d == Span(b)
             B == ByteValue
  <1>1. b \in 0..8 /\ j + 1 \in 0..8 /\ (j + 1) + b = n /\ j \in Nat /\ b \in Nat /\ ea + (j + 1) \in Int
    OBVIOUS
  <1>2. LoadN(m, ea, n) = x * d + y
    <2> HIDE DEF b
    <2>1. (j + 1) + b <= 8
      BY <1>1
    <2>2. LoadN(m, ea, (j + 1) + b) = LoadN(m, ea, j + 1) * Span(b) + LoadN(m, ea + (j + 1), b)
      BY <1>1, <2>1, LoadSplit
    <2> QED BY <1>1, <2>2
  <1>3. x = z * B + w /\ x \in Int /\ z \in Int
    <2>1. j + 1 \in Nat
      BY <1>1
    <2> QED BY <1>1, <2>1, LoadNext
  <1>4. y \in 0..(d - 1) /\ d \in Nat /\ d > 0 /\ B \in Nat /\ B > 0
    <2> HIDE DEF b
    <2>1. y \in 0..(d - 1)
      <3>1. ea + (j + 1) \in Int
        BY <1>1
      <3> DEFINE e == ea + (j + 1)
      <3> HIDE DEF e
      <3>2. e \in Int
        BY <3>1 DEF e
      <3>3. LoadN(m, e, b) \in 0..(Span(b) - 1)
        BY <1>1, <3>2, LoadRange
      <3> QED BY <3>3 DEF e
    <2>2. Span(b) \in Nat /\ Span(b) > 0
      BY <1>1, Spans
    <2>3. ByteValue \in Nat /\ ByteValue > 0
      BY Spans
    <2> QED BY <2>1, <2>2, <2>3
  <1>5. w \in 0..(B - 1)
    <2>1. ToW(ea + j) \in Words
      BY <1>1, Casts
    <2> QED BY <2>1 DEF Bytes
  <1> HIDE DEF b, x, y, z, w, d, B
  <1>6. (x * d + y) \div d = x
    BY <1>3, <1>4, DivideOnce
  <1>7. (z * B + w) % B = w
    BY <1>3, <1>4, <1>5, DivideOnce
  <1>8. (LoadN(m, ea, n) \div d) % B = w
    BY <1>2, <1>3, <1>6, <1>7
  <1> QED BY <1>8 DEF b, d, B, w

---------------------------------------------------------------------------
(* Types *)

\* Values of fewer bytes.
LEMMA SpanBounds ==
    ASSUME NEW n \in 0..8, NEW x \in 0..(Span(n) - 1)
    PROVE  /\ x \in Doubles /\ x \in Nat
           /\ n <= 4 => x \in Words
           /\ n <= 2 => x \in 0..(HalfSize - 1)
  <1>1. ASSUME NEW k \in 0..8, n <= k PROVE Span(n) <= Span(k)
    <2>1. k - n \in 0..8 /\ n + (k - n) = k
      BY <1>1
    <2> DEFINE a == Span(n)
               b == Span(k - n)
    <2>2. a \in Nat /\ a > 0
      BY Spans
    <2>3. b \in Nat /\ b > 0
      <3> DEFINE d == k - n
      <3>1. d \in 0..8
        BY <2>1
      <3> HIDE DEF d
      <3>2. Span(d) \in Nat /\ Span(d) > 0
        BY <3>1, Spans
      <3> QED BY <3>2 DEF d
    <2>4. Span(k) = a * b
      <3> DEFINE d == k - n
      <3>1. d \in 0..8 /\ n + d = k
        BY <2>1
      <3> HIDE DEF d
      <3>2. n + d <= 8
        BY <3>1
      <3>3. Span(n + d) = Span(n) * Span(d)
        BY <3>1, <3>2, Spans
      <3> QED BY <3>1, <3>3 DEF d
    <2> HIDE DEF a, b
    <2>5. a * (b - 1) \in Nat /\ a * (b - 1) = a * b - a
      BY <2>2, <2>3
    <2> DEFINE c == a * b
    <2>6. c - a \in Nat
      BY <2>5
    <2>7. c \in Int
      BY <2>2, <2>3
    <2> HIDE DEF c
    <2>8. a <= c
      BY <2>2, <2>6, <2>7
    <2> QED BY <2>4, <2>8 DEF a, c
  <1>2. Span(8) = DoubleSize /\ Span(4) = WordSize /\ Span(2) = HalfSize
    BY Spans
  <1>3. Span(n) \in Nat
    BY Spans
  <1>4. 8 \in 0..8 /\ 4 \in 0..8 /\ 2 \in 0..8 /\ n <= 8
    OBVIOUS
  <1>5. Span(n) <= DoubleSize /\ (n <= 4 => Span(n) <= WordSize) /\ (n <= 2 => Span(n) <= HalfSize)
    BY <1>1, <1>2, <1>4
  <1>6. DoubleSize \in Nat /\ WordSize \in Nat /\ HalfSize \in Nat
    BY Sizes
  <1> QED BY <1>3, <1>5, <1>6, InSizes

\* Two halfwords make a word.
LEMMA Halfwords ==
    ASSUME NEW h0 \in 0..(HalfSize - 1), NEW h1 \in 0..(HalfSize - 1)
    PROVE  /\ h0 * 2^HB + h1 \in Words
           /\ (h0 * 2^HB + h1) \div 2^HB = h0 /\ (h0 * 2^HB + h1) % 2^HB = h1
  <1> DEFINE B == HalfSize
             p == h0 * B
             q == B * B
  <1>1. B \in Nat /\ B > 0 /\ WordSize = q
    BY Sizes
  <1>1a. h0 \in 0..(B - 1) /\ h1 \in 0..(B - 1) /\ h0 \in Int
    OBVIOUS
  <1>2. (B - 1 - h0) * B \in Nat /\ (B - 1 - h0) * B = q - B - p /\ p \in Nat /\ q \in Nat
    <2> HIDE DEF B
    <2> QED BY <1>1, <1>1a
  <1> HIDE DEF p, q
  <1>3. p + h1 \in 0..(q - 1)
    <2> HIDE DEF B
    <2> QED BY <1>1, <1>1a, <1>2
  <1>4. h0 * B + h1 \in Words
    BY <1>1, <1>3, InSizes DEF p
  <1> HIDE DEF B
  <1>5. (h0 * B + h1) \div B = h0 /\ (h0 * B + h1) % B = h1
    BY <1>1, <1>1a, DivideOnce
  <1> QED BY <1>4, <1>5 DEF B, HalfSize

\* A halfword is extended to a doubleword.
LEMMA HalfExtended ==
    ASSUME NEW x \in Int
    PROVE  ExtsH(x) \in Doubles /\ Lo(ExtsH(x)) \in Words
  <1>1. HB \in 1..DB /\ HB - 1 \in 0..DB
    BY Widths
  <1>2. 2^(HB - 1) \in Nat
    BY <1>1, Powers
  <1>3. Signed(x, HB) \in (-2^(HB - 1))..(2^(HB - 1) - 1)
    BY <1>1, SignedField
  <1>4. Signed(x, HB) \in Int
    BY <1>2, <1>3
  <1>5. ExtsH(x) \in Doubles
    BY <1>4, Casts DEF ExtsH
  <1>6. ExtsH(x) \in Int
    BY <1>5, CastWithin
  <1> QED BY <1>5, <1>6, Casts

\* Addresses are words.
LEMMA EaIsWord ==
    ASSUME NEW i, IsInstruction(i), i.op \in Accessing, NEW g \in [0..LastReg -> Doubles]
    PROVE  Ea(i, g) \in Words
  <1> DEFINE base == IF i.a # 0 \/ i.u THEN Lo(g[i.a]) ELSE 0
             disp == IF i.x THEN Lo(g[i.b]) ELSE IF i.op \in VectorLoads THEN i.i ELSE ExtsH(i.i)
             ea == ToW(base + disp)
  <1>1. i.a \in 0..LastReg /\ i.b \in 0..LastReg /\ (i.x \/ i.i \in Int)
    BY DEF IsInstruction
  <1>2. ASSUME NEW r \in 0..LastReg PROVE Lo(g[r]) \in Int
    <2>1. g[r] \in Int
      BY CastWithin
    <2> QED BY <2>1, Casts, CastWithin
  <1>3. base \in Int
    BY <1>1, <1>2
  <1>4. disp \in Int
    <2>1. CASE i.x
      BY <1>1, <1>2, <2>1
    <2>2. CASE ~i.x
      <3>1. ExtsH(i.i) \in Int
        BY <1>1, <2>2, HalfExtended, CastWithin
      <3> QED BY <1>1, <2>2, <3>1
    <2> QED BY <2>1, <2>2
  <1>5. Ea(i, g) = IF i.op = "dcbz" THEN ea - (ea % CacheLine) ELSE ea
    BY DEF Ea
  <1> HIDE DEF base, disp
  <1>6. base + disp \in Int
    BY <1>3, <1>4
  <1>7. ea \in Words
    BY <1>6, Casts
  <1> HIDE DEF ea
  <1>8. ea \in Nat
    BY <1>7, InSizes
  <1>9. CacheLine \in Nat /\ CacheLine > 0
    BY GuestAssumption
  <1> DEFINE q == ea \div CacheLine
  <1>10. q \in Nat /\ ea = q * CacheLine + (ea % CacheLine) /\ ea % CacheLine \in Nat
    BY <1>8, <1>9, Division
  <1>11. q * CacheLine \in Nat
    <2> HIDE DEF q
    <2> QED BY <1>9, <1>10
  <1>12. ea - (ea % CacheLine) \in 0..ea
    <2> DEFINE a == q * CacheLine
               b == ea % CacheLine
    <2>1. a \in Nat /\ b \in Nat /\ ea = a + b
      BY <1>10, <1>11
    <2> HIDE DEF a, b
    <2>2. ea - b \in 0..ea
      BY <2>1
    <2> QED BY <2>2 DEF b
  <1>13. ea - (ea % CacheLine) \in Words
    <2>1. WordSize \in Nat
      BY Sizes
    <2> QED BY <1>7, <1>12, <2>1, InSizes
  <1> QED BY <1>5, <1>7, <1>13

\* How many bytes are accessed at once.
LEMMA SizeValues == \A op : Size(op) \in {1, 2, 4, 8} /\ Size(op) \in 1..8 /\ Count(op) \in {1, 2, 4}
  BY DEF Size, Count

\* What a multiple one stores with access k.
ValueAt(i, g, k) == IF i.op = "stmw" THEN Lo(g[i.d + k - 1]) ELSE 0

\* Those of the multiple ones, one by one.
LEMMA EachAccess ==
    ASSUME NEW i, IsInstruction(i), i.op \in Multiples, NEW g, NEW m
    PROVE  LET accs == Accesses(i, g, m) IN
           /\ Multiplicity(i) \in Nat /\ Len(accs) = Multiplicity(i)
           /\ \A k \in 1..Multiplicity(i) :
                 /\ accs[k].ea = ToW(Ea(i, g) + (k - 1) * Size(i.op)) /\ accs[k].n = Size(i.op)
                 /\ accs[k].wr = (i.op # "lmw")
                 /\ accs[k].val = ValueAt(i, g, k)
  <1> DEFINE accs == Accesses(i, g, m)
             N == Multiplicity(i)
             ea == Ea(i, g)
             n == Size(i.op)
             val(k) == ValueAt(i, g, k)
  <1>1. /\ N \in Nat /\ Len(accs) = N
        /\ accs = [k \in 1..N |-> Access(ToW(ea + (k - 1) * n), n, i.op # "lmw",
                                        val(k))]
    BY MultipleAccesses DEF ValueAt
  <1> HIDE DEF accs, N, ea, n
  <1>2. ASSUME NEW k \in 1..N
        PROVE  /\ accs[k].ea = ToW(ea + (k - 1) * n) /\ accs[k].n = n
               /\ accs[k].wr = (i.op # "lmw") /\ accs[k].val = val(k)
    <2> DEFINE v == val(k)
               e == ToW(ea + (k - 1) * n)
    <2>1. accs[k] = Access(e, n, i.op # "lmw", v)
      BY <1>1
    <2> HIDE DEF v, e
    <2>2. accs[k].ea = e /\ accs[k].n = n /\ accs[k].val = v
      BY <2>1 DEF Access
    <2>3. accs[k].wr = (i.op # "lmw")
      BY <2>1 DEF Access
    <2> QED BY <2>2, <2>3 DEF v, e
  <1> QED BY <1>1, <1>2 DEF accs, N, ea, n

\* The accesses of a load that is not multiple.
LEMMA LoadAccesses ==
    ASSUME NEW i, i.op \in ScalarLoads \cup VectorLoads \cup TouchLoads, NEW g, NEW m
    PROVE  LET accs == Accesses(i, g, m) IN
           /\ Len(accs) = Count(i.op)
           /\ \A k \in 1..Count(i.op) :
                  accs[k] = Access(ToW(Ea(i, g) + (k - 1) * Size(i.op)), Size(i.op), FALSE, 0)
  <1> DEFINE accs == Accesses(i, g, m)
             ea == Ea(i, g)
             n == Size(i.op)
  <1>1. accs = [k \in 1..Count(i.op) |-> Access(ToW(ea + (k - 1) * n), n, FALSE, 0)]
    BY DEF Accesses, Stores, TouchStores, ScalarLoads, VectorLoads, TouchLoads
  <1>2. Count(i.op) \in Nat
    BY DEF Count
  <1> HIDE DEF accs, ea, n
  <1>3. accs = [k \in 1..Count(i.op) |-> accs[k]]
    BY <1>1
  <1>4. Len(accs) = Count(i.op)
    BY <1>2, <1>3, LengthOf
  <1>5. \A k \in 1..Count(i.op) : accs[k] = Access(ToW(ea + (k - 1) * n), n, FALSE, 0)
    BY <1>1
  <1> QED BY <1>4, <1>5 DEF accs, ea, n

\* The access of a store that is not multiple.
LEMMA StoreAccesses ==
    ASSUME NEW i, i.op \in Stores, NEW g, NEW m
    PROVE  LET accs == Accesses(i, g, m) IN
           /\ Len(accs) = 1
           /\ accs[1] = Access(Ea(i, g), Size(i.op), TRUE, StoredValue(i.op, g[i.d]))
  <1> DEFINE accs == Accesses(i, g, m)
             one == Access(Ea(i, g), Size(i.op), TRUE, StoredValue(i.op, g[i.d]))
  <1>1. accs = <<one>>
    BY DEF Accesses, TouchStores, Stores, ScalarLoads, VectorLoads, TouchLoads, Multiples
  <1> HIDE DEF accs, one
  <1>2. Len(accs) = 1 /\ accs[1] = one
    BY <1>1
  <1> QED BY <1>2 DEF accs, one

\* What an instruction reads that writes it back.
Touched(i, g, m) == LoadN(m, Ea(i, g), Size(i.op))

\* Its accesses.
LEMMA TouchAccesses ==
    ASSUME NEW i, i.op \in TouchStores, NEW g, NEW m
    PROVE  LET accs == Accesses(i, g, m) IN
           /\ Len(accs) = 2
           /\ accs[1] = Access(Ea(i, g), Size(i.op), FALSE, 0)
           /\ accs[2] = Access(Ea(i, g), Size(i.op), TRUE, Touched(i, g, m))
  <1> DEFINE accs == Accesses(i, g, m)
             one == Access(Ea(i, g), Size(i.op), FALSE, 0)
             two == Access(Ea(i, g), Size(i.op), TRUE, Touched(i, g, m))
  <1>1. accs = <<one, two>>
    BY DEF Touched, Accesses, TouchStores, Stores, ScalarLoads, VectorLoads, TouchLoads, Multiples
  <1> HIDE DEF accs, one, two
  <1>2. Len(accs) = 2 /\ accs[1] = one /\ accs[2] = two
    BY <1>1
  <1> QED BY <1>2 DEF accs, one, two

\* What is stored is a number.
LEMMA StoredTypes ==
    ASSUME NEW op, NEW x \in Int
    PROVE  StoredValue(op, x) \in Int
  <1>1. SWAPB(ToH(x)) \in Int /\ SWAPB(ToW(x)) \in Int
    BY DEF SWAPB, Bit
  <1>2. Size(op) \in 0..8
    BY SizeValues
  <1>3. Span(Size(op)) \in Nat /\ Span(Size(op)) > 0
    BY <1>2, Spans
  <1>4. x % Span(Size(op)) \in Int
    BY <1>3, Division
  <1>5. x % 2^(BB * Size(op)) \in Int
    BY <1>4 DEF Span
  <1> HIDE DEF SWAPB
  <1> QED BY <1>1, <1>5 DEF StoredValue

\* Every access is at a word, of its instruction's size, of a number.
LEMMA AccessTypes ==
    ASSUME NEW i, IsInstruction(i), i.op \in Accessing, NEW g \in [0..LastReg -> Doubles],
           NEW m \in [Words -> Bytes]
    PROVE  LET accs == Accesses(i, g, m) IN
           /\ Len(accs) \in Nat
           /\ \A k \in 1..Len(accs) :
                  accs[k].ea \in Words /\ accs[k].n = Size(i.op) /\ accs[k].val \in Int
  <1> DEFINE accs == Accesses(i, g, m)
             ea == Ea(i, g)
             n == Size(i.op)
  <1>1. ea \in Words /\ ea \in Int /\ n \in Int /\ n \in Nat
    BY EaIsWord, CastWithin, SizeValues
  <1>2. \A k \in Int : ToW(ea + (k - 1) * n) \in Words
    <2> TAKE k \in Int
    <2> HIDE DEF ea, n
    <2> DEFINE p == (k - 1) * n
    <2>1. p \in Int
      BY <1>1
    <2> HIDE DEF p
    <2>2. ea + p \in Int
      BY <1>1, <2>1
    <2>3. ToW(ea + p) \in Words
      BY <2>2, Casts
    <2> QED BY <2>3 DEF p
  <1>3. CASE i.op \in Multiples
    <2> DEFINE val(k) == ValueAt(i, g, k)
               N == Multiplicity(i)
    <2>1. /\ N \in Nat /\ Len(accs) = N
          /\ \A k \in 1..N : /\ accs[k].ea = ToW(ea + (k - 1) * n) /\ accs[k].n = n
                             /\ accs[k].val = val(k)
      <3>1. N \in Nat /\ Len(accs) = N
        BY <1>3, EachAccess
      <3>2. ASSUME NEW k \in 1..N
            PROVE  accs[k].ea = ToW(ea + (k - 1) * n) /\ accs[k].n = n /\ accs[k].val = val(k)
        <4>1. accs[k].ea = ToW(ea + (k - 1) * n)
          BY <1>3, EachAccess
        <4>2. accs[k].n = n
          BY <1>3, EachAccess
        <4>3. accs[k].val = val(k)
          BY <1>3, EachAccess
        <4> QED BY <4>1, <4>2, <4>3
      <3> QED BY <3>1, <3>2
    <2>2. ASSUME NEW k \in 1..N PROVE val(k) \in Int
      <3>1. CASE i.op = "stmw"
        <4>1. i.d + k - 1 \in 0..LastReg
          BY <3>1, <2>2, MultipleFields, GuestAssumption DEF Multiplicity
        <4>2. g[i.d + k - 1] \in Int
          BY <4>1, CastWithin
        <4>3. Lo(g[i.d + k - 1]) \in Int
          BY <4>2, Casts, CastWithin
        <4> QED BY <3>1, <4>3 DEF ValueAt
      <3>2. CASE i.op # "stmw"
        BY <3>2 DEF ValueAt
      <3> QED BY <3>1, <3>2
    <2> HIDE DEF accs, ea, n, val, N
    <2>4. \A k \in 1..N : k \in Int
      BY <2>1
    <2>5. \A k \in 1..Len(accs) : accs[k].ea \in Words /\ accs[k].n = n /\ accs[k].val \in Int
      BY <1>2, <2>1, <2>2, <2>4
    <2> QED BY <2>1, <2>5 DEF accs, n
  <1>4. CASE i.op \in ScalarLoads \cup VectorLoads \cup TouchLoads
    <2> DEFINE N == Count(i.op)
    <2>1. /\ Len(accs) = N
          /\ \A k \in 1..N : accs[k] = Access(ToW(ea + (k - 1) * n), n, FALSE, 0)
      BY <1>4, LoadAccesses
    <2>2. N \in Nat
      BY SizeValues
    <2> HIDE DEF accs, ea, n, N
    <2>3. \A k \in 1..N : /\ accs[k].ea = ToW(ea + (k - 1) * n) /\ accs[k].n = n
                          /\ accs[k].val = 0
      BY <2>1 DEF Access
    <2>4. \A k \in 1..N : k \in Int
      BY <2>2
    <2>5. \A k \in 1..Len(accs) : accs[k].ea \in Words /\ accs[k].n = n /\ accs[k].val \in Int
      BY <1>2, <2>1, <2>3, <2>4
    <2> QED BY <2>1, <2>2, <2>5 DEF accs, n
  <1>5. CASE i.op \in Stores
    <2> DEFINE val == StoredValue(i.op, g[i.d])
    <2>1. Len(accs) = 1 /\ accs[1] = Access(ea, n, TRUE, val)
      BY <1>5, StoreAccesses
    <2>2. val \in Int
      <3>1. i.d \in 0..LastReg
        BY DEF IsInstruction
      <3>2. g[i.d] \in Int
        BY <3>1, CastWithin
      <3> QED BY <3>2, StoredTypes
    <2> HIDE DEF accs, ea, n, val
    <2>3. accs[1].ea = ea /\ accs[1].n = n /\ accs[1].val = val
      BY <2>1 DEF Access
    <2>4. \A k \in 1..Len(accs) : k = 1
      BY <2>1
    <2>5. \A k \in 1..Len(accs) : accs[k].ea \in Words /\ accs[k].n = n /\ accs[k].val \in Int
      BY <1>1, <2>2, <2>3, <2>4
    <2> QED BY <2>1, <2>5 DEF accs, n
  <1>6. CASE i.op \in TouchStores
    <2> DEFINE val == Touched(i, g, m)
    <2>1. /\ Len(accs) = 2 /\ accs[1] = Access(ea, n, FALSE, 0) /\ accs[2] = Access(ea, n, TRUE, val)
      BY <1>6, TouchAccesses
    <2>2. val \in Int
      BY <1>1, LoadNext DEF Touched
    <2> HIDE DEF accs, ea, n, val
    <2>3. /\ accs[1].ea = ea /\ accs[1].n = n /\ accs[1].val = 0
          /\ accs[2].ea = ea /\ accs[2].n = n /\ accs[2].val = val
      BY <2>1 DEF Access
    <2>4. \A k \in 1..Len(accs) : k = 1 \/ k = 2
      BY <2>1
    <2>5. \A k \in 1..Len(accs) : accs[k].ea \in Words /\ accs[k].n = n /\ accs[k].val \in Int
      BY <1>1, <2>2, <2>3, <2>4
    <2> QED BY <2>1, <2>5 DEF accs, n
  <1> QED BY <1>3, <1>4, <1>5, <1>6 DEF Accessing

\* Stores leave bytes in memory.
LEMMA WrittenTypes ==
    ASSUME NEW accs, NEW first, NEW m \in [Words -> Bytes],
           \A k \in 1..first : accs[k].ea \in Words /\ accs[k].n \in 1..8 /\ accs[k].val \in Int
    PROVE  Written(accs, first, m) \in [Words -> Bytes]
  <1> DEFINE acc(x) == accs[CHOOSE k \in 1..first : Covers(accs[k], x)]
             byte(x) == (acc(x).val \div 2^(BB * (acc(x).n - 1 - ToW(x - acc(x).ea)))) % ByteValue
  <1>1. ASSUME NEW x \in Words, \E k \in 1..first : Covers(accs[k], x)
        PROVE  byte(x) \in Bytes
    <2>1. PICK k \in 1..first : acc(x) = accs[k] /\ Covers(accs[k], x)
      BY <1>1
    <2> DEFINE a == accs[k]
               t == ToW(x - a.ea)
    <2>2. a.ea \in Words /\ a.n \in 1..8 /\ a.val \in Int /\ t < a.n
      BY <2>1 DEF Covers
    <2>3. t \in Nat
      <3>1. x \in Int /\ a.ea \in Int
        BY <2>2, CastWithin
      <3> HIDE DEF a
      <3>2. x - a.ea \in Int
        BY <3>1
      <3>3. ToW(x - a.ea) \in 0..(WordSize - 1) /\ WordSize \in Nat
        BY <3>2, Casts, InSizes, Sizes
      <3> QED BY <3>3
    <2> DEFINE e == a.n - 1 - t
    <2>4. e \in 0..8
      <3> HIDE DEF a, t
      <3> QED BY <2>2, <2>3
    <2>5. byte(x) = (a.val \div 2^(BB * e)) % ByteValue
      BY <2>1
    <2> HIDE DEF a, e, byte
    <2>6. Span(e) \in Nat /\ Span(e) > 0
      BY <2>4, Spans
    <2>7. a.val \div Span(e) \in Int
      BY <2>2, <2>6, Division
    <2>8. ByteValue \in Nat /\ ByteValue > 0
      BY Spans
    <2>9. (a.val \div Span(e)) % ByteValue \in Bytes
      BY <2>7, <2>8, Division DEF Bytes
    <2> QED BY <2>5, <2>9 DEF Span
  <1>2. Written(accs, first, m) =
          [x \in Words |-> IF \E k \in 1..first : Covers(accs[k], x) THEN byte(x) ELSE m[x]]
    BY DEF Written
  <1> HIDE DEF byte
  <1> QED BY <1>1, <1>2

---------------------------------------------------------------------------
(* Types of registers and memory *)

\* Registers are loaded with doublewords.
LEMMA LoadedTypes ==
    ASSUME NEW op \in ScalarLoads \cup VectorLoads, NEW v,
           \A k \in 1..Count(op) : v[k] \in 0..(Span(Size(op)) - 1)
    PROVE  Loaded(op, v) \in Doubles
  <1> DEFINE n == Size(op)
  <1>1. n \in 0..8
    BY SizeValues
  <1> HIDE DEF n
  <1>2. ASSUME NEW k \in 1..Count(op)
        PROVE  /\ v[k] \in Doubles /\ v[k] \in Int
               /\ n <= 4 => v[k] \in Words
               /\ n <= 2 => v[k] \in 0..(HalfSize - 1)
    <2> DEFINE x == v[k]
    <2>1. x \in 0..(Span(n) - 1)
      BY DEF n
    <2> HIDE DEF x
    <2>2. x \in Doubles /\ x \in Nat /\ (n <= 4 => x \in Words) /\ (n <= 2 => x \in 0..(HalfSize - 1))
      BY <1>1, <2>1, SpanBounds
    <2> QED BY <2>2 DEF x
  <1>3. 0 \in 0..(HalfSize - 1) /\ 0 \in Words
    BY Sizes, InSizes
  <1>4. ASSUME NEW h0 \in 0..(HalfSize - 1), NEW h1 \in 0..(HalfSize - 1),
               NEW h2 \in 0..(HalfSize - 1), NEW h3 \in 0..(HalfSize - 1)
        PROVE  PACK_4H(h0, h1, h2, h3) \in Doubles
    BY Halfwords, Packed DEF PACK_4H
  <1>5. \A u, w \in Words : PACK_2W(u, w) \in Doubles
    BY Packed
  <1>6. CASE op \in {"lbz", "lhz", "lwz", "evldd", "evstdd", "evstwwo"}
    <2>1. 1 \in 1..Count(op)
      BY SizeValues
    <2>2. Loaded(op, v) = v[1]
      BY <1>6 DEF Loaded
    <2> QED BY <1>2, <2>1, <2>2
  <1>7. CASE op = "lha"
    <2>1. 1 \in 1..Count(op)
      BY SizeValues
    <2>2. Loaded(op, v) = ExtsH(v[1])
      BY <1>7 DEF Loaded
    <2> QED BY <1>2, <2>1, <2>2, HalfExtended
  <1>8. CASE op \in {"lhbrx", "lwbrx"}
    <2>1. Loaded(op, v) = SWAPB(v[1])
      BY <1>8 DEF Loaded
    <2>2. SWAPB(v[1]) \in {0, 1}
      BY DEF SWAPB, Bit
    <2>3. 0 \in Doubles /\ 1 \in Doubles
      <3>1. Span(1) = ByteValue /\ ByteValue > 1 /\ 1 \in 0..8 /\ ByteValue \in Nat
        BY Spans
      <3>2. 0 \in 0..(Span(1) - 1) /\ 1 \in 0..(Span(1) - 1)
        BY <3>1
      <3> QED BY <3>1, <3>2, SpanBounds
    <2> QED BY <2>1, <2>2, <2>3
  <1>9. CASE op \in {"evldh", "evstdh"}
    <2>1. Count(op) = 4 /\ n = 2
      BY <1>9 DEF Count, Size, n
    <2>2. Loaded(op, v) = PACK_4H(v[1], v[2], v[3], v[4])
      BY <1>9 DEF Loaded
    <2> QED BY <1>2, <1>4, <2>1, <2>2
  <1>10. CASE op \in {"evldw", "evstdw"}
    <2>1. Count(op) = 2 /\ n = 4
      BY <1>10 DEF Count, Size, n
    <2>2. Loaded(op, v) = PACK_2W(v[1], v[2])
      BY <1>10 DEF Loaded
    <2> QED BY <1>2, <1>5, <2>1, <2>2
  <1>11. CASE op \in {"evlhhesplat", "evlhhossplat", "evlhhousplat"}
    <2>1. Count(op) = 1 /\ n = 2
      BY <1>11 DEF Count, Size, n
    <2>2. /\ op = "evlhhesplat"  => Loaded(op, v) = PACK_4H(v[1], 0, v[1], 0)
          /\ op = "evlhhossplat" => Loaded(op, v) = PACK_2W(Lo(ExtsH(v[1])), Lo(ExtsH(v[1])))
          /\ op = "evlhhousplat" => Loaded(op, v) = PACK_2W(v[1], v[1])
      BY DEF Loaded
    <2>3. v[1] \in 0..(HalfSize - 1) /\ v[1] \in Words /\ v[1] \in Int
      BY <1>2, <2>1
    <2>4. Lo(ExtsH(v[1])) \in Words
      BY <2>3, HalfExtended
    <2> QED BY <1>3, <1>4, <1>5, <1>11, <2>2, <2>3, <2>4
  <1>12. CASE op \in {"evlwhe", "evstwhe", "evlwhos", "evlwhou", "evstwho", "evlwhsplat"}
    <2>1. Count(op) = 2 /\ n = 2
      BY <1>12 DEF Count, Size, n
    <2>2. /\ op \in {"evlwhe", "evstwhe"}  => Loaded(op, v) = PACK_4H(v[1], 0, v[2], 0)
          /\ op = "evlwhos" => Loaded(op, v) = PACK_2W(Lo(ExtsH(v[1])), Lo(ExtsH(v[2])))
          /\ op \in {"evlwhou", "evstwho"} => Loaded(op, v) = PACK_2W(v[1], v[2])
          /\ op = "evlwhsplat" => Loaded(op, v) = PACK_4H(v[1], v[1], v[2], v[2])
      BY DEF Loaded
    <2>3. /\ v[1] \in 0..(HalfSize - 1) /\ v[1] \in Words /\ v[1] \in Int
          /\ v[2] \in 0..(HalfSize - 1) /\ v[2] \in Words /\ v[2] \in Int
      BY <1>2, <2>1
    <2>4. Lo(ExtsH(v[1])) \in Words /\ Lo(ExtsH(v[2])) \in Words
      BY <2>3, HalfExtended
    <2> QED BY <1>3, <1>4, <1>5, <1>12, <2>2, <2>3, <2>4
  <1>13. CASE op \in {"evlwwsplat", "evstwwe"}
    <2>1. Count(op) = 1 /\ n = 4
      BY <1>13 DEF Count, Size, n
    <2>2. /\ op = "evlwwsplat" => Loaded(op, v) = PACK_2W(v[1], v[1])
          /\ op = "evstwwe"    => Loaded(op, v) = PACK_2W(v[1], 0)
      BY DEF Loaded
    <2>3. v[1] \in Words
      BY <1>2, <2>1
    <2> QED BY <1>3, <1>5, <1>13, <2>2, <2>3
  <1> QED BY <1>6, <1>7, <1>8, <1>9, <1>10, <1>11, <1>12, <1>13 DEF ScalarLoads, VectorLoads

\* Words are doublewords.
LEMMA WordsAreDoubles == Words \subseteq Doubles
  <1>1. Span(4) = WordSize /\ 4 \in 0..8
    BY Spans
  <1> QED BY <1>1, SpanBounds, InSizes

\* The registers after the first loads of an lmw that begins with register d.
Filled(d, accs, first, g, m) ==
    [x \in DOMAIN g |-> IF x - d + 1 \in 1..first
                        THEN LoadN(m, accs[x - d + 1].ea, accs[x - d + 1].n) ELSE g[x]]

\* lmw leaves them, and its base register updated.
LEMMA FilledRegisters ==
    ASSUME NEW i, i.op = "lmw", NEW accs, NEW first, NEW g, NEW m
    PROVE  Registers(i, accs, first, g, m)
              = IF first = Len(accs) /\ i.u THEN [Filled(i.d, accs, first, g, m) EXCEPT ![i.a] = Ea(i, g)]
                ELSE Filled(i.d, accs, first, g, m)
  BY LoadedSoFar DEF Filled

\* Whatever is loaded, a register holds a doubleword.
LEMMA RegistersTypes ==
    ASSUME NEW i, IsInstruction(i), i.op \in Accessing, NEW g \in [0..LastReg -> Doubles],
           NEW m \in [Words -> Bytes], NEW first \in 0..Len(Accesses(i, g, m))
    PROVE  Registers(i, Accesses(i, g, m), first, g, m) \in [0..LastReg -> Doubles]
  <1> DEFINE accs == Accesses(i, g, m)
             n == Size(i.op)
             v == [k \in 1..first |-> LoadN(m, accs[k].ea, accs[k].n)]
             e == Ea(i, g)
  <1>1. n \in 0..8
    BY SizeValues
  <1>2. Len(accs) \in Nat /\ \A k \in 1..Len(accs) : accs[k].ea \in Words /\ accs[k].n = n
    BY AccessTypes
  <1>e. e \in Doubles
    BY EaIsWord, WordsAreDoubles
  <1> HIDE DEF accs, n, e
  <1>3. ASSUME NEW k \in 1..first PROVE v[k] \in 0..(Span(n) - 1)
    <2>1. k \in 1..Len(accs)
      BY <1>2 DEF accs
    <2>2. accs[k].ea \in Int /\ accs[k].n = n
      BY <1>2, <2>1, CastWithin
    <2>3. LoadN(m, accs[k].ea, n) \in 0..(Span(n) - 1)
      BY <1>1, <2>2, LoadRange
    <2> QED BY <2>2, <2>3
  <1>4. CASE i.op = "lmw"
    <2> DEFINE r == Filled(i.d, accs, first, g, m)
    <2>1. r \in [0..LastReg -> Doubles]
      <3> SUFFICES ASSUME NEW x \in 0..LastReg PROVE r[x] \in Doubles
        BY DEF Filled
      <3>1. CASE x - i.d + 1 \in 1..first
        <4> DEFINE k == x - i.d + 1
        <4>1. r[x] = v[k] /\ k \in 1..first
          BY <3>1 DEF Filled
        <4> HIDE DEF k, r
        <4> DEFINE y == v[k]
        <4>2. y \in 0..(Span(n) - 1)
          BY <1>3, <4>1
        <4> HIDE DEF y
        <4>3. y \in Doubles
          BY <1>1, <4>2, SpanBounds
        <4> QED BY <4>1, <4>3 DEF y
      <3>2. CASE x - i.d + 1 \notin 1..first
        BY <3>2 DEF Filled
      <3> QED BY <3>1, <3>2
    <2>2. Registers(i, accs, first, g, m) = IF first = Len(accs) /\ i.u THEN [r EXCEPT ![i.a] = e] ELSE r
      BY <1>4, FilledRegisters DEF e
    <2> HIDE DEF r
    <2> QED BY <1>e, <2>1, <2>2 DEF accs
  <1>5. CASE i.op # "lmw" /\ first = Len(accs) /\ i.op \in ScalarLoads \cup VectorLoads
    <2> DEFINE x == Loaded(i.op, v)
               r == [g EXCEPT ![i.d] = x]
    <2>1. Registers(i, accs, first, g, m) = IF i.u THEN [r EXCEPT ![i.a] = e] ELSE r
      BY <1>5 DEF Registers, e
    <2>2. Len(accs) = Count(i.op)
      BY <1>5, LoadAccesses DEF accs
    <2>3. \A k \in 1..Count(i.op) : v[k] \in 0..(Span(n) - 1)
      BY <1>3, <1>5, <2>2
    <2> HIDE DEF v
    <2>4. x \in Doubles
      BY <1>5, <2>3, LoadedTypes DEF n
    <2> HIDE DEF x
    <2>5. r \in [0..LastReg -> Doubles]
      BY <2>4
    <2> HIDE DEF r
    <2> QED BY <1>e, <2>1, <2>5 DEF accs
  <1>6. CASE i.op # "lmw" /\ ~(first = Len(accs) /\ i.op \in ScalarLoads \cup VectorLoads)
    <2>1. Registers(i, accs, first, g, m) = IF first = Len(accs) /\ i.u THEN [g EXCEPT ![i.a] = e] ELSE g
      BY <1>6 DEF Registers, e
    <2> QED BY <1>e, <2>1 DEF accs
  <1> QED BY <1>4, <1>5, <1>6

---------------------------------------------------------------------------
(* Registers and memory of a program have their types *)

StateTypes(s) ==
    /\ s.gpr \in [0..LastReg -> Doubles]
    /\ s.mem \in [Words -> Bytes]
    /\ s.lr \in Doubles /\ s.ctr \in Doubles /\ s.msr \subseteq MsrBits

\* After the first accesses of an instruction.
LEMMA AfterTypes ==
    ASSUME NEW s, IsState(s), StateTypes(s), NEW i, IsInstruction(i), i.op \in Accessing,
           NEW first \in 0..AllOf(i, s)
    PROVE  StateTypes(After(i, first, s))
  <1> DEFINE g == s.gpr
             m == s.mem
             accs == Accesses(i, g, m)
             t == After(i, first, s)
  <1>1. g \in [0..LastReg -> Doubles] /\ m \in [Words -> Bytes] /\ first \in 0..Len(accs)
    BY DEF StateTypes, AllOf
  <1>2. /\ t.gpr = Registers(i, accs, first, g, m) /\ t.mem = Written(accs, first, m)
        /\ t.lr = s.lr /\ t.ctr = s.ctr /\ t.msr = s.msr
    <2>1. HasFields(s)
      BY DEF IsState
    <2> QED BY <2>1, AfterParts
  <1> HIDE DEF g, m, t
  <1>3. t.gpr \in [0..LastReg -> Doubles]
    BY <1>1, <1>2, RegistersTypes
  <1>4. t.mem \in [Words -> Bytes]
    <2>1. Len(accs) \in Nat /\ Size(i.op) \in 1..8
      BY <1>1, AccessTypes, SizeValues
    <2>2. \A k \in 1..Len(accs) : /\ accs[k].ea \in Words /\ accs[k].n = Size(i.op)
                                  /\ accs[k].val \in Int
      BY <1>1, AccessTypes
    <2> HIDE DEF accs
    <2>3. \A k \in 1..first : accs[k].ea \in Words /\ accs[k].n \in 1..8 /\ accs[k].val \in Int
      BY <1>1, <2>1, <2>2
    <2>4. Written(accs, first, m) \in [Words -> Bytes]
      BY <1>1, <2>3, WrittenTypes
    <2> QED BY <1>2, <2>4
  <1> QED BY <1>2, <1>3, <1>4 DEF StateTypes, t

\* The MSR as a number.
LEMMA MsrWordType == \A msr : MsrWord(msr) \in Doubles
  <1> TAKE msr
  <1> DEFINE v(n) == IF n \in msr THEN 2^MsrPos[n] ELSE 0
             x == v("UCLE") + v("SPE") + v("CE") + v("EE") + v("PR") + v("ME") + v("DE")
  <1>1. ASSUME NEW n \in MsrBits PROVE v(n) \in Int
    <2>1. MsrPos[n] \in 0..DB
      BY GuestAssumption, Widths
    <2>2. 2^MsrPos[n] \in Nat
      BY <2>1, Powers
    <2> QED BY <2>2
  <1> HIDE DEF v
  <1>2. x \in Int
    BY <1>1 DEF MsrBits
  <1>3. MsrWord(msr) = ToD(x)
    BY DEF MsrWord, v
  <1> HIDE DEF x
  <1> QED BY <1>2, <1>3, Casts

\* Another address.
LEMMA FollowingType == \A p \in Doubles : Following(p) \in Doubles
  <1> TAKE p \in Doubles
  <1>1. p \in Int
    BY CastWithin
  <1>2. p + 4 \in Int
    BY <1>1
  <1> QED BY <1>2, Casts DEF Following

\* A doubleword less its last bits.
LEMMA Aligned ==
    ASSUME NEW x \in Doubles
    PROVE  x - (x % 4) \in Doubles /\ Lo(x) - (x % 4) \in Doubles
  <1>1. x \in Nat
    BY InSizes, Sizes
  <1>2. x % 4 \in 0..3 /\ x % 4 \in Int
    BY <1>1, Division
  <1> DEFINE d == 2^(WB - 2)
  <1>3. d \in Nat /\ d > 0 /\ WordSize = 4 * d
    <2>1. WB \in 1..DB /\ WB - 1 \in 1..DB /\ WB - 1 - 1 = WB - 2 /\ WB - 2 \in 0..DB
      BY Widths
    <2>2. 2^WB = 2 * 2^(WB - 1)
      BY <2>1, Doubling
    <2>3. 2^(WB - 1) = 2 * 2^(WB - 2)
      BY <2>1, Doubling
    <2>4. 2^(WB - 2) \in Nat /\ 2^(WB - 2) > 0
      BY <2>1, Powers
    <2> QED BY <2>2, <2>3, <2>4 DEF WordSize
  <1> HIDE DEF d
  <1>4. (x % (4 * d)) % 4 = x % 4
    BY <1>1, <1>3, DivideByProduct
  <1>5. Lo(x) = x % (4 * d) /\ Lo(x) \in Words
    BY <1>1, <1>3, InSizes, Casts
  <1>6. Lo(x) \in Nat
    BY <1>5, InSizes, Sizes
  <1> DEFINE w == Lo(x)
             r == x % 4
  <1>7. w % 4 = r /\ w \in Nat
    BY <1>4, <1>5, <1>6
  <1> HIDE DEF w, r
  <1>8. w - r \in 0..w
    BY <1>7
  <1>9. w - r \in Words
    BY <1>5, <1>8, InSizes, Sizes DEF w
  <1>10. x - r \in 0..x
    BY <1>1 DEF r
  <1>11. x - r \in Doubles
    BY <1>1, <1>10, InSizes, Sizes
  <1> QED BY <1>9, <1>11, WordsAreDoubles DEF w, r

---------------------------------------------------------------------------
(* Types after each kind of instruction, and of what an exception saves *)

\* Another MSR, register, LR or CTR leaves the other fields.
LEMMA OtherField ==
    ASSUME NEW s, IsState(s), NEW x
    PROVE  /\ LET t == [s EXCEPT !.msr = x]
              IN  t.gpr = s.gpr /\ t.mem = s.mem /\ t.lr = s.lr /\ t.ctr = s.ctr /\ t.msr = x
           /\ LET t == [s EXCEPT !.gpr = x]
              IN  t.gpr = x /\ t.mem = s.mem /\ t.lr = s.lr /\ t.ctr = s.ctr /\ t.msr = s.msr
           /\ LET t == [s EXCEPT !.lr = x]
              IN  t.gpr = s.gpr /\ t.mem = s.mem /\ t.lr = x /\ t.ctr = s.ctr /\ t.msr = s.msr
           /\ LET t == [s EXCEPT !.ctr = x]
              IN  t.gpr = s.gpr /\ t.mem = s.mem /\ t.lr = s.lr /\ t.ctr = x /\ t.msr = s.msr
  <1>1. s = [s EXCEPT !.msr = s.msr] /\ {"gpr", "mem", "lr", "ctr", "msr"} \subseteq DOMAIN s
    BY DEF IsState, HasFields
  <1> QED BY <1>1

\* So types stay when what is written has its type.
LEMMA OtherTypes ==
    ASSUME NEW s, IsState(s), StateTypes(s)
    PROVE  /\ \A x \in SUBSET MsrBits : StateTypes([s EXCEPT !.msr = x])
           /\ \A x \in [0..LastReg -> Doubles] : StateTypes([s EXCEPT !.gpr = x])
           /\ \A x \in Doubles : StateTypes([s EXCEPT !.lr = x]) /\ StateTypes([s EXCEPT !.ctr = x])
  <1>1. ASSUME NEW x \in SUBSET MsrBits PROVE StateTypes([s EXCEPT !.msr = x])
    <2> DEFINE t == [s EXCEPT !.msr = x]
    <2>1. t.gpr = s.gpr /\ t.mem = s.mem /\ t.lr = s.lr /\ t.ctr = s.ctr /\ t.msr = x
      BY OtherField
    <2> HIDE DEF t
    <2>2. StateTypes(t)
      BY <2>1 DEF StateTypes
    <2> QED BY <2>2 DEF t
  <1>2. ASSUME NEW x \in [0..LastReg -> Doubles] PROVE StateTypes([s EXCEPT !.gpr = x])
    <2> DEFINE t == [s EXCEPT !.gpr = x]
    <2>1. t.gpr = x /\ t.mem = s.mem /\ t.lr = s.lr /\ t.ctr = s.ctr /\ t.msr = s.msr
      BY OtherField
    <2> HIDE DEF t
    <2>2. StateTypes(t)
      BY <2>1 DEF StateTypes
    <2> QED BY <2>2 DEF t
  <1>3. ASSUME NEW x \in Doubles PROVE StateTypes([s EXCEPT !.lr = x])
    <2> DEFINE t == [s EXCEPT !.lr = x]
    <2>1. t.gpr = s.gpr /\ t.mem = s.mem /\ t.lr = x /\ t.ctr = s.ctr /\ t.msr = s.msr
      BY OtherField
    <2> HIDE DEF t
    <2>2. StateTypes(t)
      BY <2>1 DEF StateTypes
    <2> QED BY <2>2 DEF t
  <1>4. ASSUME NEW x \in Doubles PROVE StateTypes([s EXCEPT !.ctr = x])
    <2> DEFINE t == [s EXCEPT !.ctr = x]
    <2>1. t.gpr = s.gpr /\ t.mem = s.mem /\ t.lr = s.lr /\ t.ctr = x /\ t.msr = s.msr
      BY OtherField
    <2> HIDE DEF t
    <2>2. StateTypes(t)
      BY <2>1 DEF StateTypes
    <2> QED BY <2>2 DEF t
  <1> QED BY <1>1, <1>2, <1>3, <1>4

\* A branch counts, links and goes to a doubleword.
LEMMA BranchTypes ==
    ASSUME NEW s, IsState(s), StateTypes(s), NEW i, IsInstruction(i), i.op \in Branches,
           NEW p \in Doubles
    PROVE  /\ StateTypes([s EXCEPT !.ctr = CtrAfter(i, s), !.lr = IF i.l THEN Following(p) ELSE @])
           /\ Target(i, s) \in Doubles
  <1> DEFINE ctr == CtrAfter(i, s)
             lr == IF i.l THEN Following(p) ELSE s.lr
             t == [s EXCEPT !.ctr = ctr, !.lr = lr]
  <1>1. s.lr \in Doubles /\ s.ctr \in Doubles
    BY DEF StateTypes
  <1>2. ctr \in Doubles
    <2>1. s.ctr - 1 \in Int
      BY <1>1, CastWithin
    <2>2. ToD(s.ctr - 1) \in Doubles
      BY <2>1, Casts
    <2> QED BY <1>1, <2>2 DEF CtrAfter
  <1>3. lr \in Doubles
    BY <1>1, FollowingType
  <1>4. t = [s EXCEPT !.ctr = CtrAfter(i, s), !.lr = IF i.l THEN Following(p) ELSE @]
    OBVIOUS
  <1> HIDE DEF ctr, lr
  <1>5. t.gpr = s.gpr /\ t.mem = s.mem /\ t.lr = lr /\ t.ctr = ctr /\ t.msr = s.msr
    BY DEF IsState, HasFields
  <1> HIDE DEF t
  <1>6. StateTypes(t)
    BY <1>2, <1>3, <1>5 DEF StateTypes
  <1>7. Target(i, s) \in Doubles
    <2>1. /\ i.op \in {"b", "bc"} => Target(i, s) = i.i /\ i.i \in Doubles
          /\ i.op = "bclr" => Target(i, s) = s.lr - (s.lr % 4)
          /\ i.op = "bcctr" => Target(i, s) = s.ctr - (s.ctr % 4)
      BY DEF Target, IsInstruction
    <2>2. s.lr - (s.lr % 4) \in Doubles
      BY <1>1, Aligned
    <2>3. s.ctr - (s.ctr % 4) \in Doubles
      BY <1>1, Aligned
    <2> QED BY <2>1, <2>2, <2>3 DEF Branches
  <1> QED BY <1>4, <1>6, <1>7

\* A move puts values of their types where it moves them.
LEMMA MoveTypes ==
    ASSUME NEW s, IsState(s), StateTypes(s), NEW i, IsInstruction(i), i.op \in Moves
    PROVE  StateTypes(Moved(i, s))
  <1> DEFINE m1 == MsrOf(s.gpr[i.d])
             m2 == (s.msr \ {"EE"}) \cup (MsrOf(s.gpr[i.d]) \cap {"EE"})
             m3 == (s.msr \ {"EE"}) \cup IF i.i = 1 THEN {"EE"} ELSE {}
             v1 == MsrWord(s.msr)
             v2 == IF i.i = "LR" THEN s.lr ELSE s.ctr
             v3 == s.gpr[i.d]
  <1>1. /\ s.gpr \in [0..LastReg -> Doubles] /\ s.lr \in Doubles /\ s.ctr \in Doubles
        /\ s.msr \subseteq MsrBits /\ i.d \in 0..LastReg
    BY DEF StateTypes, IsInstruction
  <1>2. m1 \in SUBSET MsrBits /\ m2 \in SUBSET MsrBits /\ m3 \in SUBSET MsrBits
    <2>1. m1 \in SUBSET MsrBits
      BY DEF MsrOf
    <2>2. "EE" \in MsrBits
      BY DEF MsrBits
    <2> HIDE DEF m1
    <2>3. m2 \in SUBSET MsrBits
      BY <1>1, <2>2
    <2>4. m3 \in SUBSET MsrBits
      BY <1>1, <2>2
    <2> QED BY <2>1, <2>3, <2>4
  <1>3. v1 \in Doubles /\ v2 \in Doubles /\ v3 \in Doubles
    BY <1>1, MsrWordType
  <1> HIDE DEF m1, m2, m3, v1, v2, v3
  <1>4. /\ i.op = "mtmsr"  => Moved(i, s) = [s EXCEPT !.msr = m1]
        /\ i.op = "mfmsr"  => Moved(i, s) = [s EXCEPT !.gpr[i.d] = v1]
        /\ i.op = "wrtee"  => Moved(i, s) = [s EXCEPT !.msr = m2]
        /\ i.op = "wrteei" => Moved(i, s) = [s EXCEPT !.msr = m3]
        /\ i.op = "mfspr"  => Moved(i, s) = [s EXCEPT !.gpr[i.d] = v2]
        /\ i.op = "mtspr"  => Moved(i, s) = [s EXCEPT !.lr = v3] \/ Moved(i, s) = [s EXCEPT !.ctr = v3]
    <2>1. i.op = "mtmsr"  => Moved(i, s) = [s EXCEPT !.msr = m1]
      BY DEF Moved, m1
    <2>2. i.op = "mfmsr"  => Moved(i, s) = [s EXCEPT !.gpr[i.d] = v1]
      BY DEF Moved, v1
    <2>3. i.op = "wrtee"  => Moved(i, s) = [s EXCEPT !.msr = m2]
      BY DEF Moved, m2
    <2>4. i.op = "wrteei" => Moved(i, s) = [s EXCEPT !.msr = m3]
      BY DEF Moved, m3
    <2>5. i.op = "mfspr"  => Moved(i, s) = [s EXCEPT !.gpr[i.d] = v2]
      BY DEF Moved, v2
    <2>6. i.op = "mtspr"  => Moved(i, s) = [s EXCEPT !.lr = v3] \/ Moved(i, s) = [s EXCEPT !.ctr = v3]
      BY DEF Moved, v3
    <2> QED BY <2>1, <2>2, <2>3, <2>4, <2>5, <2>6
  <1>5. ASSUME NEW v \in Doubles PROVE StateTypes([s EXCEPT !.gpr[i.d] = v])
    <2> DEFINE g == [s.gpr EXCEPT ![i.d] = v]
    <2>1. g \in [0..LastReg -> Doubles]
      BY <1>1
    <2>2. [s EXCEPT !.gpr[i.d] = v] = [s EXCEPT !.gpr = g]
      BY DEF IsState, HasFields
    <2> HIDE DEF g
    <2> QED BY <2>1, <2>2, OtherTypes
  <1>6. CASE i.op \in {"mtmsr", "wrtee", "wrteei"}
    BY <1>2, <1>4, <1>6, OtherTypes
  <1>7. CASE i.op \in {"mfmsr", "mfspr"}
    BY <1>3, <1>4, <1>5, <1>7
  <1>8. CASE i.op = "mtspr"
    <2>1. StateTypes([s EXCEPT !.lr = v3])
      BY <1>3, OtherTypes
    <2>2. StateTypes([s EXCEPT !.ctr = v3])
      BY <1>3, OtherTypes
    <2> QED BY <1>4, <1>8, <2>1, <2>2
  <1> QED BY <1>6, <1>7, <1>8 DEF Moves

\* So does every instruction, and goes on at a doubleword.
LEMMA ResultTypes ==
    ASSUME NEW s, IsState(s), StateTypes(s), NEW i, IsInstruction(i), NEW p \in Doubles,
           NEW next \in Doubles
    PROVE  StateTypes(Result(i, s, p)) /\ Successor(i, s, next) \in Doubles
  <1>1. Successor(i, s, next) \in Doubles
    BY BranchTypes DEF Successor
  <1>a. /\ i.op \in Branches => i.op \notin Accessing /\ i.op \notin Moves
        /\ i.op \in Moves => i.op \notin Accessing /\ i.op \notin Branches
    BY DEF Moves, Branches, Accessing, ScalarLoads, Stores, VectorLoads, TouchLoads, TouchStores,
           Multiples
  <1>2. CASE i.op \in Accessing
    <2>1. Result(i, s, p) = After(i, AllOf(i, s), s)
      BY <1>a, <1>2 DEF Result
    <2>2. AllOf(i, s) \in Nat
      BY <1>2, AccessTypes DEF AllOf, StateTypes
    <2>3. AllOf(i, s) \in 0..AllOf(i, s)
      BY <2>2
    <2>4. StateTypes(After(i, AllOf(i, s), s))
      BY <1>2, <2>3, AfterTypes
    <2> QED BY <1>1, <2>1, <2>4
  <1>3. CASE i.op \in Branches
    <2> DEFINE t == [s EXCEPT !.ctr = CtrAfter(i, s), !.lr = IF i.l THEN Following(p) ELSE @]
    <2>1. Result(i, s, p) = t
      BY <1>a, <1>3 DEF Result
    <2>2. StateTypes(t)
      BY <1>3, BranchTypes
    <2> HIDE DEF t
    <2> QED BY <1>1, <2>1, <2>2
  <1>4. CASE i.op \in Moves
    <2>1. Result(i, s, p) = Moved(i, s)
      BY <1>a, <1>4 DEF Result
    <2> QED BY <1>1, <1>4, <2>1, MoveTypes
  <1>5. CASE i.op \notin Accessing /\ i.op \notin Branches /\ i.op \notin Moves
    BY <1>1, <1>5 DEF Result
  <1> QED BY <1>2, <1>3, <1>4, <1>5

---------------------------------------------------------------------------
(* Every step keeps the types *)

SaveTypes(v) == v \in [Classes -> [at : Doubles, msr : SUBSET MsrBits]]
EsrBits == {"ST", "DLK", "PIL", "PPR", "PTR"}

\* What is saved.
LEMMA SavedTypes ==
    ASSUME NEW v, SaveTypes(v), NEW nr, NEW p \in Doubles, NEW msr \in SUBSET MsrBits
    PROVE  SaveTypes(Saved(v, nr, p, msr))
  <1> DEFINE k == Class(nr)
             x == [at |-> p, msr |-> msr]
  <1>1. x \in [at : Doubles, msr : SUBSET MsrBits]
    OBVIOUS
  <1> HIDE DEF k, x
  <1>2. [v EXCEPT ![k] = x] \in [Classes -> [at : Doubles, msr : SUBSET MsrBits]]
    BY <1>1 DEF SaveTypes
  <1> QED BY <1>2 DEF SaveTypes, Saved, k, x

\* What an exception changes.
ExceptionTypes ==
    /\ pc' \in Doubles /\ StateTypes(st') /\ SaveTypes(save')
    /\ dear' \in Doubles /\ esr' \subseteq EsrBits

\* An interrupt goes to its vector.
LEMMA TakenTypes ==
    ASSUME NEW s, IsState(s), StateTypes(s), NEW e, e.nr \in Interrupts, e.ea \in Int,
           NEW p \in Doubles, NEW v, SaveTypes(v), dear \in Doubles, esr \subseteq EsrBits,
           Taken(e, p, s, v)
    PROVE  ExceptionTypes
  <1>1. pc' \in Doubles
    BY VectorAssumption DEF Taken
  <1>2. StateTypes(st')
    <2> DEFINE msr == s.msr \ Cleared(e.nr)
    <2>1. st' = [s EXCEPT !.msr = msr]
      BY DEF Taken
    <2>2. msr \in SUBSET MsrBits
      BY DEF StateTypes
    <2> HIDE DEF msr
    <2> QED BY <2>1, <2>2, OtherTypes
  <1>3. SaveTypes(save')
    <2>1. save' = Saved(v, e.nr, p, s.msr)
      BY DEF Taken
    <2>2. s.msr \in SUBSET MsrBits
      BY DEF StateTypes
    <2> QED BY <2>1, <2>2, SavedTypes
  <1>4. dear' \in Doubles
    BY Extended DEF Taken
  <1>5. esr' \subseteq EsrBits
    <2>1. EsrOf(e.sub) \subseteq EsrBits
      BY DEF EsrOf, EsrBits
    <2> QED BY <2>1 DEF Taken
  <1> QED BY <1>1, <1>2, <1>3, <1>4, <1>5 DEF ExceptionTypes

\* Also when step() drops the exception.
LEMMA ThrownTypes ==
    ASSUME NEW s, IsState(s), StateTypes(s), NEW e, e.nr \in Interrupts, e.ea \in Int,
           NEW p \in Doubles, NEW v, SaveTypes(v), dear \in Doubles, esr \subseteq EsrBits,
           Thrown(e, p, s, v)
    PROVE  ExceptionTypes
  <1>1. CASE Taken(e, p, s, v)
    BY <1>1, TakenTypes
  <1>2. CASE pc' = p /\ st' = s /\ save' = v /\ UNCHANGED <<dear, esr>>
    BY <1>2 DEF ExceptionTypes
  <1> QED BY <1>1, <1>2 DEF Thrown

\* Faults and what instructions raise are interrupts.
LEMMA FaultTypes ==
    ASSUME NEW ea \in Int, NEW wr, NEW ex, Fault(ea, wr, ex) # None
    PROVE  Fault(ea, wr, ex).nr \in Interrupts /\ Fault(ea, wr, ex).ea \in Int
  <1> DEFINE e == Fault(ea, wr, ex)
             sub == IF wr THEN "ST" ELSE "LD"
             have == tlb[Page(ea)]
             miss == [nr |-> IF ex THEN "ITLB" ELSE "DTLB", sub |-> sub, ea |-> ea]
             hit == [nr |-> IF ex THEN "ISI" ELSE "DSI", sub |-> sub, ea |-> ea]
  <1>1. e = miss \/ e = hit
    BY DEF Fault
  <1>2. miss.nr \in Interrupts /\ miss.ea = ea /\ hit.nr \in Interrupts /\ hit.ea = ea
    BY DEF Interrupts
  <1> QED BY <1>1, <1>2

LEMMA RaisesTypes ==
    ASSUME NEW i, NEW s, Raises(i, s) # None
    PROVE  Raises(i, s).nr \in Interrupts /\ Raises(i, s).ea \in Int
  <1>1. \E nr \in Interrupts, sub \in {"ILG", "CL", "PRV", "SC", "TRAP"} : Raises(i, s) = Exc(nr, sub)
    BY DEF Raises, Interrupts
  <1>2. \A nr, sub : Exc(nr, sub).nr = nr /\ Exc(nr, sub).ea = 0
    BY DEF Exc, None
  <1> QED BY <1>1, <1>2

---------------------------------------------------------------------------
(* Types of every variable *)

\* The types, by what they are about.
LEMMA TypedParts ==
    Typed <=> /\ pc \in Doubles /\ nip \in Doubles /\ StateTypes(st) /\ SaveTypes(save)
              /\ dear \in Doubles /\ esr \subseteq EsrBits
              /\ tlb \in [0..(NPages - 1) -> SUBSET Permissions]
  BY DEF Typed, StateTypes, SaveTypes, EsrBits

\* An instruction is called at a doubleword, in a state of these types.
LEMMA CalledTypes ==
    ASSUME IsState(st), Typed
    PROVE  P \in Doubles /\ StateTypes(S) /\ SaveTypes(V)
  <1>1. pc \in Doubles /\ StateTypes(st) /\ SaveTypes(save)
    BY TypedParts
  <1>2. P \in Doubles
    BY <1>1, VectorAssumption DEF P, Interrupts
  <1>3. StateTypes(S)
    <2> DEFINE msr == st.msr \ Cleared("DBG")
    <2>1. S = IF DebugTaken THEN [st EXCEPT !.msr = msr] ELSE st
      BY DEF S
    <2>2. msr \in SUBSET MsrBits
      BY <1>1 DEF StateTypes
    <2> HIDE DEF msr
    <2>3. StateTypes([st EXCEPT !.msr = msr])
      BY <1>1, <2>2, OtherTypes
    <2> QED BY <1>1, <2>1, <2>3
  <1>4. SaveTypes(V)
    <2>1. st.msr \in SUBSET MsrBits
      BY <1>1 DEF StateTypes
    <2>2. SaveTypes(Saved(save, "DBG", pc, st.msr))
      BY <1>1, <2>1, SavedTypes
    <2> QED BY <1>1, <2>2 DEF V
  <1> QED BY <1>2, <1>3, <1>4

\* Programs begin with the types.
LEMMA InitTyped == Init => Typed
  <1> SUFFICES ASSUME Init PROVE Typed
    OBVIOUS
  <1>1. PICK c \in Cases :
            /\ st \in [gpr : c.gprs, mem : c.mems, lr : {0}, ctr : c.ctrs, cr : {c.cr},
                       msr : {c.msr}]
            /\ pc = c.start /\ nip = c.start
            /\ save = [k \in Classes |-> [at |-> 0, msr |-> {}]]
            /\ dear = 0 /\ esr = {}
            /\ tlb \in c.tlbs
    BY DEF Init
  <1>2. /\ c.gprs \subseteq [0..LastReg -> Doubles]
        /\ c.mems \subseteq [Words -> Bytes]
        /\ c.ctrs \subseteq Doubles /\ c.msr \subseteq MsrBits /\ c.start \in Doubles
        /\ c.tlbs \subseteq [0..(NPages - 1) -> SUBSET Permissions]
    BY CasesAssumption
  <1>3. 0 \in Doubles
    BY InSizes, Sizes
  <1>4. StateTypes(st)
    <2>1. st.gpr \in c.gprs /\ st.mem \in c.mems /\ st.lr = 0 /\ st.ctr \in c.ctrs /\ st.msr = c.msr
      BY <1>1
    <2> QED BY <1>2, <1>3, <2>1 DEF StateTypes
  <1>5. SaveTypes(save)
    <2>1. [at |-> 0, msr |-> {}] \in [at : Doubles, msr : SUBSET MsrBits]
      BY <1>3
    <2> QED BY <1>1, <2>1 DEF SaveTypes
  <1>6. dear \in Doubles /\ esr \subseteq EsrBits
    BY <1>1, <1>3
  <1>7. pc \in Doubles /\ nip \in Doubles /\ tlb \in [0..(NPages - 1) -> SUBSET Permissions]
    BY <1>1, <1>2
  <1> QED BY <1>4, <1>5, <1>6, <1>7, TypedParts

\* Every step keeps them.
LEMMA TypedStep == Inv /\ Typed /\ [Next]_vars => Typed'
  <1> SUFFICES ASSUME Inv, Typed, [Next]_vars PROVE Typed'
    OBVIOUS
  <1> DEFINE Same == UNCHANGED <<nip, tlb>>
             Goal == /\ pc' \in Doubles /\ nip' \in Doubles /\ StateTypes(st') /\ SaveTypes(save')
                     /\ dear' \in Doubles /\ esr' \subseteq EsrBits
                     /\ tlb' \in [0..(NPages - 1) -> SUBSET Permissions]
  <1>1. IsState(st) /\ IsState(S)
    BY CalledState DEF Inv
  <1>2. P \in Doubles /\ StateTypes(S) /\ SaveTypes(V)
    BY <1>1, CalledTypes
  <1>3. /\ pc \in Doubles /\ nip \in Doubles /\ StateTypes(st) /\ SaveTypes(save)
        /\ dear \in Doubles /\ esr \subseteq EsrBits
        /\ tlb \in [0..(NPages - 1) -> SUBSET Permissions]
    BY TypedParts
  <1>4. pc \in Int /\ Following(nip) \in Doubles
    BY <1>3, CastWithin, FollowingType
  <1>5. ASSUME NEW ops, Called(ops) PROVE IsInstruction(code[pc]) /\ code[pc].op \in ops
    <2>1. PICK c \in Cases : code = c.code
      BY DEF Inv
    <2> QED BY <1>5, <2>1, CasesAssumption DEF Called
  <1>6. Goal
    <2>1. CASE FetchFaults
      <3>1. FetchFault.nr \in Interrupts /\ FetchFault.ea \in Int
        BY <1>4, <2>1, FaultTypes DEF FetchFaults, FetchFault
      <3>2. ExceptionTypes
        BY <1>1, <1>3, <2>1, <3>1, ThrownTypes DEF FetchFaults
      <3> QED BY <1>3, <2>1, <3>2 DEF FetchFaults, ExceptionTypes
    <2>2. CASE DebugHalts
      BY <1>2, <1>3, <2>2 DEF DebugHalts
    <2>3. CASE Instruction
      <3>1. IsInstruction(code[pc])
        BY <1>5, <2>3 DEF Instruction
      <3>2. /\ StateTypes(Result(code[pc], S, P))
            /\ Successor(code[pc], S, Following(nip)) \in Doubles
        BY <1>1, <1>2, <1>4, <3>1, ResultTypes
      <3> QED BY <1>2, <1>3, <2>3, <3>2 DEF Instruction, Ends
    <2>4. CASE InstructionRaises
      <3> DEFINE e == Raises(code[pc], S)
      <3>1. e # None /\ nip' = Following(nip) /\ Thrown(e, P, S, V) /\ UNCHANGED tlb
        BY <2>4 DEF InstructionRaises, Fails
      <3>2. e.nr \in Interrupts /\ e.ea \in Int
        BY <3>1, RaisesTypes
      <3> HIDE DEF e
      <3>3. ExceptionTypes
        BY <1>1, <1>2, <1>3, <3>1, <3>2, ThrownTypes
      <3> QED BY <1>3, <1>4, <3>1, <3>3 DEF ExceptionTypes
    <2>5. CASE InstructionFaults
      <3> DEFINE i == code[pc]
      <3>1. i.op \in Accessing /\ IsInstruction(i)
        BY <1>5, <2>5 DEF InstructionFaults
      <3>2. PICK k \in Faulting : Fails(AccessFault(k), After(i, k - 1, S))
        BY <2>5 DEF InstructionFaults
      <3>3. k \in 1..AllOf(i, S) /\ AccessFault(k) # None
        BY <3>1 DEF Faulting
      <3>4. AllOf(i, S) \in Nat
        BY <1>2, <3>1, AccessTypes DEF AllOf, StateTypes
      <3> DEFINE e == AccessFault(k)
                 t == After(i, k - 1, S)
                 acc == Accesses(i, S.gpr, S.mem)[k]
      <3>5. acc.ea \in Words
        BY <1>2, <3>1, <3>3, AccessTypes DEF AllOf, StateTypes
      <3>6. acc.ea \in Int
        BY <3>5, CastWithin
      <3>7. e = Fault(acc.ea, acc.wr, FALSE)
        BY DEF AccessFault
      <3>8. e.nr \in Interrupts /\ e.ea \in Int
        BY <3>3, <3>6, <3>7, FaultTypes
      <3>9. k - 1 \in 0..AllOf(i, S)
        BY <3>3, <3>4
      <3>10. StateTypes(t) /\ IsState(t)
        BY <1>1, <1>2, <3>1, <3>9, AfterTypes, AfterIsState
      <3>11. nip' = Following(nip) /\ Thrown(e, P, t, V) /\ UNCHANGED tlb
        BY <3>2 DEF Fails
      <3> HIDE DEF e, t
      <3>12. ExceptionTypes
        BY <1>2, <1>3, <3>8, <3>10, <3>11, ThrownTypes
      <3> QED BY <1>3, <1>4, <3>11, <3>12 DEF ExceptionTypes
    <2>6. CASE Return
      <3> DEFINE from == V[ReturnClass(code[pc].op)]
                 s == [S EXCEPT !.msr = from.msr]
      <3>1. code[pc].op \in Returns
        BY <1>5, <2>6 DEF Return
      <3>2. ReturnClass(code[pc].op) \in Classes
        BY <3>1 DEF Returns, ReturnClass, Classes
      <3>3. from \in [at : Doubles, msr : SUBSET MsrBits]
        BY <1>2, <3>2 DEF SaveTypes
      <3>4. Ends(s, Lo(from.at) - (from.at % 4)) /\ UNCHANGED tlb
        BY <2>6 DEF Return
      <3> HIDE DEF from
      <3>5. from.at \in Doubles /\ from.msr \in SUBSET MsrBits
        BY <3>3
      <3>6. Lo(from.at) - (from.at % 4) \in Doubles
        BY <3>5, Aligned
      <3>7. StateTypes(s)
        BY <1>1, <1>2, <3>5, OtherTypes
      <3> HIDE DEF s
      <3> QED BY <1>2, <1>3, <3>4, <3>6, <3>7 DEF Ends
    <2>7. CASE tlbwe
      <3>1. Ends(S, Following(nip))
        BY <2>7 DEF tlbwe
      <3>2. tlb' \in [0..(NPages - 1) -> SUBSET Permissions]
        <4> DEFINE p0 == Page(Lo(dear))
                   p1 == Page(Lo(V["base"].at))
                   more == IF "ST" \in esr THEN {"r", "w"} ELSE {"r"}
        <4>1. ASSUME NEW p, NEW x \in SUBSET Permissions
              PROVE  [tlb EXCEPT ![p] = @ \cup x] \in [0..(NPages - 1) -> SUBSET Permissions]
          BY <1>3
        <4>2. /\ code[pc].i = 0 => tlb' = [tlb EXCEPT ![p0] = @ \cup more]
              /\ code[pc].i # 0 => tlb' = [tlb EXCEPT ![p1] = @ \cup {"r", "x"}]
          BY <2>7 DEF tlbwe
        <4>3. more \in SUBSET Permissions /\ {"r", "x"} \in SUBSET Permissions
          BY DEF Permissions
        <4> HIDE DEF p0, p1, more
        <4>4. /\ [tlb EXCEPT ![p0] = @ \cup more] \in [0..(NPages - 1) -> SUBSET Permissions]
              /\ [tlb EXCEPT ![p1] = @ \cup {"r", "x"}] \in [0..(NPages - 1) -> SUBSET Permissions]
          BY <4>1, <4>3
        <4> QED BY <4>2, <4>4
      <3> QED BY <1>2, <1>3, <1>4, <3>1, <3>2 DEF Ends
    <2>8. ASSUME NEW nr \in Devices, Interrupt(nr) PROVE Goal
      <3> DEFINE e == Exc(nr, "none")
      <3>1. e.nr = nr /\ e.ea = 0
        BY DEF Exc, None
      <3>2. e.nr \in Interrupts /\ e.ea \in Int
        BY <3>1 DEF Devices, Interrupts
      <3>3. Taken(e, pc, st, save) /\ UNCHANGED <<nip, tlb>>
        BY <2>8 DEF Interrupt
      <3> HIDE DEF e
      <3>4. ExceptionTypes
        BY <1>1, <1>3, <3>2, <3>3, TakenTypes
      <3> QED BY <1>3, <3>3, <3>4 DEF ExceptionTypes
    <2>9. CASE Checkstop
      BY <1>3, <2>9 DEF Checkstop
    <2>10. CASE UNCHANGED vars
      BY <1>3, <2>10 DEF vars
    <2> QED
      BY <2>1, <2>2, <2>3, <2>4, <2>5, <2>6, <2>7, <2>8, <2>9, <2>10 DEF Next, Run
  <1>7. Typed'
    BY <1>6 DEF Typed, StateTypes, SaveTypes, EsrBits
  <1> QED BY <1>7

\* In every program the registers hold register values and memory bytes, whatever is loaded,
\* moved, saved or returned to.
THEOREM FlowTypes == Spec => []Typed
  <1>1. Init => Inv /\ Typed
    BY InitInv, InitTyped
  <1>2. (Inv /\ Typed) /\ [Next]_vars => (Inv /\ Typed)'
    BY InvStep, TypedStep
  <1> QED BY <1>1, <1>2, PTL DEF Spec

---------------------------------------------------------------------------
(* The order of bytes *)

\* There are more than a few words.
LEMMA SmallWords == \A n \in 0..15 : n \in Words /\ ToW(n) = n
  <1> DEFINE B == ByteValue
             c == B * B
             q == c * c
  <1>1. B \in Nat /\ B >= 2
    BY Spans
  <1>2. Span(2) = B * B
    <2>1. 1 \in 0..8 /\ 1 + 1 <= 8
      OBVIOUS
    <2>2. Span(1 + 1) = Span(1) * Span(1)
      BY <2>1, Spans
    <2> QED BY <2>2, Spans
  <1>3. Span(4) = Span(2) * Span(2)
    <2>1. 2 \in 0..8 /\ 2 + 2 <= 8
      OBVIOUS
    <2>2. Span(2 + 2) = Span(2) * Span(2)
      BY <2>1, Spans
    <2> QED BY <2>2
  <1>4. WordSize = q
    BY <1>2, <1>3, Spans
  <1>5. c \in Nat /\ c >= 4
    <2> HIDE DEF B
    <2>1. (B - 2) * (B - 2) \in Nat /\ (B - 2) * (B - 2) = B * B - 4 * B + 4 /\ B * B \in Nat
      BY <1>1
    <2> DEFINE d == B * B
    <2>2. d \in Nat /\ d - 4 * B + 4 \in Nat
      BY <2>1
    <2> HIDE DEF d
    <2>3. d >= 4
      BY <1>1, <2>2
    <2> QED BY <2>2, <2>3 DEF d
  <1> HIDE DEF c
  <1>6. q \in Nat /\ q >= 16
    <2>1. (c - 4) * (c - 4) \in Nat /\ (c - 4) * (c - 4) = c * c - 8 * c + 16 /\ c * c \in Nat
      BY <1>5
    <2> DEFINE d == c * c
    <2>2. d \in Nat /\ d - 8 * c + 16 \in Nat
      BY <2>1
    <2> HIDE DEF d
    <2>3. d >= 16
      BY <1>5, <2>2
    <2> QED BY <2>2, <2>3 DEF d
  <1> HIDE DEF q
  <1> QED BY <1>4, <1>6, InSizes, CastWithin

\* After all accesses of an instruction.
LEMMA AfterAll ==
    ASSUME NEW s, IsState(s), NEW i
    PROVE  LET accs == Accesses(i, s.gpr, s.mem)
               t == After(i, AllOf(i, s), s)
           IN  /\ t.gpr = Registers(i, accs, Len(accs), s.gpr, s.mem)
               /\ t.mem = Written(accs, Len(accs), s.mem)
  BY AfterParts DEF IsState, AllOf

\* A word is two halfwords, the first of them the more significant.
LEMMA TwoHalfwords ==
    ASSUME NEW m \in [Words -> Bytes], NEW e \in Int
    PROVE  LET h == LoadN(m, e, 2)
               l == LoadN(m, e + 2, 2)
           IN  /\ h \in 0..(HalfSize - 1) /\ l \in 0..(HalfSize - 1)
               /\ LoadN(m, e, 4) = h * 2^HB + l
               /\ LoadN(m, e, 4) \div 2^HB = h /\ LoadN(m, e, 4) % 2^HB = l
               /\ LoadN(m, e, 4) \in Words
  <1> DEFINE h == LoadN(m, e, 2)
             l == LoadN(m, e + 2, 2)
             w == LoadN(m, e, 4)
  <1>1. e + 2 \in Int /\ 2 \in 0..8 /\ 2 + 2 <= 8
    OBVIOUS
  <1>2. Span(2) = 2^HB /\ Span(2) = HalfSize
    BY Spans DEF HalfSize
  <1>3. h \in 0..(HalfSize - 1)
    BY <1>1, <1>2, LoadRange
  <1>4. l \in 0..(HalfSize - 1)
    <2> DEFINE d == e + 2
    <2>1. d \in Int
      OBVIOUS
    <2> HIDE DEF d
    <2>2. LoadN(m, d, 2) \in 0..(Span(2) - 1)
      BY <1>1, <2>1, LoadRange
    <2> QED BY <1>2, <2>2 DEF d
  <1>5. w = h * 2^HB + l
    <2>1. LoadN(m, e, 2 + 2) = LoadN(m, e, 2) * Span(2) + LoadN(m, e + 2, 2)
      BY <1>1, LoadSplit
    <2>2. 2 + 2 = 4
      OBVIOUS
    <2> QED BY <1>2, <2>1, <2>2
  <1> HIDE DEF h, l, w
  <1>6. w \div 2^HB = h /\ w % 2^HB = l /\ w \in Words
    BY <1>3, <1>4, <1>5, Halfwords
  <1> QED BY <1>3, <1>4, <1>5, <1>6 DEF h, l, w

\* A doubleword is two words.
LEMMA TwoWords ==
    ASSUME NEW m \in [Words -> Bytes], NEW e \in Int
    PROVE  LoadN(m, e, 8) = PACK_2W(LoadN(m, e, 4), LoadN(m, e + 4, 4))
  <1>1. 4 \in 0..8 /\ 4 + 4 <= 8 /\ 4 + 4 = 8
    OBVIOUS
  <1>2. LoadN(m, e, 4 + 4) = LoadN(m, e, 4) * Span(4) + LoadN(m, e + 4, 4)
    BY <1>1, LoadSplit
  <1>3. Span(4) = WordSize
    BY Spans
  <1> QED BY <1>1, <1>2, <1>3, InSizes

\* What a vector load puts into its register are the values at its addresses.
LEMMA VectorValues ==
    ASSUME NEW s, IsState(s), StateTypes(s), NEW i, IsInstruction(i), i.op \in VectorLoads
    PROVE  \E v : /\ After(i, AllOf(i, s), s).gpr[i.d] = Loaded(i.op, v)
                  /\ \A k \in 1..Count(i.op) :
                        v[k] = LoadN(s.mem, Ea(i, s.gpr) + (k - 1) * Size(i.op), Size(i.op))
  <1> DEFINE g == s.gpr
             m == s.mem
             accs == Accesses(i, g, m)
             e == Ea(i, g)
             n == Size(i.op)
             N == Count(i.op)
             v == [k \in 1..Len(accs) |-> LoadN(m, accs[k].ea, accs[k].n)]
             x == Loaded(i.op, v)
  <1>1. /\ i.op \in Accessing /\ i.op \notin ScalarLoads \cup Stores /\ i.op # "lmw"
        /\ g \in [0..LastReg -> Doubles] /\ m \in [Words -> Bytes]
    BY DEF Accessing, ScalarLoads, Stores, VectorLoads, StateTypes
  <1>2. ~i.u /\ i.d \in 0..LastReg
    BY <1>1 DEF IsInstruction
  <1>3. After(i, AllOf(i, s), s).gpr = Registers(i, accs, Len(accs), g, m)
    BY AfterAll
  <1>4. Registers(i, accs, Len(accs), g, m) = [g EXCEPT ![i.d] = x]
    BY <1>1, <1>2 DEF Registers
  <1>5. /\ Len(accs) = N
        /\ \A k \in 1..N : accs[k] = Access(ToW(e + (k - 1) * n), n, FALSE, 0)
    BY LoadAccesses
  <1>6. e \in Int /\ n \in Nat /\ N \in Nat
    BY <1>1, EaIsWord, CastWithin, SizeValues
  <1> HIDE DEF accs, e, n, N
  <1>7. ASSUME NEW k \in 1..N PROVE v[k] = LoadN(m, e + (k - 1) * n, n)
    <2> DEFINE p == (k - 1) * n
    <2>1. accs[k].ea = ToW(e + p) /\ accs[k].n = n
      BY <1>5 DEF Access
    <2>2. p \in Int
      BY <1>6
    <2>3. v[k] = LoadN(m, ToW(e + p), n)
      BY <1>5, <2>1
    <2> HIDE DEF p, v, m
    <2> DEFINE d == e + p
    <2>4. d \in Int
      BY <1>6, <2>2
    <2> HIDE DEF d
    <2>5. LoadN(m, ToW(d), n) = LoadN(m, d, n)
      BY <1>1, <1>6, <2>4, LoadAt DEF m
    <2> QED BY <2>3, <2>5 DEF p, d
  <1> HIDE DEF v
  <1>8. After(i, AllOf(i, s), s).gpr[i.d] = x
    <2> HIDE DEF x
    <2> QED BY <1>1, <1>2, <1>3, <1>4
  <1> QED BY <1>7, <1>8 DEF e, n, N

\* The low word of an extended halfword has its bits.
LEMMA LowHalf ==
    ASSUME NEW x \in 0..(HalfSize - 1)
    PROVE  Lo(ExtsH(x)) % 2^HB = x /\ Lo(ExtsH(x)) \in Words
  <1>1. HB \in 1..DB /\ HB - 1 \in 0..DB
    BY Widths
  <1>2. HalfSize \in Nat /\ HalfSize > 0 /\ WordSize = HalfSize * HalfSize
    BY Sizes
  <1>3. x \in Int
    BY <1>2
  <1> DEFINE y == Signed(x, HB)
  <1>4. y % 2^HB = x % 2^HB
    BY <1>1, <1>3, SignedField
  <1>5. y \in Int
    <2>1. 2^(HB - 1) \in Nat
      BY <1>1, Powers
    <2>2. y \in (-2^(HB - 1))..(2^(HB - 1) - 1)
      BY <1>1, <1>3, SignedField
    <2> QED BY <2>1, <2>2
  <1>6. Lo(ExtsH(x)) = ToW(y) /\ ToW(y) \in Words
    BY <1>5, Casts DEF ExtsH
  <1> HIDE DEF y
  <1>7. ToW(y) = y % (HalfSize * HalfSize)
    BY <1>2, InSizes
  <1>8. (y % (HalfSize * HalfSize)) % HalfSize = y % HalfSize
    BY <1>2, <1>5, DivideByProduct
  <1>9. x % HalfSize = x
    BY <1>2, Within
  <1> QED BY <1>4, <1>6, <1>7, <1>8, <1>9 DEF HalfSize

\* Vector loads order bytes as scalar loads do.
LEMMA VectorsAgree ==
    ASSUME NEW s, IsState(s), StateTypes(s), NEW i, IsInstruction(i), i.op \in VectorLoads
    PROVE  LET ea == Ea(i, s.gpr)
               d == After(i, AllOf(i, s), s).gpr[i.d]
               Hw(k) == LoadN(s.mem, ea + 2 * k, 2)
               Wd(k) == LoadN(s.mem, ea + 4 * k, 4)
           IN  /\ i.op \in {"evldd", "evldh", "evldw"} => d = PACK_2W(Wd(0), Wd(1))
               /\ i.op \in {"evlwhe", "evlwhsplat"} => /\ Hi(d) \div 2^HB = Wd(0) \div 2^HB
                                                       /\ Lo(d) \div 2^HB = Wd(0) % 2^HB
               /\ i.op \in {"evlwhou", "evlwhos"} => /\ Hi(d) % 2^HB = Wd(0) \div 2^HB
                                                     /\ Lo(d) % 2^HB = Wd(0) % 2^HB
               /\ i.op = "evlwhos" => Lo(ExtsH(Hw(0))) = Hi(d) /\ Lo(ExtsH(Hw(1))) = Lo(d)
  <1> DEFINE ea == Ea(i, s.gpr)
             m == s.mem
             d == After(i, AllOf(i, s), s).gpr[i.d]
             n == Size(i.op)
             Hw(k) == LoadN(m, ea + 2 * k, 2)
             Wd(k) == LoadN(m, ea + 4 * k, 4)
  <1>1. ea \in Int /\ m \in [Words -> Bytes]
    BY EaIsWord, CastWithin DEF StateTypes, Accessing
  <1>2. PICK v : /\ d = Loaded(i.op, v)
                 /\ \A k \in 1..Count(i.op) : v[k] = LoadN(m, ea + (k - 1) * n, n)
    BY VectorValues
  <1> HIDE DEF ea, m, d
  <1>3. /\ ea + 2 * 0 = ea /\ ea + 4 * 0 = ea /\ ea + 2 * 1 = ea + 2 /\ ea + 4 * 1 = ea + 4
        /\ (ea + 4) + 2 = ea + 6 /\ ea + 4 \in Int /\ ea + 2 \in Int
    BY <1>1
  <1>4. /\ Wd(0) = LoadN(m, ea, 4) /\ Wd(1) = LoadN(m, ea + 4, 4)
        /\ Hw(0) = LoadN(m, ea, 2) /\ Hw(1) = LoadN(m, ea + 2, 2)
    BY <1>3
  <1> DEFINE h0 == LoadN(m, ea, 2)
             h1 == LoadN(m, ea + 2, 2)
             h2 == LoadN(m, ea + 4, 2)
             h3 == LoadN(m, ea + 6, 2)
  <1>5. /\ h0 \in 0..(HalfSize - 1) /\ h1 \in 0..(HalfSize - 1)
        /\ Wd(0) = h0 * 2^HB + h1 /\ Wd(0) \div 2^HB = h0 /\ Wd(0) % 2^HB = h1
    <2> HIDE DEF Wd, Hw
    <2>1. LoadN(m, ea, 4) = Wd(0)
      BY <1>4
    <2> QED BY <1>1, <2>1, TwoHalfwords
  <1>6. /\ h2 \in 0..(HalfSize - 1) /\ h3 \in 0..(HalfSize - 1) /\ Wd(1) = h2 * 2^HB + h3
    <2> DEFINE e == ea + 4
    <2>1. e \in Int /\ h3 = LoadN(m, e + 2, 2)
      BY <1>3
    <2> HIDE DEF e
    <2>2. /\ LoadN(m, e, 2) \in 0..(HalfSize - 1) /\ LoadN(m, e + 2, 2) \in 0..(HalfSize - 1)
          /\ LoadN(m, e, 4) = LoadN(m, e, 2) * 2^HB + LoadN(m, e + 2, 2)
      BY <1>1, <2>1, TwoHalfwords
    <2> QED BY <1>4, <2>1, <2>2 DEF e
  <1>7. 0 \in 0..(HalfSize - 1) /\ HalfSize \in Nat /\ HalfSize > 0
    BY Sizes
  <1>h. \A h \in 0..(HalfSize - 1) : h \in Words /\ h % 2^HB = h
    <2> TAKE h \in 0..(HalfSize - 1)
    <2>1. 2 \in 0..8 /\ Span(2) = HalfSize
      BY Spans
    <2>2. h \in Words
      BY <2>1, SpanBounds
    <2>3. h % HalfSize = h
      BY <1>7, Within
    <2> QED BY <2>2, <2>3 DEF HalfSize
  <1> HIDE DEF Wd, Hw
  <1>8. CASE i.op \in {"evlwhe", "evlwhsplat", "evlwhou", "evlwhos"}
    <2>1. n = 2 /\ Count(i.op) = 2
      BY <1>8 DEF Size, Count
    <2>2. v[1] = h0 /\ v[2] = h1
      <3>1. 1 \in 1..Count(i.op) /\ 2 \in 1..Count(i.op) /\ ea + (1 - 1) * 2 = ea /\ ea + (2 - 1) * 2 = ea + 2
        BY <1>1, <2>1
      <3> QED BY <1>2, <2>1, <3>1
    <2> HIDE DEF h0, h1
    <2>3. CASE i.op = "evlwhe"
      <3>1. d = PACK_2W(h0 * 2^HB + 0, h1 * 2^HB + 0)
        BY <1>2, <2>2, <2>3 DEF Loaded, PACK_4H
      <3>2. /\ h0 * 2^HB + 0 \in Words /\ (h0 * 2^HB + 0) \div 2^HB = h0
            /\ h1 * 2^HB + 0 \in Words /\ (h1 * 2^HB + 0) \div 2^HB = h1
        BY <1>5, <1>7, Halfwords
      <3>3. Hi(d) = h0 * 2^HB + 0 /\ Lo(d) = h1 * 2^HB + 0
        BY <3>1, <3>2, Packed
      <3> QED BY <1>5, <2>3, <3>2, <3>3 DEF d, ea, m, Wd, Hw
    <2>4. CASE i.op = "evlwhsplat"
      <3>1. d = PACK_2W(h0 * 2^HB + h0, h1 * 2^HB + h1)
        BY <1>2, <2>2, <2>4 DEF Loaded, PACK_4H
      <3>2. /\ h0 * 2^HB + h0 \in Words /\ (h0 * 2^HB + h0) \div 2^HB = h0
            /\ h1 * 2^HB + h1 \in Words /\ (h1 * 2^HB + h1) \div 2^HB = h1
        BY <1>5, <1>7, Halfwords
      <3>3. Hi(d) = h0 * 2^HB + h0 /\ Lo(d) = h1 * 2^HB + h1
        BY <3>1, <3>2, Packed
      <3> QED BY <1>5, <2>4, <3>2, <3>3 DEF d, ea, m, Wd, Hw
    <2>5. CASE i.op = "evlwhou"
      <3>1. d = PACK_2W(h0, h1)
        BY <1>2, <2>2, <2>5 DEF Loaded
      <3>2. Hi(d) = h0 /\ Lo(d) = h1
        BY <1>5, <1>h, <3>1, Packed
      <3>3. Hi(d) % 2^HB = h0 /\ Lo(d) % 2^HB = h1
        BY <1>5, <1>h, <3>2
      <3> QED BY <1>5, <2>5, <3>3 DEF d, ea, m, Wd, Hw
    <2>6. CASE i.op = "evlwhos"
      <3>1. d = PACK_2W(Lo(ExtsH(h0)), Lo(ExtsH(h1)))
        BY <1>2, <2>2, <2>6 DEF Loaded
      <3>2. /\ Lo(ExtsH(h0)) \in Words /\ Lo(ExtsH(h0)) % 2^HB = h0
            /\ Lo(ExtsH(h1)) \in Words /\ Lo(ExtsH(h1)) % 2^HB = h1
        BY <1>5, LowHalf
      <3>3. Hi(d) = Lo(ExtsH(h0)) /\ Lo(d) = Lo(ExtsH(h1))
        BY <3>1, <3>2, Packed
      <3>4. Hi(d) % 2^HB = h0 /\ Lo(d) % 2^HB = h1
        BY <3>2, <3>3
      <3>5. Hw(0) = h0 /\ Hw(1) = h1
        BY <1>4 DEF h0, h1
      <3>6. Lo(ExtsH(Hw(0))) = Hi(d) /\ Lo(ExtsH(Hw(1))) = Lo(d)
        BY <3>3, <3>5
      <3> QED BY <1>5, <2>6, <3>4, <3>6 DEF d, ea, m, Wd, Hw
    <2> QED BY <1>8, <2>3, <2>4, <2>5, <2>6
  <1>9. CASE i.op = "evldd"
    <2>1. n = 8 /\ Count(i.op) = 1
      BY <1>9 DEF Size, Count
    <2>2. v[1] = LoadN(m, ea, 8)
      <3>1. 1 \in 1..Count(i.op) /\ ea + (1 - 1) * 8 = ea
        BY <1>1, <2>1
      <3> QED BY <1>2, <2>1, <3>1
    <2>3. d = LoadN(m, ea, 8)
      BY <1>2, <1>9, <2>2 DEF Loaded
    <2>4. d = PACK_2W(Wd(0), Wd(1))
      BY <1>1, <1>4, <2>3, TwoWords
    <2> QED BY <1>9, <2>4 DEF d, ea, m, Wd, Hw
  <1>10. CASE i.op = "evldw"
    <2>1. n = 4 /\ Count(i.op) = 2
      BY <1>10 DEF Size, Count
    <2>2. v[1] = LoadN(m, ea, 4) /\ v[2] = LoadN(m, ea + 4, 4)
      <3>1. 1 \in 1..Count(i.op) /\ 2 \in 1..Count(i.op) /\ ea + (1 - 1) * 4 = ea /\ ea + (2 - 1) * 4 = ea + 4
        BY <1>1, <2>1
      <3> QED BY <1>2, <2>1, <3>1
    <2>3. d = PACK_2W(v[1], v[2])
      BY <1>2, <1>10 DEF Loaded
    <2>4. d = PACK_2W(Wd(0), Wd(1))
      BY <1>4, <2>2, <2>3
    <2> QED BY <1>10, <2>4 DEF d, ea, m, Wd, Hw
  <1>11. CASE i.op = "evldh"
    <2>1. n = 2 /\ Count(i.op) = 4
      BY <1>11 DEF Size, Count
    <2>2. v[1] = h0 /\ v[2] = h1 /\ v[3] = h2 /\ v[4] = h3
      <3>1. /\ 1 \in 1..Count(i.op) /\ 2 \in 1..Count(i.op) /\ ea + (1 - 1) * 2 = ea /\ ea + (2 - 1) * 2 = ea + 2
            /\ 3 \in 1..Count(i.op) /\ 4 \in 1..Count(i.op) /\ ea + (3 - 1) * 2 = ea + 4 /\ ea + (4 - 1) * 2 = ea + 6
        BY <1>1, <2>1
      <3> QED BY <1>2, <2>1, <3>1
    <2> HIDE DEF h0, h1, h2, h3
    <2>3. d = PACK_2W(h0 * 2^HB + h1, h2 * 2^HB + h3)
      BY <1>2, <1>11, <2>2 DEF Loaded, PACK_4H
    <2>4. d = PACK_2W(Wd(0), Wd(1))
      BY <1>5, <1>6, <2>3
    <2> QED BY <1>11, <2>4 DEF d, ea, m, Wd, Hw
  <1>12. CASE i.op \notin {"evldd", "evldh", "evldw", "evlwhe", "evlwhsplat", "evlwhou", "evlwhos"}
    BY <1>12
  <1> QED BY <1>8, <1>9, <1>10, <1>11, <1>12

---------------------------------------------------------------------------
(* What stores leave in memory *)

\* How far x is behind the address at p behind e.
LEMMA Offsets ==
    ASSUME NEW e \in Int, NEW x \in Int, NEW p \in Int
    PROVE  /\ ToW(x - ToW(e + p)) = ToW(ToW(x - e) - p)
           /\ ToW(ToW(e + p) - e) = ToW(p)
  <1>1. e + p \in Int /\ x - e \in Int /\ x - (e + p) = (x - e) - p /\ (e + p) - e = p
    OBVIOUS
  <1>2. ToW(x - ToW(e + p)) = ToW(x - (e + p))
    <2> DEFINE y == e + p
    <2>1. y \in Int
      BY <1>1
    <2> HIDE DEF y
    <2>2. ToW(x - ToW(y)) = ToW(x - y)
      BY <2>1, CastOfSum
    <2> QED BY <2>2 DEF y
  <1>3. ToW(ToW(x - e) - p) = ToW((x - e) - p)
    <2> DEFINE y == x - e
    <2>1. y \in Int
      BY <1>1
    <2> HIDE DEF y
    <2>2. ToW(ToW(y) - p) = ToW(y - p)
      BY <2>1, CastOfSum
    <2> QED BY <2>2 DEF y
  <1>4. ToW(ToW(e + p) - e) = ToW((e + p) - e)
    <2> DEFINE y == e + p
    <2>1. y \in Int
      BY <1>1
    <2> HIDE DEF y
    <2>2. ToW(ToW(y) - e) = ToW(y - e)
      BY <2>1, CastOfSum
    <2> QED BY <2>2 DEF y
  <1> QED BY <1>1, <1>2, <1>3, <1>4

\* Whether a word is among the n behind another, with no way around the address space.
LEMMA CoversWhere ==
    ASSUME NEW t \in Words, NEW p \in Nat, NEW n \in 1..8
    PROVE  /\ t \in p..(p + n - 1) => ToW(t - p) = t - p
           /\ p + n <= WordSize /\ ToW(t - p) < n => t \in p..(p + n - 1)
  <1>1. WordSize \in Nat /\ WordSize > 0 /\ t \in 0..(WordSize - 1)
    BY Sizes, InSizes
  <1>2. CASE t >= p
    <2>1. t - p \in 0..(WordSize - 1)
      BY <1>1, <1>2
    <2>2. ToW(t - p) = t - p
      BY <2>1, InSizes, CastWithin
    <2> QED BY <1>1, <1>2, <2>2
  <1>3. CASE t < p
    <2>1. ~(p + n <= WordSize /\ ToW(t - p) < n)
      <3> SUFFICES ASSUME p + n <= WordSize, ToW(t - p) < n PROVE FALSE
        OBVIOUS
      <3> DEFINE d == t - p
                 y == d + 1 * WordSize
      <3>1. y \in 0..(WordSize - 1) /\ y >= n /\ d \in Int
        BY <1>1, <1>3
      <3> HIDE DEF d
      <3>2. y % WordSize = d % WordSize
        BY <1>1, <3>1, AddMultiple
      <3>3. y % WordSize = y
        <4> HIDE DEF y
        <4> QED BY <1>1, <3>1, Within
      <3>4. ToW(d) = y
        BY <3>2, <3>3, InSizes
      <3>5. ToW(d) < n
        BY DEF d
      <3> HIDE DEF y
      <3> QED BY <3>1, <3>4, <3>5
    <2>2. t \notin p..(p + n - 1)
      BY <1>1, <1>3
    <2> QED BY <2>1, <2>2
  <1> QED BY <1>1, <1>2, <1>3

\* What an access leaves at an address, and that no other of the first accesses does.
ByteOf(acc, x) == (acc.val \div Span(acc.n - 1 - ToW(x - acc.ea))) % ByteValue
Only(accs, first, x, k) ==
    k \in 1..first /\ Covers(accs[k], x) /\ \A j \in 1..first : Covers(accs[j], x) => j = k

\* So that is what is there then.
LEMMA WrittenBy ==
    ASSUME NEW m, NEW accs, NEW first, NEW x \in DOMAIN m, NEW k, Only(accs, first, x, k)
    PROVE  Written(accs, first, m)[x] = ByteOf(accs[k], x)
  <1> DEFINE byte(acc) == (acc.val \div 2^(BB * (acc.n - 1 - ToW(x - acc.ea)))) % ByteValue
             c == CHOOSE j \in 1..first : Covers(accs[j], x)
  <1>1. Written(accs, first, m)[x] = IF \E j \in 1..first : Covers(accs[j], x) THEN byte(accs[c]) ELSE m[x]
    BY DEF Written
  <1> HIDE DEF byte
  <1>2. c = k /\ \E j \in 1..first : Covers(accs[j], x)
    BY DEF Only
  <1> HIDE DEF c
  <1> QED BY <1>1, <1>2 DEF byte, Span, ByteOf

\* What no access covers stays.
LEMMA NotWritten ==
    ASSUME NEW m, NEW accs, NEW first, NEW x \in DOMAIN m, \A k \in 1..first : ~Covers(accs[k], x)
    PROVE  Written(accs, first, m)[x] = m[x]
  BY DEF Written

\* The last of these accesses is the only one that writes.
LastWrites(accs, N) == accs[N].wr /\ \A k \in 1..(N - 1) : ~accs[k].wr

\* It leaves what is there.
LEMMA OneWrite ==
    ASSUME NEW m, NEW accs, NEW N \in Nat \ {0}, LastWrites(accs, N),
           accs[N].ea \in Words, accs[N].n \in 1..8, NEW x \in Words, x \in DOMAIN m
    PROVE  /\ ToW(x - accs[N].ea) >= accs[N].n => Written(accs, N, m)[x] = m[x]
           /\ ToW(x - accs[N].ea) < accs[N].n => Written(accs, N, m)[x] = ByteOf(accs[N], x)
  <1> DEFINE t == ToW(x - accs[N].ea)
             n == accs[N].n
  <1>1. \A k \in 1..N : Covers(accs[k], x) => k = N
    <2> TAKE k \in 1..N
    <2>1. k # N => k \in 1..(N - 1)
      OBVIOUS
    <2> QED BY <2>1 DEF Covers, LastWrites
  <1>2. t \in Int /\ n \in Int
    <2>1. x - accs[N].ea \in Int
      BY CastWithin
    <2> QED BY <2>1, Casts, CastWithin
  <1>3. Covers(accs[N], x) <=> t < n
    BY DEF Covers, LastWrites
  <1> HIDE DEF t, n
  <1>4. t >= n => ~(t < n)
    BY <1>2
  <1>5. t >= n => Written(accs, N, m)[x] = m[x]
    <2> HAVE t >= n
    <2>1. \A k \in 1..N : ~Covers(accs[k], x)
      BY <1>1, <1>3, <1>4
    <2> QED BY <2>1, NotWritten
  <1>6. t < n => Written(accs, N, m)[x] = ByteOf(accs[N], x)
    <2> HAVE t < n
    <2>1. Only(accs, N, x, N)
      BY <1>1, <1>3 DEF Only
    <2> QED BY <2>1, WrittenBy
  <1> QED BY <1>5, <1>6 DEF t, n

\* A store in one access is read back, and leaves every other byte.
LEMMA StoresAgree ==
    ASSUME NEW s, IsState(s), StateTypes(s), NEW i, IsInstruction(i), i.op \in Stores
    PROVE  LET ea == Ea(i, s.gpr)
               n == Size(i.op)
               after == After(i, AllOf(i, s), s).mem
           IN  /\ i.op \in {"stb", "sth", "stw"} => LoadN(after, ea, n) = s.gpr[i.d] % 2^(BB * n)
               /\ \A x \in Words : ToW(x - ea) >= n => after[x] = s.mem[x]
  <1> DEFINE g == s.gpr
             m == s.mem
             ea == Ea(i, g)
             n == Size(i.op)
             accs == Accesses(i, g, m)
             after == After(i, AllOf(i, s), s).mem
             val == StoredValue(i.op, g[i.d])
  <1>0. i.op \in Accessing /\ g \in [0..LastReg -> Doubles] /\ m \in [Words -> Bytes]
    BY DEF Accessing, StateTypes
  <1>1. ea \in Words /\ ea \in Int /\ n \in 1..8 /\ n \in 0..8
    BY <1>0, EaIsWord, CastWithin, SizeValues
  <1>2. Len(accs) = 1 /\ accs[1] = Access(ea, n, TRUE, val)
    BY StoreAccesses
  <1>3. after = Written(accs, 1, m)
    BY <1>2, AfterAll
  <1>4. g[i.d] \in Int
    <2>1. i.d \in 0..LastReg
      BY <1>0 DEF IsInstruction
    <2> QED BY <1>0, <2>1, CastWithin
  <1>5. i.op \in {"stb", "sth", "stw"} => val = g[i.d] % Span(n)
    BY DEF StoredValue, Span
  <1>6. Span(n) \in Nat /\ Span(n) > 0
    BY <1>1, Spans
  <1>7. after \in [Words -> Bytes]
    <2>1. AllOf(i, s) \in Nat
      BY <1>2 DEF AllOf
    <2>2. AllOf(i, s) \in 0..AllOf(i, s)
      BY <2>1
    <2> QED BY <1>0, <2>2, AfterTypes DEF StateTypes
  <1> HIDE DEF accs, after, ea, n, val, m, g
  <1>8. ASSUME NEW x \in Words
        PROVE  /\ ToW(x - ea) >= n => after[x] = m[x]
               /\ ToW(x - ea) < n => after[x] = (val \div Span(n - 1 - ToW(x - ea))) % ByteValue
    <2>1. accs[1].ea = ea /\ accs[1].n = n /\ accs[1].val = val
      BY <1>2 DEF Access
    <2>2. LastWrites(accs, 1)
      <3>1. accs[1].wr
        BY <1>2 DEF Access
      <3>2. \A k \in 1..(1 - 1) : FALSE
        OBVIOUS
      <3> QED BY <3>1, <3>2 DEF LastWrites
    <2>3. 1 \in Nat \ {0} /\ x \in DOMAIN m
      BY <1>0
    <2>4. /\ ToW(x - accs[1].ea) >= accs[1].n => Written(accs, 1, m)[x] = m[x]
          /\ ToW(x - accs[1].ea) < accs[1].n => Written(accs, 1, m)[x] = ByteOf(accs[1], x)
      BY <1>1, <2>1, <2>2, <2>3, OneWrite
    <2> QED BY <1>3, <2>1, <2>4 DEF ByteOf
  <1>9. i.op \in {"stb", "sth", "stw"} => LoadN(after, ea, n) = g[i.d] % Span(n)
    <2> HAVE i.op \in {"stb", "sth", "stw"}
    <2>1. val \in 0..(Span(n) - 1) /\ val \in Int
      BY <1>4, <1>5, <1>6, Division
    <2>2. ASSUME NEW j \in 0..(n - 1) PROVE after[ToW(ea + j)] = (val \div Span(n - 1 - j)) % ByteValue
      <3>1. j \in 0..15 /\ j \in Int /\ j < n
        BY <1>1
      <3>2. ToW(ToW(ea + j) - ea) = j
        BY <1>1, <3>1, Offsets, SmallWords
      <3>3. ToW(ea + j) \in Words
        BY <1>1, <3>1, Casts
      <3> QED BY <1>8, <3>1, <3>2, <3>3
    <2>3. LoadN(after, ea, n) = val % Span(n)
      BY <1>1, <1>7, <2>1, <2>2, StoredDigits
    <2>4. val % Span(n) = val
      BY <1>6, <2>1, Within
    <2> QED BY <1>5, <2>3, <2>4
  <1>10. /\ i.op \in {"stb", "sth", "stw"} => LoadN(after, ea, n) = g[i.d] % 2^(BB * n)
         /\ \A x \in Words : ToW(x - ea) >= n => after[x] = m[x]
    BY <1>8, <1>9 DEF Span
  <1> QED BY <1>10 DEF after, ea, n, m, g

\* What writes back what it reads, and what only reads, leaves memory as it is.
LEMMA OthersAgree ==
    ASSUME NEW s, IsState(s), StateTypes(s), NEW i, IsInstruction(i),
           i.op \in ScalarLoads \cup VectorLoads \cup TouchLoads \cup TouchStores
    PROVE  After(i, AllOf(i, s), s).mem = s.mem
  <1> DEFINE g == s.gpr
             m == s.mem
             ea == Ea(i, g)
             n == Size(i.op)
             accs == Accesses(i, g, m)
             after == After(i, AllOf(i, s), s).mem
  <1>0. i.op \in Accessing /\ g \in [0..LastReg -> Doubles] /\ m \in [Words -> Bytes]
    BY DEF Accessing, StateTypes
  <1>1. ea \in Words /\ ea \in Int /\ n \in 1..8 /\ n \in 0..8
    BY <1>0, EaIsWord, CastWithin, SizeValues
  <1>2. after = Written(accs, Len(accs), m)
    BY AfterAll
  <1>3. CASE i.op \in ScalarLoads \cup VectorLoads \cup TouchLoads
    <2>1. /\ Len(accs) = Count(i.op)
          /\ \A k \in 1..Count(i.op) : accs[k] = Access(ToW(ea + (k - 1) * n), n, FALSE, 0)
      BY <1>3, LoadAccesses
    <2> HIDE DEF accs, ea, n
    <2>2. \A k \in 1..Len(accs) : ~accs[k].wr
      BY <2>1 DEF Access
    <2>3. HasAddresses(m)
      BY <1>0 DEF HasAddresses
    <2>4. Written(accs, Len(accs), m) = m
      BY <2>2, <2>3, NothingWritten
    <2> QED BY <1>2, <2>4
  <1>4. CASE i.op \in TouchStores
    <2> DEFINE val == LoadN(m, ea, n)
    <2>1. Len(accs) = 2 /\ accs[1] = Access(ea, n, FALSE, 0) /\ accs[2] = Access(ea, n, TRUE, val)
      <3> HIDE DEF g, m, ea, n, accs, val
      <3>1. /\ Len(Accesses(i, g, m)) = 2
            /\ Accesses(i, g, m)[1] = Access(Ea(i, g), Size(i.op), FALSE, 0)
            /\ Accesses(i, g, m)[2] = Access(Ea(i, g), Size(i.op), TRUE, Touched(i, g, m))
        BY <1>4, TouchAccesses
      <3>2. val = Touched(i, g, m)
        BY DEF Touched, val, ea, n
      <3> QED BY <3>1, <3>2 DEF accs, ea, n
    <2> HIDE DEF accs, ea, n, val, m, after
    <2>2. LastWrites(accs, 2)
      <3>1. \A k \in 1..(2 - 1) : k = 1
        OBVIOUS
      <3>2. ~accs[1].wr /\ accs[2].wr
        BY <2>1 DEF Access
      <3> QED BY <3>1, <3>2 DEF LastWrites
    <2>2a. accs[2].ea = ea /\ accs[2].n = n /\ accs[2].val = val
      BY <2>1 DEF Access
    <2>3. ASSUME NEW x \in Words PROVE after[x] = m[x]
      <3> DEFINE t == ToW(x - ea)
      <3>1. 2 \in Nat \ {0}
        OBVIOUS
      <3>2. /\ t >= n => Written(accs, 2, m)[x] = m[x]
            /\ t < n => Written(accs, 2, m)[x] = (val \div Span(n - 1 - t)) % ByteValue
        <4>1. x \in DOMAIN m
          BY <1>0
        <4>2. /\ ToW(x - accs[2].ea) >= accs[2].n => Written(accs, 2, m)[x] = m[x]
              /\ ToW(x - accs[2].ea) < accs[2].n => Written(accs, 2, m)[x] = ByteOf(accs[2], x)
          BY <1>1, <2>2, <2>2a, <3>1, <4>1, OneWrite
        <4> QED BY <2>2a, <4>2 DEF ByteOf
      <3>3. x \in Int /\ x - ea \in Int /\ ea + (x - ea) = x
        BY <1>1, CastWithin
      <3>4. t \in Nat
        BY <3>3, Casts, InSizes, Sizes
      <3>5. ToW(ea + t) = x
        <4> DEFINE y == x - ea
        <4>1. y \in Int
          BY <3>3
        <4> HIDE DEF y
        <4>2. ToW(ea + ToW(y)) = ToW(ea + y)
          BY <1>1, <4>1, CastOfSum
        <4>3. ToW(x) = x
          BY CastWithin
        <4> QED BY <3>3, <4>2, <4>3 DEF y
      <3> HIDE DEF t
      <3>6. t < n => (val \div Span(n - 1 - t)) % ByteValue = m[ToW(ea + t)]
        <4> HAVE t < n
        <4>1. t \in 0..(n - 1)
          BY <1>1, <3>4
        <4> QED BY <1>0, <1>1, <4>1, LoadedDigits DEF val
      <3>7. t >= n \/ t < n
        BY <1>1, <3>4
      <3> QED BY <1>2, <2>1, <3>2, <3>5, <3>6, <3>7
    <2>4. after \in [Words -> Bytes]
      <3>1. AllOf(i, s) \in Nat
        BY <2>1 DEF AllOf, accs, m
      <3>2. AllOf(i, s) \in 0..AllOf(i, s)
        BY <3>1
      <3> QED BY <1>0, <3>2, AfterTypes DEF StateTypes, after
    <2>5. after = m
      BY <1>0, <2>3, <2>4
    <2> QED BY <2>5 DEF after, m
  <1> QED BY <1>3, <1>4

---------------------------------------------------------------------------
(* Multiple stores and loads *)

\* N accesses of n bytes each, one behind the other from e on, that write.
Successive(accs, N, n, e) ==
    \A k \in 1..N : accs[k].wr /\ accs[k].n = n /\ accs[k].ea = ToW(e + n * (k - 1))

\* Which of them covers an address.
LEMMA RunCovers ==
    ASSUME NEW accs, NEW N \in Nat, NEW n \in {4, 8}, NEW e \in Words, Successive(accs, N, n, e),
           NEW x \in Words, NEW k \in 1..N
    PROVE  LET t == ToW(x - e)
               p == n * (k - 1)
           IN  /\ p \in Nat /\ t \in Words
               /\ ToW(x - accs[k].ea) = ToW(t - p)
               /\ t \in p..(p + n - 1) => Covers(accs[k], x) /\ ToW(x - accs[k].ea) = t - p
               /\ p + n <= WordSize /\ Covers(accs[k], x) => t \in p..(p + n - 1)
  <1> DEFINE t == ToW(x - e)
             p == n * (k - 1)
  <1>1. p \in Nat /\ p \in Int /\ n \in 1..8 /\ n \in Int
    <2>1. CASE n = 4
      BY <2>1
    <2>2. CASE n = 8
      BY <2>2
    <2> QED BY <2>1, <2>2
  <1>2. e \in Int /\ x \in Int /\ x - e \in Int
    BY CastWithin
  <1>3. t \in Words /\ t \in Int
    <2> DEFINE y == x - e
    <2>1. y \in Int
      BY <1>2
    <2> HIDE DEF y
    <2>2. ToW(y) \in Words /\ ToW(y) \in Int
      BY <2>1, Casts, CastWithin
    <2> QED BY <2>2 DEF y
  <1>4. accs[k].wr /\ accs[k].n = n /\ accs[k].ea = ToW(e + p)
    BY DEF Successive
  <1> HIDE DEF p
  <1>5. ToW(x - ToW(e + p)) = ToW(t - p)
    BY <1>1, <1>2, Offsets
  <1> HIDE DEF t
  <1>6. ToW(x - accs[k].ea) = ToW(t - p)
    BY <1>4, <1>5
  <1>7. Covers(accs[k], x) <=> ToW(t - p) < n
    BY <1>4, <1>6 DEF Covers
  <1>8. /\ t \in p..(p + n - 1) => ToW(t - p) = t - p
        /\ p + n <= WordSize /\ ToW(t - p) < n => t \in p..(p + n - 1)
    BY <1>1, <1>3, CoversWhere
  <1>9. t \in p..(p + n - 1) => t - p < n
    BY <1>1, <1>3
  <1>10. /\ p \in Nat /\ t \in Words
         /\ ToW(x - accs[k].ea) = ToW(t - p)
         /\ t \in p..(p + n - 1) => Covers(accs[k], x) /\ ToW(x - accs[k].ea) = t - p
         /\ p + n <= WordSize /\ Covers(accs[k], x) => t \in p..(p + n - 1)
    BY <1>1, <1>3, <1>6, <1>7, <1>8, <1>9
  <1> QED BY <1>10 DEF p, t

\* Where they end.
EndBy(N, n, end) == end \in Nat /\ \A k \in 1..N : n * (k - 1) + n <= end

\* Nothing happens to the byte at an address.
Kept(accs, N, m, x) == Written(accs, N, m)[x] = m[x]

\* What is beyond the last of them stays.
LEMMA RunBeyond ==
    ASSUME NEW accs, NEW N \in Nat, NEW n \in {4, 8}, NEW e \in Words, Successive(accs, N, n, e),
           NEW end, EndBy(N, n, end),
           NEW m, NEW x \in Words, x \in DOMAIN m, ToW(x - e) >= end
    PROVE  Kept(accs, N, m, x)
  <1> SUFFICES ASSUME NEW k \in 1..N, Covers(accs[k], x) PROVE FALSE
    BY NotWritten DEF Kept
  <1> DEFINE t == ToW(x - e)
             p == n * (k - 1)
  <1>1. p \in Nat /\ p + n <= end /\ n \in Nat /\ end \in Nat
    BY RunCovers DEF EndBy
  <1>2. t \in Words /\ (p + n <= WordSize /\ Covers(accs[k], x) => t \in p..(p + n - 1))
    BY RunCovers
  <1>3. t >= end
    OBVIOUS
  <1>4. WordSize \in Nat /\ t \in 0..(WordSize - 1)
    <2> HIDE DEF t
    <2> QED BY <1>2, Sizes, InSizes
  <1> HIDE DEF t, p
  <1>5. p + n <= WordSize
    BY <1>1, <1>3, <1>4
  <1>6. t \in p..(p + n - 1)
    BY <1>2, <1>5
  <1> QED BY <1>1, <1>3, <1>4, <1>6

\* stmw writes its registers one behind the other, each read back whole.
LEMMA StmwAgrees ==
    ASSUME NEW s, IsState(s), StateTypes(s), NEW i, IsInstruction(i), i.op = "stmw"
    PROVE  LET ea == Ea(i, s.gpr)
               after == After(i, AllOf(i, s), s).mem
           IN  /\ \A r \in i.d..LastReg : LoadN(after, ea + 4 * (r - i.d), 4) = s.gpr[r] % 2^(BB * 4)
               /\ \A x \in Words : ToW(x - ea) >= 4 * (LastReg + 1 - i.d) => after[x] = s.mem[x]
  <1> DEFINE g == s.gpr
             m == s.mem
             ea == Ea(i, g)
             d == i.d
             N == LastReg + 1 - d
             accs == Accesses(i, g, m)
             after == After(i, AllOf(i, s), s).mem
  <1>0. i.op \in Accessing /\ i.op \in Multiples /\ g \in [0..LastReg -> Doubles] /\ m \in [Words -> Bytes]
    BY DEF Accessing, StateTypes, Multiples
  <1>1. ea \in Words /\ ea \in Int
    BY <1>0, EaIsWord, CastWithin
  <1>2. d \in 0..LastReg /\ N \in Nat /\ LastReg \in Nat /\ d \in Nat
    BY <1>0, GuestAssumption DEF IsInstruction
  <1>3. 4 * N <= WordSize /\ WordSize \in Nat
    BY <1>2, Sizes, GuestAssumption DEF WordSize
  <1>4. Size(i.op) = 4 /\ Multiplicity(i) = N
    BY DEF Size, Multiplicity
  <1>5. /\ Len(accs) = N
        /\ \A k \in 1..N :
              /\ accs[k].ea = ToW(ea + (k - 1) * 4) /\ accs[k].n = 4
              /\ accs[k].wr = (i.op # "lmw")
              /\ accs[k].val = ValueAt(i, g, k)
    <2> HIDE DEF g, m, N, ea, accs
    <2>1. LET as == Accesses(i, g, m) IN
            /\ Multiplicity(i) \in Nat /\ Len(as) = Multiplicity(i)
            /\ \A k \in 1..Multiplicity(i) :
                  /\ as[k].ea = ToW(Ea(i, g) + (k - 1) * Size(i.op)) /\ as[k].n = Size(i.op)
                  /\ as[k].wr = (i.op # "lmw")
                  /\ as[k].val = ValueAt(i, g, k)
      BY <1>0, EachAccess
    <2> QED BY <1>4, <2>1 DEF accs, ea
  <1>6. after = Written(accs, N, m)
    BY <1>5, AfterAll
  <1>7. after \in [Words -> Bytes]
    <2>1. AllOf(i, s) \in Nat
      BY <1>2, <1>5 DEF AllOf
    <2>2. AllOf(i, s) \in 0..AllOf(i, s)
      BY <2>1
    <2> QED BY <1>0, <2>2, AfterTypes DEF StateTypes
  <1>8. \A k \in 1..N : accs[k].val = Lo(g[d + k - 1])
    BY <1>5 DEF ValueAt
  <1>9. \A r \in 0..LastReg : g[r] \in Int
    BY <1>0, CastWithin
  <1> HIDE DEF accs, after, ea, m, g, N
  <1>10. Successive(accs, N, 4, ea)
    <2> SUFFICES ASSUME NEW k \in 1..N
                 PROVE  accs[k].wr /\ accs[k].n = 4 /\ accs[k].ea = ToW(ea + 4 * (k - 1))
      BY DEF Successive
    <2>1. (k - 1) * 4 = 4 * (k - 1)
      OBVIOUS
    <2> QED BY <1>5, <2>1
  <1>11. ASSUME NEW x \in Words, ToW(x - ea) >= 4 * N PROVE after[x] = m[x]
    <2>1. x \in DOMAIN m
      BY <1>0
    <2>2. EndBy(N, 4, 4 * N)
      BY <1>2 DEF EndBy
    <2> DEFINE end == 4 * N
    <2>3. EndBy(N, 4, end) /\ ToW(x - ea) >= end
      BY <1>11, <2>2
    <2> HIDE DEF end
    <2>4. Kept(accs, N, m, x)
      BY <1>1, <1>2, <1>10, <2>1, <2>3, RunBeyond
    <2> QED BY <1>6, <2>4 DEF Kept
  <1>12. ASSUME NEW r \in d..LastReg
         PROVE  LoadN(after, ea + 4 * (r - d), 4) = g[r] % Span(4)
    <2> DEFINE k == r - d + 1
               p == 4 * (k - 1)
               val == g[r] % WordSize
    <2>1. k \in 1..N /\ k \in Nat /\ p \in Nat /\ p + 4 <= 4 * N /\ p = 4 * (r - d) /\ d + k - 1 = r
      BY <1>2 DEF N
    <2>2. r \in 0..LastReg
      BY <1>2
    <2>3. accs[k].val = val
      <3>1. accs[k].val = Lo(g[d + k - 1]) /\ d + k - 1 = r
        <4> HIDE DEF k
        <4> QED BY <1>8, <2>1
      <3> QED BY <3>1 DEF Lo, WordSize
    <2>4. val \in Int
      BY <1>9, <2>2, Division, Sizes
    <2> HIDE DEF k, p, val
    <2>5. ASSUME NEW j \in 0..(4 - 1)
          PROVE  after[ToW(ea + p + j)] = (val \div Span(4 - 1 - j)) % ByteValue
      <3> DEFINE x == ToW(ea + (p + j))
                 t == ToW(x - ea)
      <3>1. p + j \in 0..(WordSize - 1) /\ p + j \in Int /\ ea + (p + j) \in Int /\ ea + (p + j) = ea + p + j
        BY <1>1, <1>2, <1>3, <2>1
      <3>2. x \in Words
        BY <3>1, Casts
      <3>3. t = p + j
        <4> DEFINE y == p + j
        <4>1. y \in Int /\ y \in Words
          BY <3>1, InSizes
        <4> HIDE DEF y
        <4>2. ToW(ToW(ea + y) - ea) = y
          BY <1>1, <4>1, Offsets, CastWithin
        <4> QED BY <4>2 DEF y
      <3> HIDE DEF x, t
      <3>4. t \in p..(p + 4 - 1) /\ t - p = j
        <4>1. p \in Nat /\ j \in 0..3
          BY <2>1
        <4> QED BY <3>3, <4>1
      <3>5. Covers(accs[k], x) /\ ToW(x - accs[k].ea) = j
        <4>1. t \in 4 * (k - 1)..(4 * (k - 1) + 4 - 1) /\ t - 4 * (k - 1) = j
          BY <3>4 DEF p
        <4> QED BY <1>1, <1>2, <1>10, <2>1, <3>2, <4>1, RunCovers DEF t
      <3>6. ASSUME NEW l \in 1..N, Covers(accs[l], x) PROVE l = k
        <4> DEFINE q == 4 * (l - 1)
        <4>1. q \in Nat /\ q + 4 <= WordSize
          BY <1>2, <1>3
        <4>2. t \in q..(q + 4 - 1)
          BY <1>1, <1>2, <1>10, <3>2, <3>6, <4>1, RunCovers DEF t
        <4> QED BY <1>2, <2>1, <3>4, <4>2 DEF p
      <3>7. Only(accs, N, x, k)
        BY <2>1, <3>5, <3>6 DEF Only
      <3>8. x \in DOMAIN m
        BY <1>0, <3>2
      <3>9. after[x] = ByteOf(accs[k], x)
        BY <1>6, <3>7, <3>8, WrittenBy
      <3>10. ByteOf(accs[k], x) = (val \div Span(4 - 1 - j)) % ByteValue
        BY <1>5, <2>1, <2>3, <3>5 DEF ByteOf
      <3> QED BY <3>1, <3>9, <3>10 DEF x
    <2>6. ea + p \in Int
      BY <1>1, <2>1
    <2>7. LoadN(after, ea + p, 4) = val % Span(4)
      <3> DEFINE e == ea + p
      <3>1. e \in Int
        BY <2>6
      <3>2. ASSUME NEW j \in 0..(4 - 1)
            PROVE  after[ToW(e + j)] = (val \div Span(4 - 1 - j)) % ByteValue
        BY <2>5
      <3> HIDE DEF e
      <3>3. LoadN(after, e, 4) = val % Span(4)
        <4>1. 4 \in 0..8
          OBVIOUS
        <4> QED BY <1>7, <2>4, <3>1, <3>2, <4>1, StoredDigits
      <3> QED BY <3>3 DEF e
    <2>8. val % Span(4) = val
      <3>1. val \in 0..(WordSize - 1) /\ WordSize \in Nat /\ WordSize > 0
        BY <1>9, <2>2, Division, Sizes DEF val
      <3> QED BY <2>4, <3>1, Within, Spans
    <2> QED BY <2>1, <2>7, <2>8, Spans DEF val
  <1>13. /\ \A r \in d..LastReg : LoadN(after, ea + 4 * (r - d), 4) = g[r] % 2^(BB * 4)
         /\ \A x \in Words : ToW(x - ea) >= 4 * N => after[x] = m[x]
    BY <1>11, <1>12 DEF Span
  <1> QED BY <1>13 DEF after, ea, m, g, N

\* dcbz clears its cache line.
LEMMA DcbzAgrees ==
    ASSUME NEW s, IsState(s), StateTypes(s), NEW i, IsInstruction(i), i.op = "dcbz"
    PROVE  LET ea == Ea(i, s.gpr)
               after == After(i, AllOf(i, s), s).mem
           IN  /\ \A x \in Words : ToW(x - ea) < CacheLine => after[x] = 0
               /\ \A x \in Words : ToW(x - ea) >= CacheLine => after[x] = s.mem[x]
  <1> DEFINE g == s.gpr
             m == s.mem
             ea == Ea(i, g)
             N == CacheLine \div 8
             accs == Accesses(i, g, m)
             after == After(i, AllOf(i, s), s).mem
  <1>0. i.op \in Accessing /\ i.op \in Multiples /\ g \in [0..LastReg -> Doubles] /\ m \in [Words -> Bytes]
    BY DEF Accessing, StateTypes, Multiples
  <1>1. ea \in Words /\ ea \in Int
    BY <1>0, EaIsWord, CastWithin
  <1>2. N \in Nat /\ 8 * N = CacheLine
    BY GuestAssumption
  <1>3. Size(i.op) = 8 /\ Multiplicity(i) = N
    BY DEF Size, Multiplicity
  <1>4. /\ Len(accs) = N
        /\ \A k \in 1..N :
              /\ accs[k].ea = ToW(ea + (k - 1) * 8) /\ accs[k].n = 8
              /\ accs[k].wr = (i.op # "lmw")
              /\ accs[k].val = ValueAt(i, g, k)
    <2> HIDE DEF g, m, N, ea, accs
    <2>1. LET as == Accesses(i, g, m) IN
            /\ Multiplicity(i) \in Nat /\ Len(as) = Multiplicity(i)
            /\ \A k \in 1..Multiplicity(i) :
                  /\ as[k].ea = ToW(Ea(i, g) + (k - 1) * Size(i.op)) /\ as[k].n = Size(i.op)
                  /\ as[k].wr = (i.op # "lmw")
                  /\ as[k].val = ValueAt(i, g, k)
      BY <1>0, EachAccess
    <2> QED BY <1>3, <2>1 DEF accs, ea
  <1>5. after = Written(accs, N, m)
    BY <1>4, AfterAll
  <1>6. \A k \in 1..N : accs[k].val = 0
    BY <1>4 DEF ValueAt
  <1> HIDE DEF accs, after, ea, m, g, N
  <1>7. Successive(accs, N, 8, ea)
    <2> SUFFICES ASSUME NEW k \in 1..N
                 PROVE  accs[k].wr /\ accs[k].n = 8 /\ accs[k].ea = ToW(ea + 8 * (k - 1))
      BY DEF Successive
    <2>1. (k - 1) * 8 = 8 * (k - 1)
      OBVIOUS
    <2> QED BY <1>4, <2>1
  <1>8. ASSUME NEW x \in Words, ToW(x - ea) >= CacheLine PROVE after[x] = m[x]
    <2>1. x \in DOMAIN m
      BY <1>0
    <2>2. EndBy(N, 8, CacheLine)
      BY <1>2 DEF EndBy
    <2>3. Kept(accs, N, m, x)
      BY <1>1, <1>2, <1>7, <1>8, <2>1, <2>2, RunBeyond
    <2> QED BY <1>5, <2>3 DEF Kept
  <1>9. ASSUME NEW x \in Words, ToW(x - ea) < CacheLine PROVE after[x] = 0
    <2> DEFINE t == ToW(x - ea)
               k == t \div 8 + 1
    <2>1. t \in Nat
      <3>1. x - ea \in Int
        BY <1>1, CastWithin
      <3> QED BY <3>1, Casts, InSizes, Sizes
    <2>2. t < CacheLine
      BY <1>9
    <2> HIDE DEF t
    <2>3. k \in 1..N /\ t \in 8 * (k - 1)..(8 * (k - 1) + 8 - 1)
      BY <1>2, <2>1, <2>2
    <2> HIDE DEF k
    <2>4. Covers(accs[k], x)
      BY <1>1, <1>2, <1>7, <2>3, RunCovers DEF t
    <2> DEFINE c == CHOOSE l \in 1..N : Covers(accs[l], x)
               byte(acc) == (acc.val \div 2^(BB * (acc.n - 1 - ToW(x - acc.ea)))) % ByteValue
    <2>5. c \in 1..N /\ Covers(accs[c], x)
      BY <2>3, <2>4
    <2>6. x \in DOMAIN m
      BY <1>0
    <2>7. after[x] = byte(accs[c])
      <3>1. Written(accs, N, m)[x] = IF \E j \in 1..N : Covers(accs[j], x) THEN byte(accs[c]) ELSE m[x]
        BY <2>6 DEF Written
      <3> HIDE DEF byte, c
      <3> QED BY <1>5, <2>3, <2>4, <3>1
    <2>8. accs[c].val = 0 /\ accs[c].n = 8 /\ accs[c].ea = ToW(ea + 8 * (c - 1))
      <3> HIDE DEF c
      <3> QED BY <1>6, <1>7, <2>5 DEF Successive
    <2>9. ToW(x - accs[c].ea) \in 0..7
      <3> HIDE DEF c, byte
      <3>1. Covers(accs[c], x) /\ accs[c].n = 8
        BY <2>5, <2>8
      <3>2. ToW(x - accs[c].ea) < 8
        BY <3>1 DEF Covers
      <3>3. accs[c].ea \in Int
        <4>1. ea + 8 * (c - 1) \in Int
          BY <1>1, <1>2, <2>5
        <4>2. ToW(ea + 8 * (c - 1)) \in Int
          <5> DEFINE y == ea + 8 * (c - 1)
          <5> HIDE DEF y
          <5>1. ToW(y) \in Int
            BY <4>1, Casts, CastWithin DEF y
          <5> QED BY <5>1 DEF y
        <4> QED BY <2>8, <4>2
      <3>4. x - accs[c].ea \in Int
        BY <3>3, CastWithin
      <3> DEFINE y == x - accs[c].ea
      <3>5. y \in Int /\ ToW(y) < 8
        BY <3>2, <3>4
      <3> HIDE DEF y
      <3>6. ToW(y) \in Nat
        BY <3>5, Casts, InSizes, Sizes
      <3>7. ToW(y) \in 0..7
        BY <3>5, <3>6
      <3> QED BY <3>7 DEF y
    <2> DEFINE f == Span(7 - ToW(x - accs[c].ea))
    <2>10. f \in Nat /\ f > 0
      <3> DEFINE j == ToW(x - accs[c].ea)
      <3>1. j \in 0..7
        BY <2>9
      <3> HIDE DEF j
      <3>2. 7 - j \in 0..8
        BY <3>1
      <3>3. Span(7 - j) \in Nat /\ Span(7 - j) > 0
        BY <3>2, Spans
      <3> QED BY <3>3 DEF j
    <2>11. byte(accs[c]) = (0 \div f) % ByteValue
      <3> DEFINE j == ToW(x - accs[c].ea)
      <3>1. j \in 0..7
        BY <2>9
      <3>2. byte(accs[c]) = (accs[c].val \div 2^(BB * (accs[c].n - 1 - j))) % ByteValue
        OBVIOUS
      <3> HIDE DEF j, c, byte
      <3>3. 8 - 1 - j = 7 - j
        BY <3>1
      <3> QED BY <2>8, <3>2, <3>3 DEF Span, j
    <2> HIDE DEF f, byte, c
    <2>12. 0 \div f = 0 /\ 0 % ByteValue = 0
      BY <2>10, Spans
    <2> QED BY <2>7, <2>11, <2>12
  <1>10. /\ \A x \in Words : ToW(x - ea) < CacheLine => after[x] = 0
         /\ \A x \in Words : ToW(x - ea) >= CacheLine => after[x] = m[x]
    BY <1>8, <1>9
  <1> QED BY <1>10 DEF after, ea, m, g

\* lmw loads its registers from one word behind the other and writes no memory.
LEMMA LmwAgrees ==
    ASSUME NEW s, IsState(s), StateTypes(s), NEW i, IsInstruction(i), i.op = "lmw"
    PROVE  LET ea == Ea(i, s.gpr)
               after == After(i, AllOf(i, s), s)
           IN  /\ \A r \in i.d..LastReg : after.gpr[r] = LoadN(s.mem, ea + 4 * (r - i.d), 4)
               /\ after.mem = s.mem
  <1> DEFINE g == s.gpr
             m == s.mem
             ea == Ea(i, g)
             d == i.d
             N == LastReg + 1 - d
             accs == Accesses(i, g, m)
             after == After(i, AllOf(i, s), s)
  <1>0. i.op \in Accessing /\ i.op \in Multiples /\ g \in [0..LastReg -> Doubles] /\ m \in [Words -> Bytes]
    BY DEF Accessing, StateTypes, Multiples
  <1>1. ea \in Words /\ ea \in Int
    BY <1>0, EaIsWord, CastWithin
  <1>2. d \in 0..LastReg /\ N \in Nat /\ LastReg \in Nat /\ ~i.u
    BY MultipleFields, GuestAssumption
  <1>3. Size(i.op) = 4 /\ Multiplicity(i) = N
    BY DEF Size, Multiplicity
  <1>4. /\ Len(accs) = N
        /\ \A k \in 1..N :
              /\ accs[k].ea = ToW(ea + (k - 1) * 4) /\ accs[k].n = 4
              /\ accs[k].wr = (i.op # "lmw")
    <2> HIDE DEF g, m, N, ea, accs
    <2>1. LET as == Accesses(i, g, m) IN
            /\ Multiplicity(i) \in Nat /\ Len(as) = Multiplicity(i)
            /\ \A k \in 1..Multiplicity(i) :
                  /\ as[k].ea = ToW(Ea(i, g) + (k - 1) * Size(i.op)) /\ as[k].n = Size(i.op)
                  /\ as[k].wr = (i.op # "lmw")
                  /\ as[k].val = ValueAt(i, g, k)
      BY <1>0, EachAccess
    <2> QED BY <1>3, <2>1 DEF accs, ea
  <1>5. after.gpr = Registers(i, accs, N, g, m) /\ after.mem = Written(accs, N, m)
    BY <1>4, AfterAll
  <1> HIDE DEF accs, after, ea, m, g, N
  <1>6. after.mem = m
    <2>1. \A k \in 1..N : ~accs[k].wr
      BY <1>4
    <2>2. HasAddresses(m)
      BY <1>0 DEF HasAddresses
    <2> QED BY <1>5, <2>1, <2>2, NothingWritten
  <1>7. after.gpr = Filled(d, accs, N, g, m)
    BY <1>2, <1>5, FilledRegisters
  <1>8. ASSUME NEW r \in d..LastReg PROVE after.gpr[r] = LoadN(m, ea + 4 * (r - d), 4)
    <2> DEFINE k == r - d + 1
    <2>1. k \in 1..N /\ (k - 1) * 4 = 4 * (r - d) /\ ea + 4 * (r - d) \in Int /\ r \in 0..LastReg
      BY <1>1, <1>2 DEF N
    <2>2. r \in DOMAIN g
      BY <1>0, <2>1
    <2>3. Filled(d, accs, N, g, m)[r] = LoadN(m, accs[k].ea, accs[k].n)
      BY <2>1, <2>2 DEF Filled
    <2> HIDE DEF k
    <2>4. accs[k].ea = ToW(ea + 4 * (r - d)) /\ accs[k].n = 4
      BY <1>4, <2>1
    <2>5. LoadN(m, ToW(ea + 4 * (r - d)), 4) = LoadN(m, ea + 4 * (r - d), 4)
      <3> DEFINE y == ea + 4 * (r - d)
      <3>1. y \in Int /\ 4 \in Nat
        BY <2>1
      <3> HIDE DEF y
      <3>2. LoadN(m, ToW(y), 4) = LoadN(m, y, 4)
        BY <1>0, <3>1, LoadAt
      <3> QED BY <3>2 DEF y
    <2> QED BY <1>7, <2>3, <2>4, <2>5
  <1>9. /\ \A r \in d..LastReg : after.gpr[r] = LoadN(m, ea + 4 * (r - d), 4)
        /\ after.mem = m
    BY <1>6, <1>8
  <1> QED BY <1>9 DEF after, ea, m, g

---------------------------------------------------------------------------
(* The widths agree *)

\* Whatever the instruction, its accesses and those of the other widths agree.
LEMMA Agreement == Inv /\ Typed => LoadsAndStoresAgree
  <1> DEFINE i == code[pc]
             s == st
             ea == Ea(i, s.gpr)
             after == After(i, AllOf(i, s), s)
             Hw(k) == LoadN(s.mem, ea + 2 * k, 2)
             Wd(k) == LoadN(s.mem, ea + 4 * k, 4)
             Back(r, a) == LoadN(after.mem, a, Size(i.op)) = s.gpr[r] % 2^(BB * Size(i.op))
             Others(a, n) == \A x \in Words : ToW(x - a) >= n => after.mem[x] = s.mem[x]
  <1> SUFFICES ASSUME Inv, Typed, pc \in DOMAIN code, i.op \in Accessing, Raises(i, s) = None
               PROVE  LoadsAndStoresAgree
    BY DEF LoadsAndStoresAgree
  <1>1. IsInstruction(i)
    BY CasesAssumption DEF Inv
  <1>2. IsState(s) /\ StateTypes(s)
    BY TypedParts DEF Inv
  <1> DEFINE Arm1 == after.gpr[i.d] = PACK_2W(Wd(0), Wd(1))
             Arm2 == /\ Hi(after.gpr[i.d]) \div 2^HB = Wd(0) \div 2^HB
                     /\ Lo(after.gpr[i.d]) \div 2^HB = Wd(0) % 2^HB
             Arm3 == /\ Hi(after.gpr[i.d]) % 2^HB = Wd(0) \div 2^HB
                     /\ Lo(after.gpr[i.d]) % 2^HB = Wd(0) % 2^HB
                     /\ i.op = "evlwhos" => /\ Lo(ExtsH(Hw(0))) = Hi(after.gpr[i.d])
                                            /\ Lo(ExtsH(Hw(1))) = Lo(after.gpr[i.d])
             Arm4 == /\ \A r \in i.d..LastReg : after.gpr[r] = Wd(r - i.d)
                     /\ Others(ea, 0)
             Arm5 == /\ i.op \in {"stb", "sth", "stw"} => Back(i.d, ea)
                     /\ Others(ea, Size(i.op))
             Arm6 == /\ \A r \in i.d..LastReg : Back(r, ea + 4 * (r - i.d))
                     /\ Others(ea, 4 * (LastReg + 1 - i.d))
             Arm7 == /\ \A x \in Words : ToW(x - ea) < CacheLine => after.mem[x] = 0
                     /\ Others(ea, CacheLine)
             Arm8 == Others(ea, 0)
  <1>3. after.mem = s.mem => Others(ea, 0)
    <2> HIDE DEF after
    <2> QED OBVIOUS
  <1>4. i.op \in VectorLoads =>
            /\ i.op \in {"evldd", "evldh", "evldw"} => Arm1
            /\ i.op \in {"evlwhe", "evlwhsplat"} => Arm2
            /\ i.op \in {"evlwhou", "evlwhos"} => Arm3
    <2> HAVE i.op \in VectorLoads
    <2> HIDE DEF i, s
    <2>1. LET e == Ea(i, s.gpr)
              d == After(i, AllOf(i, s), s).gpr[i.d]
              H(k) == LoadN(s.mem, e + 2 * k, 2)
              W(k) == LoadN(s.mem, e + 4 * k, 4)
          IN  /\ i.op \in {"evldd", "evldh", "evldw"} => d = PACK_2W(W(0), W(1))
              /\ i.op \in {"evlwhe", "evlwhsplat"} => /\ Hi(d) \div 2^HB = W(0) \div 2^HB
                                                      /\ Lo(d) \div 2^HB = W(0) % 2^HB
              /\ i.op \in {"evlwhou", "evlwhos"} => /\ Hi(d) % 2^HB = W(0) \div 2^HB
                                                    /\ Lo(d) % 2^HB = W(0) % 2^HB
              /\ i.op = "evlwhos" => Lo(ExtsH(H(0))) = Hi(d) /\ Lo(ExtsH(H(1))) = Lo(d)
      BY <1>1, <1>2, VectorsAgree
    <2>2. i.op = "evlwhos" => i.op \in {"evlwhou", "evlwhos"}
      OBVIOUS
    <2> QED BY <2>1, <2>2
  <1>5. i.op = "lmw" => Arm4
    <2> HAVE i.op = "lmw"
    <2> HIDE DEF i, s
    <2>1. /\ \A r \in i.d..LastReg : after.gpr[r] = LoadN(s.mem, ea + 4 * (r - i.d), 4)
          /\ after.mem = s.mem
      BY <1>1, <1>2, LmwAgrees
    <2> QED BY <1>3, <2>1
  <1>6. i.op \in Stores => Arm5
    <2> HAVE i.op \in Stores
    <2> HIDE DEF i, s
    <2>1. LET e == Ea(i, s.gpr)
              n == Size(i.op)
              a == After(i, AllOf(i, s), s).mem
          IN  /\ i.op \in {"stb", "sth", "stw"} => LoadN(a, e, n) = s.gpr[i.d] % 2^(BB * n)
              /\ \A x \in Words : ToW(x - e) >= n => a[x] = s.mem[x]
      BY <1>1, <1>2, StoresAgree
    <2> QED BY <2>1
  <1>7. i.op = "stmw" => Arm6
    <2> HAVE i.op = "stmw"
    <2>1. Size(i.op) = 4
      BY DEF Size
    <2> HIDE DEF i, s
    <2>2. LET e == Ea(i, s.gpr)
              a == After(i, AllOf(i, s), s).mem
          IN  /\ \A r \in i.d..LastReg : LoadN(a, e + 4 * (r - i.d), 4) = s.gpr[r] % 2^(BB * 4)
              /\ \A x \in Words : ToW(x - e) >= 4 * (LastReg + 1 - i.d) => a[x] = s.mem[x]
      BY <1>1, <1>2, StmwAgrees
    <2> QED BY <2>1, <2>2
  <1>8. i.op = "dcbz" => Arm7
    <2> HAVE i.op = "dcbz"
    <2> HIDE DEF i, s
    <2>1. LET e == Ea(i, s.gpr)
              a == After(i, AllOf(i, s), s).mem
          IN  /\ \A x \in Words : ToW(x - e) < CacheLine => a[x] = 0
              /\ \A x \in Words : ToW(x - e) >= CacheLine => a[x] = s.mem[x]
      BY <1>1, <1>2, DcbzAgrees
    <2> QED BY <2>1
  <1>9. i.op \in ScalarLoads \cup VectorLoads \cup TouchLoads \cup TouchStores => Arm8
    <2> HAVE i.op \in ScalarLoads \cup VectorLoads \cup TouchLoads \cup TouchStores
    <2>1. after.mem = s.mem
      <3> HIDE DEF i, s
      <3> QED BY <1>1, <1>2, OthersAgree
    <2> QED BY <1>3, <2>1
  <1> DEFINE op == i.op
  <1> HIDE DEF Arm1, Arm2, Arm3, Arm4, Arm5, Arm6, Arm7, Arm8, op
  <1>10. (CASE op \in {"evldd", "evldh", "evldw"} -> Arm1
           [] op \in {"evlwhe", "evlwhsplat"} -> Arm2
           [] op \in {"evlwhou", "evlwhos"} -> Arm3
           [] op = "lmw" -> Arm4
           [] op \in Stores -> Arm5
           [] op = "stmw" -> Arm6
           [] op = "dcbz" -> Arm7
           [] OTHER -> Arm8)
    <2>1. op \in Accessing
      BY DEF op
    <2>2. /\ op \in {"evldd", "evldh", "evldw"} => Arm1
          /\ op \in {"evlwhe", "evlwhsplat"} => Arm2
          /\ op \in {"evlwhou", "evlwhos"} => Arm3
      <3>1. op \in {"evldd", "evldh", "evldw", "evlwhe", "evlwhsplat", "evlwhou", "evlwhos"}
               => op \in VectorLoads
        BY DEF VectorLoads
      <3>2. op = i.op
        BY DEF op
      <3> HIDE DEF i
      <3>3. op \in {"evldd", "evldh", "evldw"} => Arm1
        BY <1>4, <3>1, <3>2
      <3>4. op \in {"evlwhe", "evlwhsplat"} => Arm2
        BY <1>4, <3>1, <3>2
      <3>5. op \in {"evlwhou", "evlwhos"} => Arm3
        BY <1>4, <3>1, <3>2
      <3> QED BY <3>3, <3>4, <3>5
    <2>3. (op = "lmw" => Arm4) /\ (op \in Stores => Arm5) /\ (op = "stmw" => Arm6) /\ (op = "dcbz" => Arm7)
      BY <1>5, <1>6, <1>7, <1>8 DEF op
    <2>4. \/ op = "lmw" \/ op \in Stores \/ op = "stmw" \/ op = "dcbz" \/ Arm8
      <3>1. op \in ScalarLoads \cup VectorLoads \cup TouchLoads \cup TouchStores => Arm8
        BY <1>9 DEF op
      <3>2. \/ op = "lmw" \/ op \in Stores \/ op = "stmw" \/ op = "dcbz"
            \/ op \in ScalarLoads \cup VectorLoads \cup TouchLoads \cup TouchStores
        BY <2>1 DEF Accessing, Multiples
      <3> QED BY <3>1, <3>2
    <2> QED BY <2>2, <2>3, <2>4
  <1> QED BY <1>10 DEF LoadsAndStoresAgree, Arm1, Arm2, Arm3, Arm4, Arm5, Arm6, Arm7, Arm8, op

---------------------------------------------------------------------------
(* Theorems *)

\* In any state the instruction at PC can be executed again after a fault.
LEMMA Restarts == Inv => RestartIsIdempotent
  <1> DEFINE i == code[pc]
  <1> SUFFICES ASSUME Inv, pc \in DOMAIN code, i.op \in Accessing, Raises(i, st) = None,
                      ~Clobbers(i), NEW first \in 0..(AllOf(i, st) - 1)
               PROVE  LET s == After(i, first, st)
                      IN  After(i, AllOf(i, s), s) = After(i, AllOf(i, st), st)
    BY DEF RestartIsIdempotent
  <1>1. IsInstruction(i) /\ IsState(st)
    BY CasesAssumption DEF Inv
  <1> HIDE DEF i
  <1>2. CASE i.op \in Accessing \ Multiples
    BY <1>1, <1>2, SingleRestarts
  <1>3. CASE i.op = "lmw"
    BY <1>1, <1>3, LoadsRestart
  <1>4. CASE i.op \in Multiples /\ i.op # "lmw"
    BY <1>1, <1>4, StoresRestart
  <1> QED BY <1>2, <1>3, <1>4

\* Whatever run_b, step(), handlers and devices do, the core runs the program it was given
\* with all its registers and its memory (run_curr_instr and ppc_exception of cpu_ppc.cpp).
THEOREM FlowInvariance == Spec => []Inv
  <1>1. Init => Inv
    BY InitInv
  <1>2. Inv /\ [Next]_vars => Inv'
    BY InvStep
  <1> QED BY <1>1, <1>2, PTL DEF Spec

\* An instruction that faults after some of its accesses and is executed again from the
\* start, as the handlers of cpu_ppc_instr.cc are after a TLB miss, ends as in one go: each
\* store, load, cache instruction, lmw and stmw, for any number of registers, cache line and
\* place of the fault. The one exception is lmw that loads its own base register early.
THEOREM RestartsAreIdempotent == Spec => []RestartIsIdempotent
  <1>1. Inv => RestartIsIdempotent
    BY Restarts
  <1> QED BY <1>1, FlowInvariance, PTL

\* In every run, from every state of every program, the widths agree on the order of bytes.
THEOREM LoadsAgree == Spec => []LoadsAndStoresAgree
  <1>1. Init => Inv /\ Typed
    BY InitInv, InitTyped
  <1>2. (Inv /\ Typed) /\ [Next]_vars => (Inv /\ Typed)'
    BY InvStep, TypedStep
  <1>3. Inv /\ Typed => LoadsAndStoresAgree
    BY Agreement
  <1> QED BY <1>1, <1>2, <1>3, PTL DEF Spec
=============================================================================
