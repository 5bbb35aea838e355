------------------------------- MODULE MCFlow -------------------------------
(***************************************************************************)
(* Flow with words of 8 bits (a byte has 2, an address 8), pages of 16     *)
(* bytes and a small operating system: programs on pages 0 to 2, Exit on   *)
(* page 3, vectors and handlers on pages 4 to 7, data on pages 8 and 9,    *)
(* where addresses are negative as words.                                  *)
(***************************************************************************)
EXTENDS Flow, TLC

MCMsrPos == ("UCLE" :> 7) @@ ("SPE" :> 6) @@ ("CE" :> 5) @@ ("EE" :> 4) @@ ("PR" :> 3)
            @@ ("ME" :> 2) @@ ("DE" :> 1)

MCExit == 56

MCVector ==
    ("CR" :> 64) @@ ("MC" :> 68) @@ ("DSI" :> 72) @@ ("ISI" :> 76) @@ ("EI" :> 80)
    @@ ("PRG" :> 84) @@ ("SC" :> 88) @@ ("DTLB" :> 92) @@ ("ITLB" :> 96) @@ ("DBG" :> 100)

MCHandler ==
    ("base" :> {72, 76, 80, 84, 88, 92, 96, 112, 116, 120, 124})
    @@ ("crit" :> {64, 100, 104}) @@ ("mc" :> {68, 108})

---------------------------------------------------------------------------
(* Instructions and the code *)

Op(op) == [op |-> op, d |-> 0, a |-> 0, b |-> 0, i |-> 0, x |-> FALSE, u |-> FALSE,
           l |-> FALSE, bo |-> 20, bi |-> 0]

B(target)     == [Op("b") EXCEPT !.i = target]
Mt(spr, r)    == [Op("mtspr") EXCEPT !.d = r, !.i = spr]
Ldst(op, d, a, disp) == [Op(op) EXCEPT !.d = d, !.a = a, !.i = disp]
Indexed(op, d, a, b) == [Op(op) EXCEPT !.d = d, !.a = a, !.b = b, !.x = TRUE]

\* Handlers that map the page of DEAR or of SRR0 and return, and that just return; a
\* program interrupt or a system call ends the program.
System ==
    (64 :> B(104)) @@ (68 :> B(108)) @@ (72 :> B(112)) @@ (76 :> B(120)) @@ (80 :> B(116))
    @@ (84 :> B(MCExit)) @@ (88 :> B(MCExit)) @@ (92 :> B(112)) @@ (96 :> B(120))
    @@ (100 :> B(104)) @@ (104 :> Op("rfci")) @@ (108 :> Op("rfmci"))
    @@ (112 :> Op("tlbwe")) @@ (116 :> Op("rfi"))
    @@ (120 :> [Op("tlbwe") EXCEPT !.i = 1]) @@ (124 :> Op("rfi"))

Lines == {4 * k : k \in 0..31}

Code(program, system) ==
    [p \in Lines |->
        IF p \div 4 < Len(program) THEN program[(p \div 4) + 1]
        ELSE IF p \in DOMAIN system THEN system[p] ELSE B(MCExit)]

Off == [iac |-> {}, us |-> 0, idm |-> FALSE, edm |-> FALSE]

\* Data with halfwords of either sign; the word at 140 is the address 132.
Data == [p \in Words |-> CASE p \in 140..143 -> <<2, 0, 1, 0>>[p - 139]
                            [] p \in 128..175 -> (p + (p \div 4) + 2 * (p \div 16)) % 4
                            [] OTHER           -> 0]

\* Registers: r1 points to data, r2 is an index, r5 the same address as r1 + r2.
Regs(base, index) ==
    [r \in 0..5 |-> CASE r = 0 -> 515 [] r = 1 -> 512 + base [] r = 2 -> index [] r = 3 -> 6617
                      [] r = 4 -> 0 [] r = 5 -> base + index]

Pages(text, data8, data9) ==
    [p \in 0..15 |-> CASE p \in 0..2 -> text [] p \in 3..7 -> {"r", "x"}
                       [] p = 8 -> data8 [] p = 9 -> data9 [] OTHER -> {}]

Mapped  == Pages({"r", "x"}, {"r", "w"}, {"r", "w"})
Lacking == {{}, {"r"}, {"r", "w"}}
Demand  == {Pages({"r", "x"}, p, q) : p, q \in Lacking}

Supervisor == {"UCLE", "SPE", "CE", "EE", "ME", "DE"}

Case(program) ==
    [code |-> Code(program, System), debug |-> Off, start |-> 0, msr |-> Supervisor,
     gprs |-> {Regs(136, 4)}, mems |-> {Data}, ctrs |-> {2}, cr |-> {2}, tlbs |-> {Mapped},
     devices |-> {}, stepping |-> FALSE]

---------------------------------------------------------------------------
(* What runs *)

\* Where the accesses begin: those of more than one end on page 9.
Begin(op) == IF Count(op) > 1 \/ op \in {"lmw", "stmw"} THEN 144 - Size(op) ELSE 136

\* Every load, store and cache instruction, over pages that are missing or read-only.
AccessCases ==
    {[Case(<<i>>) EXCEPT !.gprs = {Regs(Begin(i.op) - 4, 4)}, !.tlbs = Demand] :
        i \in {Ldst(op, 3, 1, 4) : op \in Accessing}
              \cup {Indexed(op, 3, 0, 5) : op \in Accessing \ {"lmw", "stmw"}}
              \cup {Indexed(op, 3, 1, 2) : op \in Accessing \ {"lmw", "stmw"}}
              \cup {[Indexed(op, 3, 1, 2) EXCEPT !.u = TRUE] : op \in {"lbz", "lwz", "sth", "stw"}}
              \cup {[Ldst(op, 3, 1, 4) EXCEPT !.u = TRUE] : op \in {"lha", "lhz", "stb", "stw"}}
              \cup {Ldst("lmw", 1, 1, 4), Ldst("lmw", 5, 1, 4)} }
    \cup {[Case(<<Ldst(op, 3, 1, 12), Ldst("lwz", 3, 1, 12)>>) EXCEPT
              !.gprs = {Regs(140, 4)}, !.tlbs = Demand] : op \in {"lwz", "stw", "sthbrx"}}

\* A loop that stores, over demand-paged code; a call and its return; branches not taken.
Loop == << Mt("CTR", 2), [Ldst("stw", 3, 1, 4) EXCEPT !.u = TRUE],
           [Op("bc") EXCEPT !.bo = 16, !.i = 4], [B(32) EXCEPT !.l = TRUE],
           B(MCExit), B(MCExit), B(MCExit), B(MCExit),
           Ldst("lwz", 4, 1, 0), Op("isync"), Op("bclr") >>

Paged == {Pages(p, q, {"r", "w"}) : p, q \in {{}, {"r"}}}

Conditional ==
    { << Mt("LR", 2), [Op(op) EXCEPT !.bo = bo, !.bi = bi, !.i = 12], Ldst("lbz", 4, 1, 0),
         Op("msync") >> :
        op \in {"bc", "bclr", "bcctr"}, bo \in {0, 2, 4, 8, 12, 16, 18}, bi \in {2, 3} }

FlowCases ==
    {[Case(Loop) EXCEPT !.tlbs = Paged, !.gprs = {Regs(132, 2), Regs(140, 2)},
                        !.stepping = step, !.devices = devices] :
        step \in BOOLEAN, devices \in {{}, {"EI", "CR"}, {"MC"}}}
    \cup {[Case(p) EXCEPT !.gprs = {Regs(136, 13)},
                                 !.ctrs = IF p[2].op = "bcctr" THEN {15} ELSE {1, 15}] :
               p \in Conditional}

\* What a program may not do, and what ends it, in user mode and in supervisor mode.
Forbidden ==
    { Op("mtmsr"), Op("wrtee"), Op("wrteei"), Op("rfi"), Op("rfci"), Op("rfmci"), Op("sc"),
      [Ldst("lwz", 1, 1, 0) EXCEPT !.u = TRUE], [Ldst("stw", 1, 0, 0) EXCEPT !.u = TRUE],
      [Ldst("lhz", 3, 0, 0) EXCEPT !.u = TRUE] }
    \cup {Indexed(op, 0, 1, 2) : op \in Locks}
    \cup {[Op("tw") EXCEPT !.d = to, !.a = 1, !.b = r] : to \in {1, 2, 4, 8, 16}, r \in {0, 1, 3}}
    \cup {[Op("twi") EXCEPT !.d = to, !.a = 3, !.i = 9] : to \in {1, 8, 31}}

RaisingCases ==
    {[Case(<<i, Ldst("lbz", 4, 1, 0)>>) EXCEPT
         !.msr = msr, !.code[72] = IF i.op \in Locks THEN B(MCExit) ELSE @] :
        i \in Forbidden \ {Op("rfi"), Op("rfci"), Op("rfmci")},
        msr \in {Supervisor, {"PR", "EE", "SPE"}}}
    \cup {[Case(<<i>>) EXCEPT !.msr = {"PR", "EE"}] : i \in {Op("rfi"), Op("rfci"), Op("rfmci")}}

\* The program changes its own mode while devices interrupt; a system call returns.
Modes == << Op("mfmsr"), [Op("wrteei") EXCEPT !.i = 0], Mt("LR", 2),
            [Op("mfspr") EXCEPT !.d = 4, !.i = "LR"], [Op("wrtee") EXCEPT !.d = 0],
            [Op("mtmsr") EXCEPT !.d = 3] >>

DeviceCases ==
    {[Case(Modes) EXCEPT !.devices = {"EI", "CR", "MC"}],
     [Case(<<Op("sc")>>) EXCEPT !.code[88] = B(116)]}

\* The debugger watches the instruction at 4.
DebugCases ==
    {[Case(<<Op("mbar"), i, Ldst("lwz", 4, 1, 0)>>) EXCEPT
         !.debug = [iac |-> {4}, us |-> us, idm |-> idm, edm |-> edm],
         !.msr = msr, !.tlbs = Demand, !.devices = {"EI", "MC"}] :
        i \in {Ldst("stw", 3, 1, 4), B(12)}, us \in {0, 2, 3}, idm \in BOOLEAN,
        edm \in BOOLEAN, msr \in {Supervisor, {"PR", "DE"}}}

MCCases == AccessCases \cup FlowCases \cup RaisingCases \cup DeviceCases \cup DebugCases

---------------------------------------------------------------------------
(* A miss handler whose first instruction, at the vector, is not a branch *)

MCVectorCases ==
    {[Case(<<Ldst("lwz", 3, 1, 4)>>) EXCEPT
         !.code[92] = Op("tlbwe"), !.code[96] = Op("rfi"), !.tlbs = Demand]}
=============================================================================
