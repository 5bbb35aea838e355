----------------------------- MODULE MCExecute -----------------------------
(***************************************************************************)
(* Integer and Spe with halfwords of 4 bits: words of 8, registers of 16.  *)
(* Every instruction alone on boundary values, and the idioms and pairs    *)
(* the properties are about.                                               *)
(***************************************************************************)
EXTENDS Spe

MCRegs    == 0..6
MCDivHigh == {0, 1, 2^WB - 1}
MCFpWords == {0, 5}

I(op, d, a, b) ==
    [op |-> op, d |-> d, a |-> a, b |-> b, i |-> 0, mb |-> 0, me |-> 0, oe |-> FALSE,
     rc |-> FALSE, t |-> "", s |-> ""]

Imm(op, d, a, i) == [I(op, d, a, 2) EXCEPT !.i = i]

Rotl(op, i, mb, me) == [I(op, 5, 1, 2) EXCEPT !.i = i, !.mb = mb, !.me = me]

Vec(op, t, s) == [I(op, 5, 1, 2) EXCEPT !.t = t, !.s = s]

Dotted(i) == {i, [i EXCEPT !.oe = TRUE, !.rc = TRUE]}

Clear == I("mcrxr", 0, 0, 0)

\* In front of an idiom: register 0 tells the carry it begins with.
Observe == I("addze", 0, 1, 0)

\* The programs of one integer instruction.
Scalars ==
    UNION {Dotted(I(op, 5, 1, 2)) :
              op \in {"add", "addc", "adde", "addme", "addze", "subf", "subfc", "subfe",
                      "subfme", "subfze", "mullw", "neg"}}
    \cup UNION {Dotted(I(op, d, 1, 2)) : op \in {"divw", "divwu"}, d \in {2, 5}}
    \cup {[I(op, 5, 1, 2) EXCEPT !.rc = TRUE] :
              op \in {"mulhw", "mulhwu", "and", "andc", "or", "orc", "xor", "extsb",
                      "extsh", "cntlzw", "eqv", "nand", "nor"}}
    \cup {Imm(op, 5, a, i) : op \in {"addi", "addis"}, a \in {0, 1}, i \in {3, 12}}
    \cup {[Imm(op, 5, 1, i) EXCEPT !.rc = op \in {"addic", "andi.", "andis."}] :
              op \in {"addic", "subfic", "mulli", "andi.", "andis.", "ori", "oris",
                      "xori", "xoris"}, i \in {3, 12}}
    \cup {[I(op, 1, 1, 2) EXCEPT !.i = l, !.mb = 12] :
              op \in {"cmp", "cmpi", "cmpl", "cmpli"}, l \in {0, 1}}
    \cup {I(op, 5, a, b) : op \in {"crand", "crandc", "creqv", "crnand", "crnor", "cror",
                                   "crorc", "crxor"}, a \in {0, 1}, b \in {0, 1}}
    \cup {I("mcrf", 1, 0, 0), I("mfcr", 5, 0, 0), Rotl("rlwimi", 3, 2, 5)}
    \cup {[I("mtcrf", 0, 1, 0) EXCEPT !.mb = m] : m \in {{0}, {0, 1}}}
    \cup {Imm("isel", 5, a, 0) : a \in {0, 1}}
    \cup {Rotl("rlwnm", 0, mb, 5) : mb \in {2, 5, 6}}

Suffixes == {"", "a", "aaw", "anw"}

\* The programs of one vector instruction.
Vectors ==
    {I(op, 5, 1, 2) : op \in
        {"brinc", "evabs", "evaddsmiaaw", "evaddumiaaw", "evaddusiaaw", "evaddw", "evand",
         "evandc", "evcntlsw", "evcntlzw", "evdivws", "eveqv", "evextsb", "evextsh",
         "evmergehi", "evmergelo", "evmergehilo", "evmergelohi", "evmra", "evnand",
         "evneg", "evnor", "evor", "evorc", "evrlw", "evrndw", "evsel", "evslw", "evsrws",
         "evsrwu", "evsubfsmiaaw", "evsubfumiaaw", "evsubfw", "evxor", "evfsabs",
         "evfsnabs", "evfsneg", "evfsadd", "efdabs", "efdnabs", "efdneg"}}
    \cup {I(op, 1, 1, 2) : op \in {"evcmpeq", "evcmpgts", "evcmpgtu", "evcmplts",
                                   "evcmpltu", "evfscmp", "evfstst"}}
    \cup {Imm(op, 5, 1, i) : op \in {"evaddiw", "evrlwi", "evslwi", "evsplatfi", "evsplati",
                                     "evsrwis", "evsrwiu", "evsubifw"}, i \in {3, 7}}
    \cup {Vec("evmheg", t, s) : t \in {"smf", "smi", "umi"}, s \in {"aa", "an"}}
    \cup {Vec("evmhog", t, s) : t \in {"smf", "smi", "umi"}, s \in {"aa", "an"}}
    \cup {Vec(op, t, s) : op \in {"evmhesm", "evmhosm"}, t \in {"smf", "smi"}, s \in Suffixes}
    \cup {Vec(op, "", s) : op \in {"evmhessf", "evmhossf", "evmheumi", "evmhoumi"},
                           s \in Suffixes}
    \cup {Vec(op, "", s) : op \in {"evmhessi", "evmheusi", "evmhossi", "evmhousi"},
                           s \in {"aaw", "anw"}}
    \cup {Vec("evmwh", t, s) : t \in {"smf", "ssf", "umi"}, s \in {"", "a"}}
    \cup {Vec("evmwl", t, s) : t \in {"smi", "ssi", "umi", "usi"}, s \in {"aaw", "anw"}}
    \cup {Vec("evmwl", "umi", s) : s \in {"", "a"}}
    \cup {Vec("evmws", t, s) : t \in {"smf", "smi", "umi"}, s \in {"", "a", "aa", "an"}}
    \cup {Vec("evmwssf", "", s) : s \in {"", "a", "aa", "an"}}

Saturating ==
    {I(op, 5, 1, 2) : op \in {"evaddssiaaw", "evsubfssiaaw", "evsubfusiaaw"}}
    \cup {Vec(op, "", s) : op \in {"evmheusi", "evmhousi", "evmhossf"}, s \in {"aaw", "anw"}}

RoundTrips ==
    {<<I("evaddsmiaaw", 5, 1, 2), I("evsubfsmiaaw", 6, 1, 2)>>}
    \cup {<<Vec(op, t, "aaw"), Vec(op, t, "anw")>> :
             op \in {"evmhesm", "evmhosm"}, t \in {"smf", "smi"}}
    \cup {<<Vec(op, "", "aaw"), Vec(op, "", "anw")>> : op \in {"evmheumi", "evmhoumi"}}
    \cup {<<Vec("evmwl", t, "aaw"), Vec("evmwl", t, "anw")>> : t \in {"smi", "umi"}}
    \cup {<<Vec(op, t, "aa"), Vec(op, t, "an")>> :
             op \in {"evmheg", "evmhog", "evmws"}, t \in {"smf", "umi"}}

Pairs ==
    {<<I(p[1], 5, 1, 2), I(p[2], 6, 1, 2)>> : p \in {p \in SameWord : p[2] # "evmws"}}
    \cup {<<I("mullw", 5, 1, 2), [I("evmws", 6, 1, 2) EXCEPT !.t = t]>> : t \in {"smi", "umi"}}

---------------------------------------------------------------------------
(* Register files *)

Words8 == {0, 1, 85, 127, 128, 254, 255}

\* Values of a register: words of both signs extended both ways, and halfwords all most
\* negative, all most positive and mixed.
Values == {0, 1, 127, 128, 65408, 65535, 34952, 30583, 36728}

Accs == {0, 1, 32640, 33023, 43605}

File(r1, r2, r3, r4) ==
    [n \in MCRegs |-> CASE n = 1 -> r1 [] n = 2 -> r2 [] n = 3 -> r3 [] n = 4 -> r4
                        [] OTHER -> 9]

TwoOf(vs, r3s) == {File(r1, r2, r3, 0) : r1 \in vs, r2 \in vs, r3 \in r3s}

Case(p, gprs) == [prog |-> p, gprs |-> gprs]

Load == I("evmra", 4, 3, 0)

MCCases ==
    {Case(<<i>>, TwoOf(Values, {0})) : i \in Scalars}
    \cup {Case(<<Load, i>>, TwoOf({0, 127, 4660, 34952, 36728, 65408, 65535}, {32640})) : i \in Vectors}
    \cup {Case(<<Load, i>>, TwoOf({0, 127, 4660, 34952, 30583, 36728, 65408}, Accs)) :
             i \in Saturating}
    \cup {Case(<<Load, p[1], p[2]>>, TwoOf({1, 34952, 36728, 65408}, Accs)) :
             p \in RoundTrips}
    \cup {Case(p, TwoOf(Values \cup {2, 6}, {0})) : p \in Pairs}
    \cup {Case(<<Observe, I(p[1], 5, 1, 3), I(p[2], 6, 2, 4)>>,
               {File(r1, r2, r3, r4) : r1, r2, r3, r4 \in Words8}) :
             p \in {<<"addc", "adde">>, <<"subfc", "subfe">>}}
    \cup {Case(<<[I("mullw", 5, 1, 2) EXCEPT !.oe = TRUE], I("mulhw", 6, 1, 2)>>,
               TwoOf(Words8 \cup {16, 240}, {0}))}
    \cup {Case(<<Observe, Imm("srawi", 5, 1, n), I("addze", 6, 5, 0)>>,
               TwoOf({0, 1, 7, 127, 128, 129, 250, 255}, {0})) : n \in 0..7}
    \cup {Case(<<[I("subf", 5, 1, 2) EXCEPT !.oe = TRUE, !.rc = TRUE], I("cmp", 1, 2, 1)>>,
               TwoOf(Words8 \cup {65408, 126}, {0}))}
    \cup {Case(<<Clear, I("subfc", 5, 1, 2), I("cmpl", 1, 2, 1)>>,
               TwoOf(Words8 \cup {65408, 254}, {0}))}
    \cup {Case(<<Clear, I(op, 5, 1, 2)>>,
               {File(r1, r2, 0, 0) : r1 \in Values \cup {85}, r2 \in 0..15}) :
             op \in {"slw", "srw", "sraw"}}
    \cup {Case(<<Clear, Imm("srawi", 5, 1, n)>>,
               {File(r1, 0, 0, 0) : r1 \in Values \cup {85}}) : n \in 0..7}
    \cup {Case(<<Clear, Rotl("rlwinm", n, mb, me)>>,
               {File(r1, 0, 0, 0) : r1 \in Values \cup {85}}) :
             n \in {0, 1, 5}, mb \in 0..6, me \in {3, 6, 7}}

=============================================================================
