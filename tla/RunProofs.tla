----------------------------- MODULE RunProofs -----------------------------
(***************************************************************************)
(* The invariants of RunControl, for any number of cores, threads, guest   *)
(* addresses and instructions per pass. Each needs the others: a hit is    *)
(* passed because the record of it still stands when the next run or step  *)
(* looks, and it stands because nobody else executes the core meanwhile.   *)
(***************************************************************************)
EXTENDS RunControl, TLAPS

\* A thread that executes has instructions of its pass left, and a step that resumes from a
\* breakpoint has instructions left.
Ready ==
    /\ \A t \in Threads : th[t].at = "pass" => th[t].left > 0
    /\ host.at \in {"resume", "reenable"} => host.left > 0

\* The host is inside of step(c), past its first statement.
Stepped(c) == host.at \in {"resume", "reenable", "loop"} /\ host.cpu = c

\* Unless two callers ever executed the core at once, at most one thread of it lives, and none
\* while the host steps it.
Alone ==
    \A c \in Cpus : ~past[c].overlap =>
        /\ \A t, u \in Live(c) : t = u
        /\ Stepped(c) => Live(c) = {}

\* Between a hit and the next instruction the core stands on the breakpoint it recorded, and
\* whoever goes on with it has yet to look at that record: so it will resume from it.
HitStands ==
    \A c \in Cpus : past[c].hits = 1 =>
        /\ ~past[c].overlap
        /\ last[c] = pc[c]
        /\ host.at \in {"reenable", "loop"} => host.cpu # c
        /\ \A t \in Live(c) : th[t].at \notin {"reenable", "pass", "poll"}

\* What the other invariants rest on.
Types == TypeOK /\ Ready

\* The inductive invariant.
Inv == /\ Types /\ RunningHasThread /\ DisabledForAReason /\ BreakpointsHonoured
       /\ BreakpointsPassed /\ Alone /\ HitStands

\* Where a thread is, and what the slots of all threads and the host's place hold.
Ats == {"none", "start", "resume", "reenable", "pass", "poll", "catch", "exit"}
Slots == [Threads -> [at : Ats, cpu : Cpus, left : 0..PassLength]]
HostStates == [at : {"idle", "rethrow", "resume", "reenable", "loop"},
               cpu : Cpus, left : 0..MaxStep]

\* Nothing that was noted of core c for good changes.
SameHistory(c) == /\ past'[c].off = past[c].off /\ past'[c].cut = past[c].cut
                  /\ past'[c].overlap = past[c].overlap

\* A slot, free or not, names a core.
LEMMA Cores == ASSUME TypeOK, NEW t \in Threads PROVE th[t].cpu \in Cpus
  BY DEF TypeOK

\* Goto moves one thread and nothing else of it or of another.
LEMMA GotoSets ==
    ASSUME TypeOK, NEW t \in Threads, NEW at \in Ats, Goto(t, at)
    PROVE  /\ th' \in Slots
           /\ \A u \in Threads : /\ u # t => th'[u] = th[u]
                                 /\ th'[u].cpu = th[u].cpu /\ th'[u].left = th[u].left
           /\ th'[t].at = at
  BY DEF TypeOK, Goto, Slots, Ats

\* Pass starts one thread on a pass of full length.
LEMMA PassSets ==
    ASSUME TypeOK, NEW t \in Threads, Pass(t)
    PROVE  /\ th' \in Slots
           /\ \A u \in Threads : /\ u # t => th'[u] = th[u]
                                 /\ th'[u].cpu = th[u].cpu
           /\ th'[t].at = "pass" /\ th'[t].left = PassLength /\ PassLength > 0
  <1> DEFINE mid == [th EXCEPT ![t].at = "pass"]
  <1>1. mid \in Slots /\ mid[t] = [at |-> "pass", cpu |-> th[t].cpu, left |-> th[t].left]
    BY DEF TypeOK, Slots, Ats
  <1>2. th' = [th EXCEPT ![t] = [at |-> "pass", cpu |-> th[t].cpu, left |-> PassLength]]
    <2>1. th' = [mid EXCEPT ![t].left = PassLength]
      BY DEF Pass
    <2>2. th' = [mid EXCEPT ![t] = [mid[t] EXCEPT !.left = PassLength]]
      BY <2>1
    <2>3. [mid[t] EXCEPT !.left = PassLength]
            = [at |-> "pass", cpu |-> th[t].cpu, left |-> PassLength]
      BY <1>1
    <2> QED BY <2>2, <2>3, <1>1 DEF TypeOK, Slots
  <1>3. PassLength \in 0..PassLength /\ PassLength > 0
    BY RunAssumption
  <1>4. [at |-> "pass", cpu |-> th[t].cpu, left |-> PassLength]
          \in [at : Ats, cpu : Cpus, left : 0..PassLength]
    BY <1>3 DEF TypeOK, Ats
  <1> QED
    BY <1>2, <1>3, <1>4 DEF TypeOK, Slots, Ats

\* The instruction counter of a pass stays in its range, and at zero the mode is read.
LEMMA CountSets ==
    ASSUME TypeOK, Ready, NEW t \in Threads, At(t, "pass"),
           th' = [th EXCEPT ![t].left = @ - 1,
                            ![t].at = IF th[t].left = 1 THEN "poll" ELSE "pass"]
    PROVE  /\ th' \in Slots
           /\ \A u \in Threads : /\ u # t => th'[u] = th[u]
                                 /\ th'[u].cpu = th[u].cpu
           /\ th'[t].at \in {"pass", "poll"} /\ th'[t].at = "pass" => th'[t].left > 0
  <1> DEFINE k   == th[t].left - 1
             at  == IF th[t].left = 1 THEN "poll" ELSE "pass"
             mid == [th EXCEPT ![t].left = k]
  <1>1. k \in 0..PassLength /\ (at = "pass" => k > 0)
    BY RunAssumption DEF TypeOK, Ready, At
  <1>2. at \in Ats /\ at \in {"pass", "poll"}
    BY DEF Ats
  <1>3. th' = [mid EXCEPT ![t].at = at]
    OBVIOUS
  <1> HIDE DEF k, at
  <1>4. mid \in Slots /\ mid[t].left = k /\ mid[t].cpu = th[t].cpu
    BY <1>1 DEF TypeOK, Slots, Ats
  <1>5. \A u \in Threads \ {t} : mid[u] = th[u]
    BY DEF TypeOK
  <1> HIDE DEF mid
  <1>6. /\ th' = [mid EXCEPT ![t] = [mid[t] EXCEPT !.at = at]]
        /\ [mid[t] EXCEPT !.at = at] \in [at : Ats, cpu : Cpus, left : 0..PassLength]
    BY <1>2, <1>3, <1>4 DEF Slots
  <1>7. th'[t].at = at /\ th'[t].left = k /\ th'[t].cpu = th[t].cpu
    BY <1>4, <1>6 DEF Slots
  <1>8. th' \in Slots /\ \A u \in Threads : u # t => th'[u] = mid[u]
    BY <1>4, <1>6 DEF Slots
  <1> QED
    BY <1>1, <1>2, <1>5, <1>7, <1>8

\* A step that adds no caller to any core leaves every core to its only caller.
LEMMA AloneKept ==
    ASSUME Inv,
           \A c \in Cpus : past'[c].overlap = past[c].overlap,
           \A c \in Cpus : Live(c)' \subseteq Live(c),
           \A c \in Cpus : Stepped(c)' => Stepped(c)
    PROVE  Alone'
  <1> SUFFICES ASSUME NEW c \in Cpus, ~past'[c].overlap
               PROVE  /\ \A t, u \in Live(c)' : t = u
                      /\ Stepped(c)' => Live(c)' = {}
    BY DEF Alone
  <1>1. ~past[c].overlap
    BY DEF Inv, Types, TypeOK, Past
  <1> QED
    BY <1>1 DEF Inv, Alone

\* An executed instruction moves one core, and misses a breakpoint only with breakpoints off.
LEMMA ExecutesSets ==
    ASSUME TypeOK, NEW c \in Cpus, NEW r \in BOOLEAN, Executes(c, r)
    PROVE  /\ pc' \in [Cpus -> Addrs] /\ past' \in [Cpus -> Past]
           /\ \A d \in Cpus : /\ d # c => past'[d] = past[d] /\ pc'[d] = pc[d]
                              /\ SameHistory(d)
           /\ past'[c].hits = 0
           /\ past'[c].missed => \/ past[c].missed
                                 \/ /\ ~enabled[c] /\ ~r /\ ~past[c].off
                                    /\ ~past[c].cut /\ ~past[c].overlap
  <1>1. pc' \in [Cpus -> Addrs] /\ \A d \in Cpus : d # c => pc'[d] = pc[d]
    BY DEF TypeOK, Executes
  <1> DEFINE m == \/ past[c].missed
                  \/ /\ pc[c] \in bkpts[c] /\ ~r
                     /\ ~past[c].off /\ ~past[c].cut /\ ~past[c].overlap
             mid == [past EXCEPT ![c].hits = 0]
  <1>2. /\ mid \in [Cpus -> Past]
        /\ mid[c].hits = 0 /\ mid[c].missed = past[c].missed
        /\ mid[c].off = past[c].off /\ mid[c].cut = past[c].cut
        /\ mid[c].overlap = past[c].overlap
        /\ \A d \in Cpus : d # c => mid[d] = past[d]
    BY DEF TypeOK, Past
  <1>3. past' = [mid EXCEPT ![c].missed = m]
    BY <1>2 DEF Executes
  <1>4. /\ m \in BOOLEAN
        /\ m => \/ past[c].missed
                \/ /\ ~enabled[c] /\ ~r /\ ~past[c].off /\ ~past[c].cut
                   /\ ~past[c].overlap
    BY DEF TypeOK, Past, Executes, AtBreakpoint
  <1> HIDE DEF m, mid
  <1>5. /\ past' \in [Cpus -> Past] /\ past'[c] = [mid[c] EXCEPT !.missed = m]
        /\ \A d \in Cpus : d # c => past'[d] = mid[d]
    BY <1>2, <1>3, <1>4 DEF Past
  <1>6. /\ past'[c].hits = 0 /\ past'[c].missed = m /\ past'[c].off = past[c].off
        /\ past'[c].cut = past[c].cut /\ past'[c].overlap = past[c].overlap
    BY <1>2, <1>5 DEF Past
  <1> QED BY <1>1, <1>2, <1>4, <1>5, <1>6 DEF SameHistory

\* A hit is recorded for one core, which had breakpoints enabled, and is counted for it.
LEMMA HitsSets ==
    ASSUME TypeOK, NEW c \in Cpus, Hits(c)
    PROVE  /\ last' \in [Cpus -> BkptAddrs \cup {NoAddr}] /\ past' \in [Cpus -> Past]
           /\ last'[c] = pc[c] /\ enabled[c]
           /\ \A d \in Cpus : /\ d # c => past'[d] = past[d] /\ last'[d] = last[d]
                              /\ SameHistory(d)
                              /\ past'[d].missed = past[d].missed
           /\ past'[c].hits = IF past[c].overlap THEN 0
                              ELSE IF past[c].hits = 0 THEN 1 ELSE 2
  BY DEF TypeOK, Hits, Past, AtBreakpoint, SameHistory

\* The start of a thread, which may begin to resume from a breakpoint, keeps the invariant.
LEMMA MarkKeeps == ASSUME Inv, NEW t \in Threads, Mark(t) PROVE Inv'
  <1>1. /\ TypeOK /\ Ready /\ th[t].cpu \in Cpus
        /\ \A c \in Cpus : past[c] \in Past /\ past[c].overlap \in BOOLEAN
    BY Cores DEF Inv, Types, TypeOK, Past
  <1>2. /\ th' \in Slots
        /\ \A u \in Threads : u # t => th'[u] = th[u]
        /\ th'[t].cpu = th[t].cpu \/ th'[t].at = "none"
        /\ th'[t].at = "pass" => th'[t].left > 0
    BY <1>1, RunAssumption, GotoSets, PassSets, CountSets DEF Mark, At, Slots, Ats,
       NoThread, Cpus, Ready, TypeOK
  <1>3. /\ pc' \in [Cpus -> Addrs] /\ past' \in [Cpus -> Past]
        /\ \A d \in Cpus : SameHistory(d)
    BY <1>1, ExecutesSets, HitsSets DEF Mark, TypeOK, SameHistory
  <1>4. Types'
    <2>1. TypeOK'
      BY <1>1, <1>2, <1>3, HitsSets DEF Mark, TypeOK, Slots, Ats, HostStates, SameHistory
    <2>2. Ready'
      BY <1>1, <1>2 DEF Ready, Mark, Slots, Ats, At
    <2> QED BY <2>1, <2>2 DEF Types
  <1>5. RunningHasThread'
    BY <1>1, <1>2 DEF Inv, TypeOK, RunningHasThread, Live, Mark, At, Goto, Pass, NoThread
  <1>6. DisabledForAReason'
    <2> SUFFICES ASSUME NEW c \in Cpus, ~enabled'[c], ~past'[c].off, ~past'[c].cut
                 PROVE  \/ \E u \in Live(c)' : th'[u].at \in {"resume", "reenable"}
                        \/ host'.at \in {"resume", "reenable"} /\ host'.cpu = c
      BY DEF DisabledForAReason
    <2>1. CASE enabled'[c] = enabled[c]
      <3>1. \A u \in Live(c) : th[u].at \in {"resume", "reenable"} =>
                u \in Live(c)' /\ th'[u] = th[u]
        BY <1>2 DEF Mark, At, Live
      <3>2. ~enabled[c] /\ ~past[c].off /\ ~past[c].cut /\ host' = host
        BY <2>1 DEF Mark
      <3>3. \/ \E u \in Live(c) : th[u].at \in {"resume", "reenable"}
            \/ host.at \in {"resume", "reenable"} /\ host.cpu = c
        BY <3>2 DEF Inv, DisabledForAReason
      <3> QED BY <3>1, <3>2, <3>3
    <2>2. CASE enabled'[c] # enabled[c]
      <3>1. c = th[t].cpu /\ th' = [th EXCEPT ![t].at = "resume"]
        BY <1>1, <2>2 DEF Mark, TypeOK, Goto
      <3> QED BY <1>1, <3>1 DEF Live, TypeOK
    <2> QED BY <2>1, <2>2
  <1>7. BreakpointsHonoured' /\ BreakpointsPassed'
    BY DEF Inv, BreakpointsHonoured, BreakpointsPassed, Mark
  <1>8. Alone'
    <2>1. \A c \in Cpus : Live(c)' \subseteq Live(c)
      BY <1>1, <1>2 DEF Live, Mark, At, TypeOK
    <2>2. host' = host
      BY DEF Mark
    <2> QED BY <1>3, <2>1, <2>2, AloneKept DEF Stepped, SameHistory
  <1>9. HitStands'
    BY <1>1, <1>2, <1>3, <1>8, RunAssumption DEF Inv, TypeOK, BreakpointsPassed, Alone,
       Stepped, HitStands, Live, Mark, At, OnLastBreakpoint, Goto, Pass, SameHistory
  <1> QED BY <1>4, <1>5, <1>6, <1>7, <1>8, <1>9 DEF Inv

\* The instruction a thread resumes from keeps the invariant.
LEMMA ResumeKeeps == ASSUME Inv, NEW t \in Threads, Resume(t) PROVE Inv'
  <1>1. /\ TypeOK /\ Ready /\ th[t].cpu \in Cpus
        /\ \A c \in Cpus : past[c] \in Past /\ past[c].overlap \in BOOLEAN
    BY Cores DEF Inv, Types, TypeOK, Past
  <1>2. /\ th' \in Slots
        /\ \A u \in Threads : u # t => th'[u] = th[u]
        /\ th'[t].cpu = th[t].cpu \/ th'[t].at = "none"
        /\ th'[t].at = "pass" => th'[t].left > 0
    BY <1>1, RunAssumption, GotoSets, PassSets, CountSets DEF Resume, At, Slots, Ats,
       NoThread, Cpus, Ready, TypeOK
  <1>3. /\ pc' \in [Cpus -> Addrs] /\ past' \in [Cpus -> Past]
        /\ \A d \in Cpus : SameHistory(d)
    BY <1>1, ExecutesSets, HitsSets DEF Resume, TypeOK, SameHistory
  <1>4. /\ \A d \in Cpus : d # th[t].cpu => past'[d] = past[d] /\ pc'[d] = pc[d]
        /\ past'[th[t].cpu].hits = 0
        /\ past'[th[t].cpu].missed =>
              \/ past[th[t].cpu].missed
              \/ /\ ~enabled[th[t].cpu] /\ FALSE /\ ~past[th[t].cpu].off
                 /\ ~past[th[t].cpu].cut /\ ~past[th[t].cpu].overlap
    <2>1. Executes(th[t].cpu, TRUE)
      BY DEF Resume
    <2> QED BY <2>1, <1>1, ExecutesSets DEF SameHistory
  <1>5. Types'
    <2>1. TypeOK'
      BY <1>1, <1>2, <1>3, HitsSets DEF Resume, TypeOK, Slots, Ats, HostStates, SameHistory
    <2>2. Ready'
      BY <1>1, <1>2 DEF Ready, Resume, Slots, Ats, At
    <2> QED BY <2>1, <2>2 DEF Types
  <1>6. RunningHasThread'
    BY <1>1, <1>2 DEF Inv, TypeOK, RunningHasThread, Live, Resume, At, Goto, Pass, NoThread
  <1>7. DisabledForAReason'
    BY <1>1, <1>2, <1>3 DEF Inv, TypeOK, DisabledForAReason, Live, Resume, At, Goto,
       Pass, NoThread, SameHistory
  <1>8. BreakpointsHonoured'
    BY <1>1, <1>2, <1>3, <1>4 DEF Inv, TypeOK, DisabledForAReason, BreakpointsHonoured,
       Alone, Stepped, Live, Resume, At, SameHistory
  <1>9. BreakpointsPassed'
    BY <1>1, <1>2, <1>3, <1>4 DEF Inv, TypeOK, BreakpointsPassed, HitStands, Live,
       Resume, At, SameHistory
  <1>10. Alone'
    <2>1. \A c \in Cpus : Live(c)' \subseteq Live(c)
      BY <1>1, <1>2 DEF Live, Resume, At, TypeOK
    <2>2. host' = host
      BY DEF Resume
    <2> QED BY <1>3, <2>1, <2>2, AloneKept DEF Stepped, SameHistory
  <1>11. HitStands'
    BY <1>1, <1>2, <1>3, <1>4, <1>10, RunAssumption DEF Inv, TypeOK, BreakpointsPassed,
       Alone, Stepped, HitStands, Live, Resume, At, OnLastBreakpoint, Goto, Pass,
       SameHistory
  <1> QED BY <1>5, <1>6, <1>7, <1>8, <1>9, <1>10, <1>11 DEF Inv

\* An exception of the resumed instruction keeps the invariant.
LEMMA ResumeRaisesKeeps ==
    ASSUME Inv, NEW t \in Threads, ResumeRaises(t)
    PROVE  Inv'
  <1>1. /\ TypeOK /\ Ready /\ th[t].cpu \in Cpus
        /\ \A c \in Cpus : past[c] \in Past /\ past[c].overlap \in BOOLEAN
    BY Cores DEF Inv, Types, TypeOK, Past
  <1>2. /\ th' \in Slots
        /\ \A u \in Threads : u # t => th'[u] = th[u]
        /\ th'[t].cpu = th[t].cpu \/ th'[t].at = "none"
        /\ th'[t].at = "pass" => th'[t].left > 0
    BY <1>1, RunAssumption, GotoSets, PassSets, CountSets DEF ResumeRaises, At, Slots,
       Ats, NoThread, Cpus, Ready, TypeOK
  <1>3. /\ pc' \in [Cpus -> Addrs] /\ past' \in [Cpus -> Past]
        /\ \A d \in Cpus : SameHistory(d)
    BY <1>1, ExecutesSets, HitsSets DEF ResumeRaises, TypeOK, SameHistory
  <1>4. Types'
    <2>1. TypeOK'
      BY <1>1, <1>2, <1>3, HitsSets DEF ResumeRaises, TypeOK, Slots, Ats, HostStates,
         SameHistory
    <2>2. Ready'
      BY <1>1, <1>2 DEF Ready, ResumeRaises, Slots, Ats, At
    <2> QED BY <2>1, <2>2 DEF Types
  <1>5. RunningHasThread'
    BY <1>1, <1>2 DEF Inv, TypeOK, RunningHasThread, Live, ResumeRaises, At, Goto, Pass,
       NoThread
  <1>6. DisabledForAReason'
    BY <1>1, <1>2, <1>3 DEF Inv, TypeOK, DisabledForAReason, Live, ResumeRaises, At,
       Goto, Pass, NoThread, SameHistory
  <1>7. BreakpointsHonoured' /\ BreakpointsPassed'
    BY DEF Inv, BreakpointsHonoured, BreakpointsPassed, ResumeRaises
  <1>8. Alone'
    <2>1. \A c \in Cpus : Live(c)' \subseteq Live(c)
      BY <1>1, <1>2 DEF Live, ResumeRaises, At, TypeOK
    <2>2. host' = host
      BY DEF ResumeRaises
    <2> QED BY <1>3, <2>1, <2>2, AloneKept DEF Stepped, SameHistory
  <1>9. HitStands'
    BY <1>1, <1>2, <1>3, <1>8, RunAssumption DEF Inv, TypeOK, BreakpointsPassed, Alone,
       Stepped, HitStands, Live, ResumeRaises, At, OnLastBreakpoint, Goto, Pass, SameHistory
  <1> QED BY <1>4, <1>5, <1>6, <1>7, <1>8, <1>9 DEF Inv

\* The end of a resumption keeps the invariant.
LEMMA ReenableKeeps == ASSUME Inv, NEW t \in Threads, Reenable(t) PROVE Inv'
  <1>1. /\ TypeOK /\ Ready /\ th[t].cpu \in Cpus
        /\ \A c \in Cpus : past[c] \in Past /\ past[c].overlap \in BOOLEAN
    BY Cores DEF Inv, Types, TypeOK, Past
  <1>2. /\ th' \in Slots
        /\ \A u \in Threads : u # t => th'[u] = th[u]
        /\ th'[t].cpu = th[t].cpu \/ th'[t].at = "none"
        /\ th'[t].at = "pass" => th'[t].left > 0
    BY <1>1, RunAssumption, GotoSets, PassSets, CountSets DEF Reenable, At, Slots, Ats,
       NoThread, Cpus, Ready, TypeOK
  <1>3. /\ pc' \in [Cpus -> Addrs] /\ past' \in [Cpus -> Past]
        /\ \A d \in Cpus : SameHistory(d)
    BY <1>1, ExecutesSets, HitsSets DEF Reenable, TypeOK, SameHistory
  <1>4. Types'
    <2>1. TypeOK'
      BY <1>1, <1>2, <1>3, HitsSets DEF Reenable, TypeOK, Slots, Ats, HostStates,
         SameHistory
    <2>2. Ready'
      BY <1>1, <1>2 DEF Ready, Reenable, Slots, Ats, At
    <2> QED BY <2>1, <2>2 DEF Types
  <1>5. RunningHasThread'
    BY <1>1, <1>2 DEF Inv, TypeOK, RunningHasThread, Live, Reenable, At, Goto, Pass,
       NoThread
  <1>6. DisabledForAReason'
    BY <1>1, <1>2, <1>3 DEF Inv, TypeOK, DisabledForAReason, Live, Reenable, At, Goto,
       Pass, NoThread, SameHistory
  <1>7. BreakpointsHonoured' /\ BreakpointsPassed'
    BY DEF Inv, BreakpointsHonoured, BreakpointsPassed, Reenable
  <1>8. Alone'
    <2>1. \A c \in Cpus : Live(c)' \subseteq Live(c)
      BY <1>1, <1>2 DEF Live, Reenable, At, TypeOK
    <2>2. host' = host
      BY DEF Reenable
    <2> QED BY <1>3, <2>1, <2>2, AloneKept DEF Stepped, SameHistory
  <1>9. HitStands'
    BY <1>1, <1>2, <1>3, <1>8, RunAssumption DEF Inv, TypeOK, BreakpointsPassed, Alone,
       Stepped, HitStands, Live, Reenable, At, OnLastBreakpoint, Goto, Pass, SameHistory
  <1> QED BY <1>4, <1>5, <1>6, <1>7, <1>8, <1>9 DEF Inv

\* An instruction of a pass keeps the invariant.
LEMMA InstrKeeps == ASSUME Inv, NEW t \in Threads, Instr(t) PROVE Inv'
  <1>1. /\ TypeOK /\ Ready /\ th[t].cpu \in Cpus
        /\ \A c \in Cpus : past[c] \in Past /\ past[c].overlap \in BOOLEAN
    BY Cores DEF Inv, Types, TypeOK, Past
  <1>2. /\ th' \in Slots
        /\ \A u \in Threads : u # t => th'[u] = th[u]
        /\ th'[t].cpu = th[t].cpu \/ th'[t].at = "none"
        /\ th'[t].at = "pass" => th'[t].left > 0
    BY <1>1, RunAssumption, GotoSets, PassSets, CountSets DEF Instr, At, Slots, Ats,
       NoThread, Cpus, Ready, TypeOK
  <1>3. /\ pc' \in [Cpus -> Addrs] /\ past' \in [Cpus -> Past]
        /\ \A d \in Cpus : SameHistory(d)
    BY <1>1, ExecutesSets, HitsSets DEF Instr, TypeOK, SameHistory
  <1>4. /\ \A d \in Cpus : d # th[t].cpu => past'[d] = past[d] /\ pc'[d] = pc[d]
        /\ past'[th[t].cpu].hits = 0
        /\ past'[th[t].cpu].missed =>
              \/ past[th[t].cpu].missed
              \/ /\ ~enabled[th[t].cpu] /\ ~past[th[t].cpu].off
                 /\ ~past[th[t].cpu].cut /\ ~past[th[t].cpu].overlap
    <2>1. Executes(th[t].cpu, FALSE)
      BY DEF Instr
    <2> QED BY <2>1, <1>1, ExecutesSets DEF SameHistory
  <1>5. Types'
    <2>1. TypeOK'
      BY <1>1, <1>2, <1>3, HitsSets DEF Instr, TypeOK, Slots, Ats, HostStates, SameHistory
    <2>2. Ready'
      BY <1>1, <1>2 DEF Ready, Instr, Slots, Ats, At
    <2> QED BY <2>1, <2>2 DEF Types
  <1>6. RunningHasThread'
    BY <1>1, <1>2 DEF Inv, TypeOK, RunningHasThread, Live, Instr, At, Goto, Pass, NoThread
  <1>7. DisabledForAReason'
    BY <1>1, <1>2, <1>3 DEF Inv, TypeOK, DisabledForAReason, Live, Instr, At, Goto, Pass,
       NoThread, SameHistory
  <1>8. BreakpointsHonoured'
    BY <1>1, <1>2, <1>3, <1>4 DEF Inv, TypeOK, DisabledForAReason, BreakpointsHonoured,
       Alone, Stepped, Live, Instr, At, SameHistory
  <1>9. BreakpointsPassed'
    BY <1>1, <1>4 DEF Inv, BreakpointsPassed
  <1>10. Alone'
    <2>1. \A c \in Cpus : Live(c)' \subseteq Live(c)
      BY <1>1, <1>2 DEF Live, Instr, At, TypeOK
    <2>2. host' = host
      BY DEF Instr
    <2> QED BY <1>3, <2>1, <2>2, AloneKept DEF Stepped, SameHistory
  <1>11. HitStands'
    BY <1>1, <1>2, <1>3, <1>4, <1>10, RunAssumption DEF Inv, TypeOK, BreakpointsPassed,
       Alone, Stepped, HitStands, Live, Instr, At, OnLastBreakpoint, Goto, Pass, SameHistory
  <1> QED BY <1>5, <1>6, <1>7, <1>8, <1>9, <1>10, <1>11 DEF Inv

\* A hardware exception in a pass keeps the invariant.
LEMMA InstrFaultsKeeps ==
    ASSUME Inv, NEW t \in Threads, InstrFaults(t)
    PROVE  Inv'
  <1>1. /\ TypeOK /\ Ready /\ th[t].cpu \in Cpus
        /\ \A c \in Cpus : past[c] \in Past /\ past[c].overlap \in BOOLEAN
    BY Cores DEF Inv, Types, TypeOK, Past
  <1>2. /\ th' \in Slots
        /\ \A u \in Threads : u # t => th'[u] = th[u]
        /\ th'[t].cpu = th[t].cpu \/ th'[t].at = "none"
        /\ th'[t].at = "pass" => th'[t].left > 0
    BY <1>1, RunAssumption, GotoSets, PassSets, CountSets DEF InstrFaults, At, Slots,
       Ats, NoThread, Cpus, Ready, TypeOK
  <1>3. /\ pc' \in [Cpus -> Addrs] /\ past' \in [Cpus -> Past]
        /\ \A d \in Cpus : SameHistory(d)
    BY <1>1, ExecutesSets, HitsSets DEF InstrFaults, TypeOK, SameHistory
  <1>4. Types'
    <2>1. TypeOK'
      BY <1>1, <1>2, <1>3, HitsSets DEF InstrFaults, TypeOK, Slots, Ats, HostStates,
         SameHistory
    <2>2. Ready'
      BY <1>1, <1>2 DEF Ready, InstrFaults, Slots, Ats, At
    <2> QED BY <2>1, <2>2 DEF Types
  <1>5. RunningHasThread'
    BY <1>1, <1>2 DEF Inv, TypeOK, RunningHasThread, Live, InstrFaults, At, Goto, Pass,
       NoThread
  <1>6. DisabledForAReason'
    BY <1>1, <1>2, <1>3 DEF Inv, TypeOK, DisabledForAReason, Live, InstrFaults, At, Goto,
       Pass, NoThread, SameHistory
  <1>7. BreakpointsHonoured' /\ BreakpointsPassed'
    BY DEF Inv, BreakpointsHonoured, BreakpointsPassed, InstrFaults
  <1>8. Alone'
    <2>1. \A c \in Cpus : Live(c)' \subseteq Live(c)
      BY <1>1, <1>2 DEF Live, InstrFaults, At, TypeOK
    <2>2. host' = host
      BY DEF InstrFaults
    <2> QED BY <1>3, <2>1, <2>2, AloneKept DEF Stepped, SameHistory
  <1>9. HitStands'
    BY <1>1, <1>2, <1>3, <1>8, RunAssumption DEF Inv, TypeOK, BreakpointsPassed, Alone,
       Stepped, HitStands, Live, InstrFaults, At, OnLastBreakpoint, Goto, Pass, SameHistory
  <1> QED BY <1>4, <1>5, <1>6, <1>7, <1>8, <1>9 DEF Inv

\* A breakpoint hit in a pass keeps the invariant.
LEMMA InstrHitsKeeps == ASSUME Inv, NEW t \in Threads, InstrHits(t) PROVE Inv'
  <1>1. /\ TypeOK /\ Ready /\ th[t].cpu \in Cpus
        /\ \A c \in Cpus : past[c] \in Past /\ past[c].overlap \in BOOLEAN
    BY Cores DEF Inv, Types, TypeOK, Past
  <1>2. /\ th' \in Slots
        /\ \A u \in Threads : u # t => th'[u] = th[u]
        /\ th'[t].cpu = th[t].cpu \/ th'[t].at = "none"
        /\ th'[t].at = "pass" => th'[t].left > 0
    BY <1>1, RunAssumption, GotoSets, PassSets, CountSets DEF InstrHits, At, Slots, Ats,
       NoThread, Cpus, Ready, TypeOK
  <1>3. /\ pc' \in [Cpus -> Addrs] /\ past' \in [Cpus -> Past]
        /\ \A d \in Cpus : SameHistory(d)
    BY <1>1, ExecutesSets, HitsSets DEF InstrHits, TypeOK, SameHistory
  <1>4. /\ \A d \in Cpus : /\ d # th[t].cpu => past'[d] = past[d] /\ last'[d] = last[d]
                           /\ past'[d].missed = past[d].missed
        /\ last'[th[t].cpu] = pc[th[t].cpu] /\ pc' = pc
        /\ past'[th[t].cpu].hits = IF past[th[t].cpu].overlap THEN 0
                      ELSE IF past[th[t].cpu].hits = 0 THEN 1 ELSE 2
    <2>1. Hits(th[t].cpu) /\ pc' = pc
      BY DEF InstrHits
    <2> QED BY <2>1, <1>1, HitsSets DEF SameHistory
  <1>5. Types'
    <2>1. TypeOK'
      BY <1>1, <1>2, <1>3, HitsSets DEF InstrHits, TypeOK, Slots, Ats, HostStates,
         SameHistory
    <2>2. Ready'
      BY <1>1, <1>2 DEF Ready, InstrHits, Slots, Ats, At
    <2> QED BY <2>1, <2>2 DEF Types
  <1>6. RunningHasThread'
    BY <1>1, <1>2 DEF Inv, TypeOK, RunningHasThread, Live, InstrHits, At, Goto, Pass,
       NoThread
  <1>7. DisabledForAReason'
    BY <1>1, <1>2, <1>3 DEF Inv, TypeOK, DisabledForAReason, Live, InstrHits, At, Goto,
       Pass, NoThread, SameHistory
  <1>8. BreakpointsHonoured'
    BY <1>1, <1>2, <1>3, <1>4 DEF Inv, TypeOK, DisabledForAReason, BreakpointsHonoured,
       Alone, Stepped, Live, InstrHits, At, SameHistory
  <1>9. BreakpointsPassed'
    <2>1. t \in Live(th[t].cpu) /\ th[t].at = "pass"
      BY DEF InstrHits, At, Live
    <2>2. past[th[t].cpu].hits # 1
      BY <1>1, <2>1 DEF Inv, HitStands
    <2>3. past[th[t].cpu].hits = 0
      BY <1>1, <2>2 DEF Inv, BreakpointsPassed, Past
    <2> QED BY <1>1, <1>4, <2>3 DEF Inv, BreakpointsPassed
  <1>10. Alone'
    <2>1. \A c \in Cpus : Live(c)' \subseteq Live(c)
      BY <1>1, <1>2 DEF Live, InstrHits, At, TypeOK
    <2>2. host' = host
      BY DEF InstrHits
    <2> QED BY <1>3, <2>1, <2>2, AloneKept DEF Stepped, SameHistory
  <1>11. HitStands'
    BY <1>1, <1>2, <1>3, <1>4, <1>10, RunAssumption DEF Inv, TypeOK, BreakpointsPassed,
       Alone, Stepped, HitStands, Live, InstrHits, At, OnLastBreakpoint, Goto, Pass,
       SameHistory
  <1> QED BY <1>5, <1>6, <1>7, <1>8, <1>9, <1>10, <1>11 DEF Inv

\* A failure in a pass keeps the invariant.
LEMMA InstrFailsKeeps == ASSUME Inv, NEW t \in Threads, InstrFails(t) PROVE Inv'
  <1>1. /\ TypeOK /\ Ready /\ th[t].cpu \in Cpus
        /\ \A c \in Cpus : past[c] \in Past /\ past[c].overlap \in BOOLEAN
    BY Cores DEF Inv, Types, TypeOK, Past
  <1>2. /\ th' \in Slots
        /\ \A u \in Threads : u # t => th'[u] = th[u]
        /\ th'[t].cpu = th[t].cpu \/ th'[t].at = "none"
        /\ th'[t].at = "pass" => th'[t].left > 0
    BY <1>1, RunAssumption, GotoSets, PassSets, CountSets DEF InstrFails, At, Slots, Ats,
       NoThread, Cpus, Ready, TypeOK
  <1>3. /\ pc' \in [Cpus -> Addrs] /\ past' \in [Cpus -> Past]
        /\ \A d \in Cpus : SameHistory(d)
    BY <1>1, ExecutesSets, HitsSets DEF InstrFails, TypeOK, SameHistory
  <1>4. Types'
    <2>1. TypeOK'
      BY <1>1, <1>2, <1>3, HitsSets DEF InstrFails, TypeOK, Slots, Ats, HostStates,
         SameHistory
    <2>2. Ready'
      BY <1>1, <1>2 DEF Ready, InstrFails, Slots, Ats, At
    <2> QED BY <2>1, <2>2 DEF Types
  <1>5. RunningHasThread'
    BY <1>1, <1>2 DEF Inv, TypeOK, RunningHasThread, Live, InstrFails, At, Goto, Pass,
       NoThread
  <1>6. DisabledForAReason'
    BY <1>1, <1>2, <1>3 DEF Inv, TypeOK, DisabledForAReason, Live, InstrFails, At, Goto,
       Pass, NoThread, SameHistory
  <1>7. BreakpointsHonoured' /\ BreakpointsPassed'
    BY DEF Inv, BreakpointsHonoured, BreakpointsPassed, InstrFails
  <1>8. Alone'
    <2>1. \A c \in Cpus : Live(c)' \subseteq Live(c)
      BY <1>1, <1>2 DEF Live, InstrFails, At, TypeOK
    <2>2. host' = host
      BY DEF InstrFails
    <2> QED BY <1>3, <2>1, <2>2, AloneKept DEF Stepped, SameHistory
  <1>9. HitStands'
    BY <1>1, <1>2, <1>3, <1>8, RunAssumption DEF Inv, TypeOK, BreakpointsPassed, Alone,
       Stepped, HitStands, Live, InstrFails, At, OnLastBreakpoint, Goto, Pass, SameHistory
  <1> QED BY <1>4, <1>5, <1>6, <1>7, <1>8, <1>9 DEF Inv

\* The look at m_cpu_mode between passes keeps the invariant.
LEMMA PollKeeps == ASSUME Inv, NEW t \in Threads, Poll(t) PROVE Inv'
  <1>1. /\ TypeOK /\ Ready /\ th[t].cpu \in Cpus
        /\ \A c \in Cpus : past[c] \in Past /\ past[c].overlap \in BOOLEAN
    BY Cores DEF Inv, Types, TypeOK, Past
  <1>2. /\ th' \in Slots
        /\ \A u \in Threads : u # t => th'[u] = th[u]
        /\ th'[t].cpu = th[t].cpu \/ th'[t].at = "none"
        /\ th'[t].at = "pass" => th'[t].left > 0
    BY <1>1, RunAssumption, GotoSets, PassSets, CountSets DEF Poll, At, Slots, Ats,
       NoThread, Cpus, Ready, TypeOK
  <1>3. /\ pc' \in [Cpus -> Addrs] /\ past' \in [Cpus -> Past]
        /\ \A d \in Cpus : SameHistory(d)
    BY <1>1, ExecutesSets, HitsSets DEF Poll, TypeOK, SameHistory
  <1>4. Types'
    <2>1. TypeOK'
      BY <1>1, <1>2, <1>3, HitsSets DEF Poll, TypeOK, Slots, Ats, HostStates, SameHistory
    <2>2. Ready'
      BY <1>1, <1>2 DEF Ready, Poll, Slots, Ats, At
    <2> QED BY <2>1, <2>2 DEF Types
  <1>5. RunningHasThread'
    BY <1>1, <1>2 DEF Inv, TypeOK, RunningHasThread, Live, Poll, At, Goto, Pass, NoThread
  <1>6. DisabledForAReason'
    BY <1>1, <1>2, <1>3 DEF Inv, TypeOK, DisabledForAReason, Live, Poll, At, Goto, Pass,
       NoThread, SameHistory
  <1>7. BreakpointsHonoured' /\ BreakpointsPassed'
    BY DEF Inv, BreakpointsHonoured, BreakpointsPassed, Poll
  <1>8. Alone'
    <2>1. \A c \in Cpus : Live(c)' \subseteq Live(c)
      BY <1>1, <1>2 DEF Live, Poll, At, TypeOK
    <2>2. host' = host
      BY DEF Poll
    <2> QED BY <1>3, <2>1, <2>2, AloneKept DEF Stepped, SameHistory
  <1>9. HitStands'
    BY <1>1, <1>2, <1>3, <1>8, RunAssumption DEF Inv, TypeOK, BreakpointsPassed, Alone,
       Stepped, HitStands, Live, Poll, At, OnLastBreakpoint, Goto, Pass, SameHistory
  <1> QED BY <1>4, <1>5, <1>6, <1>7, <1>8, <1>9 DEF Inv

\* catch(...) keeps the invariant.
LEMMA CatchKeeps == ASSUME Inv, NEW t \in Threads, Catch(t) PROVE Inv'
  <1>1. /\ TypeOK /\ Ready /\ th[t].cpu \in Cpus
        /\ \A c \in Cpus : past[c] \in Past /\ past[c].overlap \in BOOLEAN
    BY Cores DEF Inv, Types, TypeOK, Past
  <1>2. /\ th' \in Slots
        /\ \A u \in Threads : u # t => th'[u] = th[u]
        /\ th'[t].cpu = th[t].cpu \/ th'[t].at = "none"
        /\ th'[t].at = "pass" => th'[t].left > 0
    BY <1>1, RunAssumption, GotoSets, PassSets, CountSets DEF Catch, At, Slots, Ats,
       NoThread, Cpus, Ready, TypeOK
  <1>3. /\ pc' \in [Cpus -> Addrs] /\ past' \in [Cpus -> Past]
        /\ \A d \in Cpus : SameHistory(d)
    BY <1>1, ExecutesSets, HitsSets DEF Catch, TypeOK, SameHistory
  <1>4. Types'
    <2>1. TypeOK'
      BY <1>1, <1>2, <1>3, HitsSets DEF Catch, TypeOK, Slots, Ats, HostStates, SameHistory
    <2>2. Ready'
      BY <1>1, <1>2 DEF Ready, Catch, Slots, Ats, At
    <2> QED BY <2>1, <2>2 DEF Types
  <1>5. RunningHasThread'
    BY <1>1, <1>2 DEF Inv, TypeOK, RunningHasThread, Live, Catch, At, Goto, Pass, NoThread
  <1>6. DisabledForAReason'
    BY <1>1, <1>2, <1>3 DEF Inv, TypeOK, DisabledForAReason, Live, Catch, At, Goto, Pass,
       NoThread, SameHistory
  <1>7. BreakpointsHonoured' /\ BreakpointsPassed'
    BY DEF Inv, BreakpointsHonoured, BreakpointsPassed, Catch
  <1>8. Alone'
    <2>1. \A c \in Cpus : Live(c)' \subseteq Live(c)
      BY <1>1, <1>2 DEF Live, Catch, At, TypeOK
    <2>2. host' = host
      BY DEF Catch
    <2> QED BY <1>3, <2>1, <2>2, AloneKept DEF Stepped, SameHistory
  <1>9. HitStands'
    BY <1>1, <1>2, <1>3, <1>8, RunAssumption DEF Inv, TypeOK, BreakpointsPassed, Alone,
       Stepped, HitStands, Live, Catch, At, OnLastBreakpoint, Goto, Pass, SameHistory
  <1> QED BY <1>4, <1>5, <1>6, <1>7, <1>8, <1>9 DEF Inv

\* The end of a thread keeps the invariant.
LEMMA ExitKeeps == ASSUME Inv, NEW t \in Threads, Exit(t) PROVE Inv'
  <1>1. /\ TypeOK /\ Ready /\ th[t].cpu \in Cpus
        /\ \A c \in Cpus : past[c] \in Past /\ past[c].overlap \in BOOLEAN
    BY Cores DEF Inv, Types, TypeOK, Past
  <1>2. /\ th' \in Slots
        /\ \A u \in Threads : u # t => th'[u] = th[u]
        /\ th'[t].cpu = th[t].cpu \/ th'[t].at = "none"
        /\ th'[t].at = "pass" => th'[t].left > 0
    <2>1. NoThread \in [at : Ats, cpu : Cpus, left : 0..PassLength] /\ NoThread.at = "none"
      BY RunAssumption DEF NoThread, Ats, Cpus
    <2> QED BY <1>1, <2>1 DEF Exit, TypeOK, Slots, Ats
  <1>3. /\ pc' \in [Cpus -> Addrs] /\ past' \in [Cpus -> Past]
        /\ \A d \in Cpus : SameHistory(d)
    BY <1>1, ExecutesSets, HitsSets DEF Exit, TypeOK, SameHistory
  <1>4. Types'
    <2>1. TypeOK'
      BY <1>1, <1>2, <1>3, HitsSets DEF Exit, TypeOK, Slots, Ats, HostStates, SameHistory
    <2>2. Ready'
      BY <1>1, <1>2 DEF Ready, Exit, Slots, Ats, At
    <2> QED BY <2>1, <2>2 DEF Types
  <1>5. RunningHasThread'
    BY <1>1, <1>2 DEF Inv, TypeOK, RunningHasThread, Live, Exit, At, Goto, Pass, NoThread
  <1>6. DisabledForAReason'
    BY <1>1, <1>2, <1>3 DEF Inv, TypeOK, DisabledForAReason, Live, Exit, At, Goto, Pass,
       NoThread, SameHistory
  <1>7. BreakpointsHonoured' /\ BreakpointsPassed'
    BY DEF Inv, BreakpointsHonoured, BreakpointsPassed, Exit
  <1>8. Alone'
    <2>1. \A c \in Cpus : Live(c)' \subseteq Live(c)
      BY <1>1, <1>2 DEF Live, Exit, At, TypeOK
    <2>2. host' = host
      BY DEF Exit
    <2> QED BY <1>3, <2>1, <2>2, AloneKept DEF Stepped, SameHistory
  <1>9. HitStands'
    <2>1. \A c \in Cpus : \A u \in Live(c)' : u \in Live(c) /\ th'[u] = th[u]
      BY <1>2, <1>1 DEF Live, Exit, TypeOK, NoThread
    <2> QED BY <2>1 DEF Inv, HitStands, Exit
  <1> QED BY <1>4, <1>5, <1>6, <1>7, <1>8, <1>9 DEF Inv

\* The count of step stays in its range.
LEMMA CountedHost ==
    ASSUME TypeOK, host.left > 0, NEW at \in {"reenable", "loop"},
           host' = [host EXCEPT !.at = at, !.left = @ - 1]
    PROVE  /\ host' \in HostStates
  <1>1. host.left - 1 \in 0..MaxStep
    BY RunAssumption DEF TypeOK
  <1>2. host' = [at |-> at, cpu |-> host.cpu, left |-> host.left - 1]
    BY DEF TypeOK
  <1> QED BY <1>1, <1>2 DEF TypeOK, HostStates

\* An order to go on tells whether another caller is there, and only then forgets the hit.
LEMMA OrderedSets ==
    ASSUME TypeOK, NEW c \in Cpus, past' = Ordered(c)
    PROVE  /\ past' \in [Cpus -> Past]
           /\ \A d \in Cpus : /\ d # c => past'[d] = past[d]
                              /\ past'[d].off = past[d].off
                              /\ past'[d].cut = past[d].cut
                              /\ past'[d].missed = past[d].missed
           /\ past'[c].overlap <=> past[c].overlap \/ Live(c) # {}
           /\ past'[c].hits = IF past[c].overlap \/ Live(c) # {} THEN 0 ELSE past[c].hits
  <1> DEFINE o == past[c].overlap \/ Live(c) # {}
             h == IF o THEN 0 ELSE past[c].hits
  <1>1. past' = [past EXCEPT ![c].order = "go", ![c].overlap = o, ![c].hits = h]
    BY DEF Ordered, TypeOK, Past
  <1>2. o \in BOOLEAN /\ h \in 0..2
    BY DEF TypeOK, Past
  <1> HIDE DEF o, h
  <1> DEFINE m1 == [past EXCEPT ![c].order = "go"]
             m2 == [m1 EXCEPT ![c].overlap = o]
  <1>3. /\ m1 \in [Cpus -> Past] /\ \A d \in Cpus : d # c => m1[d] = past[d]
        /\ m1[c].off = past[c].off /\ m1[c].cut = past[c].cut /\ m1[c].missed = past[c].missed
    BY DEF TypeOK, Past
  <1>4. past' = [m2 EXCEPT ![c].hits = h]
    BY <1>1
  <1> HIDE DEF m1
  <1>5. /\ m2 \in [Cpus -> Past] /\ \A d \in Cpus : d # c => m2[d] = past[d]
        /\ m2[c].off = past[c].off /\ m2[c].cut = past[c].cut /\ m2[c].missed = past[c].missed
        /\ m2[c].overlap = o
    BY <1>2, <1>3 DEF Past
  <1> HIDE DEF m2
  <1>6. /\ past' \in [Cpus -> Past] /\ \A d \in Cpus : d # c => past'[d] = past[d]
        /\ past'[c].overlap = o /\ past'[c].hits = h /\ past'[c].off = past[c].off
        /\ past'[c].cut = past[c].cut /\ past'[c].missed = past[c].missed
    BY <1>2, <1>4, <1>5 DEF Past
  <1> QED BY <1>2, <1>3, <1>6 DEF o, h

\* run keeps the invariant.
LEMMA RunKeeps ==
    ASSUME Inv, NEW c \in Cpus, NEW t \in Threads, Run(c, t)
    PROVE  Inv'
  <1>1. /\ TypeOK /\ Ready /\ c \in Cpus
        /\ \A d \in Cpus : past[d] \in Past /\ past[d].overlap \in BOOLEAN
    BY DEF Inv, Types, TypeOK, Past
  <1>2. th' \in Slots
    <2>1. [at |-> "start", cpu |-> c, left |-> 0] \in [at : Ats, cpu : Cpus, left : 0..PassLength]
      BY RunAssumption DEF Ats
    <2> QED BY <1>1, <2>1 DEF Run, TypeOK, Slots, Ats
  <1>3. /\ pc' \in [Cpus -> Addrs] /\ past' \in [Cpus -> Past]
    BY <1>1, OrderedSets DEF Run, TypeOK, Past
  <1>4. /\ \A d \in Cpus : /\ d # c => past'[d] = past[d]
                           /\ past'[d].off = past[d].off
                           /\ past'[d].cut = past[d].cut
                           /\ past'[d].missed = past[d].missed
        /\ past'[c].overlap <=> past[c].overlap \/ Live(c) # {}
        /\ past'[c].hits = IF past[c].overlap \/ Live(c) # {} THEN 0 ELSE past[c].hits
    BY <1>1, OrderedSets DEF Run
  <1>5. Types'
    <2>1. host' \in HostStates
      BY <1>1, RunAssumption DEF Run, HostAt, HostGoto, Idle, TypeOK, Ready, Cpus,
         HostStates
    <2>2. TypeOK'
      BY <1>1, <1>2, <1>3, <2>1 DEF Run, TypeOK, Slots, Ats, HostStates
    <2>3. Ready'
      BY <1>1, <1>2, RunAssumption DEF Ready, Run, HostAt, HostGoto, Idle, TypeOK
    <2> QED BY <2>2, <2>3 DEF Types
  <1>6. RunningHasThread'
    BY <1>1, <1>2 DEF Inv, TypeOK, RunningHasThread, Live, Run
  <1>7. DisabledForAReason'
    BY <1>1, <1>2, <1>3, <1>4 DEF Inv, TypeOK, Past, DisabledForAReason, Live, Run,
       HostAt, HostGoto, Idle
  <1>8. BreakpointsHonoured'
    BY <1>1, <1>2, <1>3, <1>4 DEF Inv, TypeOK, Past, DisabledForAReason,
       BreakpointsHonoured, Alone, Stepped, Live, Run, HostAt
  <1>9. BreakpointsPassed'
    BY <1>1, <1>2, <1>3, <1>4 DEF Inv, TypeOK, Past, BreakpointsPassed, HitStands, Live,
       Run, HostAt
  <1>10. Alone'
    BY <1>1, <1>2, <1>4 DEF Inv, Alone, Live, Stepped, HostAt, Run, TypeOK
  <1>11. HitStands'
    BY <1>1, <1>2, <1>3, <1>4, RunAssumption DEF Inv, TypeOK, Past, BreakpointsPassed,
       Alone, Stepped, HitStands, Live, Run, HostAt, HostGoto, Idle, OnLastBreakpoint
  <1> QED BY <1>5, <1>6, <1>7, <1>8, <1>9, <1>10, <1>11 DEF Inv

\* run, when it raises a saved exception, keeps the invariant.
LEMMA RunRaisesKeeps == ASSUME Inv, RunRaises PROVE Inv'
  <1>1. /\ TypeOK /\ Ready /\ host.cpu \in Cpus
        /\ \A d \in Cpus : past[d] \in Past /\ past[d].overlap \in BOOLEAN
    BY DEF Inv, Types, TypeOK, Past
  <1>2. th' = th
    BY <1>1 DEF RunRaises, TypeOK, Slots, Ats
  <1>3. /\ pc' \in [Cpus -> Addrs] /\ past' \in [Cpus -> Past]
        /\ \A d \in Cpus : past'[d].overlap = past[d].overlap
    BY <1>1 DEF RunRaises, TypeOK, Past
  <1>4. Types'
    <2>1. host' \in HostStates
      BY <1>1, RunAssumption DEF RunRaises, HostAt, HostGoto, Idle, TypeOK, Ready, Cpus,
         HostStates
    <2>2. TypeOK'
      BY <1>1, <1>2, <1>3, <2>1 DEF RunRaises, TypeOK, Slots, Ats, HostStates
    <2>3. Ready'
      BY <1>1, <1>2, RunAssumption DEF Ready, RunRaises, HostAt, HostGoto, Idle, TypeOK
    <2> QED BY <2>2, <2>3 DEF Types
  <1>5. RunningHasThread'
    BY <1>1, <1>2 DEF Inv, TypeOK, RunningHasThread, Live, RunRaises
  <1>6. DisabledForAReason'
    BY <1>1, <1>2, <1>3 DEF Inv, TypeOK, Past, DisabledForAReason, Live, RunRaises,
       HostAt, HostGoto, Idle
  <1>7. BreakpointsHonoured' /\ BreakpointsPassed'
    BY DEF Inv, BreakpointsHonoured, BreakpointsPassed, RunRaises
  <1>8. Alone'
    <2>1. \A c \in Cpus : Live(c)' \subseteq Live(c)
      BY <1>1, <1>2 DEF Live
    <2>2. \A c \in Cpus : Stepped(c)' => Stepped(c)
      BY <1>1 DEF RunRaises, Stepped, HostAt, HostGoto, Idle, TypeOK
    <2>3. \A c \in Cpus : past'[c].overlap = past[c].overlap
      BY <1>1, <1>3 DEF RunRaises, TypeOK, Past
    <2> QED BY <2>1, <2>2, <2>3, AloneKept
  <1>9. HitStands'
    BY <1>1, <1>2, <1>3, RunAssumption DEF Inv, TypeOK, Past, BreakpointsPassed, Alone,
       Stepped, HitStands, Live, RunRaises, HostAt, HostGoto, Idle, OnLastBreakpoint
  <1> QED BY <1>4, <1>5, <1>6, <1>7, <1>8, <1>9 DEF Inv

\* The return of run keeps the invariant.
LEMMA RunReturnsKeeps == ASSUME Inv, RunReturns PROVE Inv'
  <1>1. /\ TypeOK /\ Ready /\ host.cpu \in Cpus
        /\ \A d \in Cpus : past[d] \in Past /\ past[d].overlap \in BOOLEAN
    BY DEF Inv, Types, TypeOK, Past
  <1>2. th' = th
    BY <1>1 DEF RunReturns, TypeOK, Slots, Ats
  <1>3. /\ pc' \in [Cpus -> Addrs] /\ past' \in [Cpus -> Past]
        /\ \A d \in Cpus : past'[d].overlap = past[d].overlap
    BY <1>1 DEF RunReturns, TypeOK, Past
  <1>4. Types'
    <2>1. host' \in HostStates
      BY <1>1, RunAssumption DEF RunReturns, HostAt, HostGoto, Idle, TypeOK, Ready, Cpus,
         HostStates
    <2>2. TypeOK'
      BY <1>1, <1>2, <1>3, <2>1 DEF RunReturns, TypeOK, Slots, Ats, HostStates
    <2>3. Ready'
      BY <1>1, <1>2, RunAssumption DEF Ready, RunReturns, HostAt, HostGoto, Idle, TypeOK
    <2> QED BY <2>2, <2>3 DEF Types
  <1>5. RunningHasThread'
    BY <1>1, <1>2 DEF Inv, TypeOK, RunningHasThread, Live, RunReturns
  <1>6. DisabledForAReason'
    BY <1>1, <1>2, <1>3 DEF Inv, TypeOK, Past, DisabledForAReason, Live, RunReturns,
       HostAt, HostGoto, Idle
  <1>7. BreakpointsHonoured' /\ BreakpointsPassed'
    BY DEF Inv, BreakpointsHonoured, BreakpointsPassed, RunReturns
  <1>8. Alone'
    <2>1. \A c \in Cpus : Live(c)' \subseteq Live(c)
      BY <1>1, <1>2 DEF Live
    <2>2. \A c \in Cpus : Stepped(c)' => Stepped(c)
      BY <1>1 DEF RunReturns, Stepped, HostAt, HostGoto, Idle, TypeOK
    <2>3. \A c \in Cpus : past'[c].overlap = past[c].overlap
      BY <1>1, <1>3 DEF RunReturns, TypeOK, Past
    <2> QED BY <2>1, <2>2, <2>3, AloneKept
  <1>9. HitStands'
    BY <1>1, <1>2, <1>3, RunAssumption DEF Inv, TypeOK, Past, BreakpointsPassed, Alone,
       Stepped, HitStands, Live, RunReturns, HostAt, HostGoto, Idle, OnLastBreakpoint
  <1> QED BY <1>4, <1>5, <1>6, <1>7, <1>8, <1>9 DEF Inv

\* halt keeps the invariant.
LEMMA haltKeeps == ASSUME Inv, NEW c \in Cpus, halt(c) PROVE Inv'
  <1>1. /\ TypeOK /\ Ready /\ c \in Cpus
        /\ \A d \in Cpus : past[d] \in Past /\ past[d].overlap \in BOOLEAN
    BY DEF Inv, Types, TypeOK, Past
  <1>2. th' = th
    BY <1>1 DEF halt, TypeOK, Slots, Ats
  <1>3. /\ pc' \in [Cpus -> Addrs] /\ past' \in [Cpus -> Past]
        /\ \A d \in Cpus : past'[d].overlap = past[d].overlap
    BY <1>1 DEF halt, TypeOK, Past
  <1>4. Types'
    <2>1. host' \in HostStates
      BY <1>1, RunAssumption DEF halt, HostAt, HostGoto, Idle, TypeOK, Ready, Cpus,
         HostStates
    <2>2. TypeOK'
      BY <1>1, <1>2, <1>3, <2>1 DEF halt, TypeOK, Slots, Ats, HostStates
    <2>3. Ready'
      BY <1>1, <1>2, RunAssumption DEF Ready, halt, HostAt, HostGoto, Idle, TypeOK
    <2> QED BY <2>2, <2>3 DEF Types
  <1>5. RunningHasThread'
    BY <1>1, <1>2 DEF Inv, TypeOK, RunningHasThread, Live, halt
  <1>6. DisabledForAReason'
    BY <1>1, <1>2, <1>3 DEF Inv, TypeOK, Past, DisabledForAReason, Live, halt, HostAt,
       HostGoto, Idle
  <1>7. BreakpointsHonoured'
    BY <1>1, <1>2, <1>3 DEF Inv, TypeOK, Past, DisabledForAReason, BreakpointsHonoured,
       Alone, Stepped, Live, halt, HostAt
  <1>8. BreakpointsPassed'
    BY <1>1, <1>2, <1>3 DEF Inv, TypeOK, Past, BreakpointsPassed, HitStands, Live, halt,
       HostAt
  <1>9. Alone'
    <2>1. \A d \in Cpus : Live(d)' \subseteq Live(d)
      BY <1>1, <1>2 DEF Live
    <2>2. \A d \in Cpus : Stepped(d)' => Stepped(d)
      BY <1>1 DEF halt, Stepped, HostAt, HostGoto, Idle, TypeOK
    <2>3. \A d \in Cpus : past'[d].overlap = past[d].overlap
      BY <1>1, <1>3 DEF halt, TypeOK, Past
    <2> QED BY <2>1, <2>2, <2>3, AloneKept
  <1>10. HitStands'
    BY <1>1, <1>2, <1>3, RunAssumption DEF Inv, TypeOK, Past, BreakpointsPassed, Alone,
       Stepped, HitStands, Live, halt, HostAt, HostGoto, Idle, OnLastBreakpoint
  <1> QED BY <1>4, <1>5, <1>6, <1>7, <1>8, <1>9, <1>10 DEF Inv

\* stop keeps the invariant.
LEMMA stopKeeps == ASSUME Inv, NEW c \in Cpus, stop(c) PROVE Inv'
  <1>1. /\ TypeOK /\ Ready /\ c \in Cpus
        /\ \A d \in Cpus : past[d] \in Past /\ past[d].overlap \in BOOLEAN
    BY DEF Inv, Types, TypeOK, Past
  <1>2. th' = th
    BY <1>1 DEF stop, TypeOK, Slots, Ats
  <1>3. /\ pc' \in [Cpus -> Addrs] /\ past' \in [Cpus -> Past]
        /\ \A d \in Cpus : past'[d].overlap = past[d].overlap
    BY <1>1 DEF stop, TypeOK, Past
  <1>4. Types'
    <2>1. host' \in HostStates
      BY <1>1, RunAssumption DEF stop, HostAt, HostGoto, Idle, TypeOK, Ready, Cpus,
         HostStates
    <2>2. TypeOK'
      BY <1>1, <1>2, <1>3, <2>1 DEF stop, TypeOK, Slots, Ats, HostStates
    <2>3. Ready'
      BY <1>1, <1>2, RunAssumption DEF Ready, stop, HostAt, HostGoto, Idle, TypeOK
    <2> QED BY <2>2, <2>3 DEF Types
  <1>5. RunningHasThread'
    BY <1>1, <1>2 DEF Inv, TypeOK, RunningHasThread, Live, stop
  <1>6. DisabledForAReason'
    BY <1>1, <1>2, <1>3 DEF Inv, TypeOK, Past, DisabledForAReason, Live, stop, HostAt,
       HostGoto, Idle
  <1>7. BreakpointsHonoured'
    BY <1>1, <1>2, <1>3 DEF Inv, TypeOK, Past, DisabledForAReason, BreakpointsHonoured,
       Alone, Stepped, Live, stop, HostAt
  <1>8. BreakpointsPassed'
    BY <1>1, <1>2, <1>3 DEF Inv, TypeOK, Past, BreakpointsPassed, HitStands, Live, stop,
       HostAt
  <1>9. Alone'
    <2>1. \A d \in Cpus : Live(d)' \subseteq Live(d)
      BY <1>1, <1>2 DEF Live
    <2>2. \A d \in Cpus : Stepped(d)' => Stepped(d)
      BY <1>1 DEF stop, Stepped, HostAt, HostGoto, Idle, TypeOK
    <2>3. \A d \in Cpus : past'[d].overlap = past[d].overlap
      BY <1>1, <1>3 DEF stop, TypeOK, Past
    <2> QED BY <2>1, <2>2, <2>3, AloneKept
  <1>10. HitStands'
    BY <1>1, <1>2, <1>3, RunAssumption DEF Inv, TypeOK, Past, BreakpointsPassed, Alone,
       Stepped, HitStands, Live, stop, HostAt, HostGoto, Idle, OnLastBreakpoint
  <1> QED BY <1>4, <1>5, <1>6, <1>7, <1>8, <1>9, <1>10 DEF Inv

\* The start of step keeps the invariant.
LEMMA StepKeeps ==
    ASSUME Inv, NEW c \in Cpus, NEW n \in 1..MaxStep, Step(c, n)
    PROVE  Inv'
  <1>1. /\ TypeOK /\ Ready /\ c \in Cpus
        /\ \A d \in Cpus : past[d] \in Past /\ past[d].overlap \in BOOLEAN
    BY DEF Inv, Types, TypeOK, Past
  <1>2. th' = th
    BY <1>1 DEF Step, TypeOK, Slots, Ats
  <1>3. /\ pc' \in [Cpus -> Addrs] /\ past' \in [Cpus -> Past]
    BY <1>1, OrderedSets DEF Step, TypeOK, Past
  <1>4. /\ \A d \in Cpus : /\ d # c => past'[d] = past[d]
                           /\ past'[d].off = past[d].off
                           /\ past'[d].cut = past[d].cut
                           /\ past'[d].missed = past[d].missed
        /\ past'[c].overlap <=> past[c].overlap \/ Live(c) # {}
        /\ past'[c].hits = IF past[c].overlap \/ Live(c) # {} THEN 0 ELSE past[c].hits
    BY <1>1, OrderedSets DEF Step
  <1>5. Types'
    <2>1. host' \in HostStates
      BY <1>1, RunAssumption DEF Step, HostAt, HostGoto, Idle, TypeOK, Ready, Cpus,
         HostStates
    <2>2. TypeOK'
      BY <1>1, <1>2, <1>3, <2>1 DEF Step, TypeOK, Slots, Ats, HostStates
    <2>3. Ready'
      BY <1>1, <1>2, RunAssumption DEF Ready, Step, HostAt, HostGoto, Idle, TypeOK
    <2> QED BY <2>2, <2>3 DEF Types
  <1>6. RunningHasThread'
    BY <1>1, <1>2 DEF Inv, TypeOK, RunningHasThread, Live, Step
  <1>7. DisabledForAReason'
    BY <1>1, <1>2, <1>3, <1>4 DEF Inv, TypeOK, Past, DisabledForAReason, Live, Step,
       HostAt, HostGoto, Idle
  <1>8. BreakpointsHonoured'
    BY <1>1, <1>2, <1>3, <1>4 DEF Inv, TypeOK, Past, DisabledForAReason,
       BreakpointsHonoured, Alone, Stepped, Live, Step, HostAt
  <1>9. BreakpointsPassed'
    BY <1>1, <1>4 DEF Inv, BreakpointsPassed
  <1>10. Alone'
    BY <1>1, <1>2, <1>4 DEF Inv, Alone, Live, Stepped, HostAt, Step, TypeOK
  <1>11. HitStands'
    BY <1>1, <1>2, <1>3, <1>4, RunAssumption DEF Inv, TypeOK, Past, BreakpointsPassed,
       Alone, Stepped, HitStands, Live, Step, HostAt, HostGoto, Idle, OnLastBreakpoint
  <1> QED BY <1>5, <1>6, <1>7, <1>8, <1>9, <1>10, <1>11 DEF Inv

\* The instruction step resumes from keeps the invariant.
LEMMA StepResumeKeeps == ASSUME Inv, StepResume PROVE Inv'
  <1>1. /\ TypeOK /\ Ready /\ host.cpu \in Cpus
        /\ \A d \in Cpus : past[d] \in Past /\ past[d].overlap \in BOOLEAN
    BY DEF Inv, Types, TypeOK, Past
  <1>2. th' = th
    BY <1>1 DEF StepResume, TypeOK, Slots, Ats
  <1>3. /\ pc' \in [Cpus -> Addrs] /\ past' \in [Cpus -> Past]
        /\ \A d \in Cpus : past'[d].overlap = past[d].overlap
    BY <1>1, ExecutesSets DEF StepResume, TypeOK, Past, SameHistory
  <1>4. /\ \A d \in Cpus : SameHistory(d)
        /\ \A d \in Cpus : d # host.cpu => past'[d] = past[d] /\ pc'[d] = pc[d]
        /\ past'[host.cpu].hits = 0
        /\ past'[host.cpu].missed =>
              \/ past[host.cpu].missed
              \/ /\ ~enabled[host.cpu] /\ FALSE /\ ~past[host.cpu].off
                 /\ ~past[host.cpu].cut /\ ~past[host.cpu].overlap
    <2>1. Executes(host.cpu, TRUE)
      BY DEF StepResume
    <2> QED BY <2>1, <1>1, ExecutesSets DEF SameHistory
  <1>5. Types'
    <2>1. host' \in HostStates
      BY <1>1, RunAssumption DEF StepResume, HostAt, HostGoto, Idle, TypeOK, Ready, Cpus,
         HostStates
    <2>2. TypeOK'
      BY <1>1, <1>2, <1>3, <2>1 DEF StepResume, TypeOK, Slots, Ats, HostStates, SameHistory
    <2>3. Ready'
      BY <1>1, <1>2, RunAssumption DEF Ready, StepResume, HostAt, HostGoto, Idle, TypeOK
    <2> QED BY <2>2, <2>3 DEF Types
  <1>6. RunningHasThread'
    BY <1>1, <1>2 DEF Inv, TypeOK, RunningHasThread, Live, StepResume
  <1>7. DisabledForAReason'
    BY <1>1, <1>2, <1>3, <1>4 DEF Inv, TypeOK, Past, DisabledForAReason, Live,
       StepResume, HostAt, HostGoto, Idle, SameHistory
  <1>8. BreakpointsHonoured'
    BY <1>1, <1>2, <1>3, <1>4 DEF Inv, TypeOK, Past, DisabledForAReason,
       BreakpointsHonoured, Alone, Stepped, Live, StepResume, HostAt, SameHistory
  <1>9. BreakpointsPassed'
    BY <1>1, <1>2, <1>3, <1>4 DEF Inv, TypeOK, Past, BreakpointsPassed, HitStands, Live,
       StepResume, HostAt, SameHistory
  <1>10. Alone'
    <2>1. \A c \in Cpus : Live(c)' \subseteq Live(c)
      BY <1>1, <1>2 DEF Live
    <2>2. \A c \in Cpus : Stepped(c)' => Stepped(c)
      BY <1>1 DEF StepResume, Stepped, HostAt, HostGoto, Idle, TypeOK
    <2>3. \A c \in Cpus : past'[c].overlap = past[c].overlap
      BY <1>1, <1>3 DEF StepResume, TypeOK, Past, SameHistory
    <2> QED BY <2>1, <2>2, <2>3, AloneKept
  <1>11. HitStands'
    BY <1>1, <1>2, <1>3, <1>4, RunAssumption DEF Inv, TypeOK, Past, BreakpointsPassed,
       Alone, Stepped, HitStands, Live, StepResume, HostAt, HostGoto, Idle,
       OnLastBreakpoint, SameHistory
  <1> QED BY <1>5, <1>6, <1>7, <1>8, <1>9, <1>10, <1>11 DEF Inv

\* An exception of that instruction keeps the invariant.
LEMMA StepResumeRaisesKeeps == ASSUME Inv, StepResumeRaises PROVE Inv'
  <1>1. /\ TypeOK /\ Ready /\ host.cpu \in Cpus
        /\ \A d \in Cpus : past[d] \in Past /\ past[d].overlap \in BOOLEAN
    BY DEF Inv, Types, TypeOK, Past
  <1>2. th' = th
    BY <1>1 DEF StepResumeRaises, TypeOK, Slots, Ats
  <1>3. /\ pc' \in [Cpus -> Addrs] /\ past' \in [Cpus -> Past]
        /\ \A d \in Cpus : past'[d].overlap = past[d].overlap
    BY <1>1 DEF StepResumeRaises, TypeOK, Past
  <1>4. Types'
    <2>1. host' \in HostStates
      BY <1>1, RunAssumption DEF StepResumeRaises, HostAt, HostGoto, Idle, TypeOK, Ready,
         Cpus, HostStates
    <2>2. TypeOK'
      BY <1>1, <1>2, <1>3, <2>1 DEF StepResumeRaises, TypeOK, Slots, Ats, HostStates
    <2>3. Ready'
      BY <1>1, <1>2, RunAssumption DEF Ready, StepResumeRaises, HostAt, HostGoto, Idle,
         TypeOK
    <2> QED BY <2>2, <2>3 DEF Types
  <1>5. RunningHasThread'
    BY <1>1, <1>2 DEF Inv, TypeOK, RunningHasThread, Live, StepResumeRaises
  <1>6. DisabledForAReason'
    BY <1>1, <1>2, <1>3 DEF Inv, TypeOK, Past, DisabledForAReason, Live,
       StepResumeRaises, HostAt, HostGoto, Idle
  <1>7. BreakpointsHonoured'
    BY <1>1, <1>2, <1>3 DEF Inv, TypeOK, Past, DisabledForAReason, BreakpointsHonoured,
       Alone, Stepped, Live, StepResumeRaises, HostAt
  <1>8. BreakpointsPassed'
    BY <1>1, <1>2, <1>3 DEF Inv, TypeOK, Past, BreakpointsPassed, HitStands, Live,
       StepResumeRaises, HostAt
  <1>9. Alone'
    <2>1. \A c \in Cpus : Live(c)' \subseteq Live(c)
      BY <1>1, <1>2 DEF Live
    <2>2. \A c \in Cpus : Stepped(c)' => Stepped(c)
      BY <1>1 DEF StepResumeRaises, Stepped, HostAt, HostGoto, Idle, TypeOK
    <2>3. \A c \in Cpus : past'[c].overlap = past[c].overlap
      BY <1>1, <1>3 DEF StepResumeRaises, TypeOK, Past
    <2> QED BY <2>1, <2>2, <2>3, AloneKept
  <1>10. HitStands'
    BY <1>1, <1>2, <1>3, RunAssumption DEF Inv, TypeOK, Past, BreakpointsPassed, Alone,
       Stepped, HitStands, Live, StepResumeRaises, HostAt, HostGoto, Idle, OnLastBreakpoint
  <1> QED BY <1>4, <1>5, <1>6, <1>7, <1>8, <1>9, <1>10 DEF Inv

\* The end of that resumption keeps the invariant.
LEMMA StepReenableKeeps == ASSUME Inv, StepReenable PROVE Inv'
  <1>1. /\ TypeOK /\ Ready /\ host.cpu \in Cpus
        /\ \A d \in Cpus : past[d] \in Past /\ past[d].overlap \in BOOLEAN
    BY DEF Inv, Types, TypeOK, Past
  <1>2. th' = th
    BY <1>1 DEF StepReenable, TypeOK, Slots, Ats
  <1>3. /\ pc' \in [Cpus -> Addrs] /\ past' \in [Cpus -> Past]
        /\ \A d \in Cpus : past'[d].overlap = past[d].overlap
    BY <1>1 DEF StepReenable, TypeOK, Past
  <1>4. Types'
    <2>1. host' \in HostStates
      BY <1>1, RunAssumption, CountedHost DEF StepReenable, HostAt, HostGoto, Idle,
         TypeOK, Ready, Cpus, HostStates
    <2>2. TypeOK'
      BY <1>1, <1>2, <1>3, <2>1 DEF StepReenable, TypeOK, Slots, Ats, HostStates
    <2>3. Ready'
      BY <1>1, <1>2, RunAssumption DEF Ready, StepReenable, HostAt, HostGoto, Idle, TypeOK
    <2> QED BY <2>2, <2>3 DEF Types
  <1>5. RunningHasThread'
    BY <1>1, <1>2 DEF Inv, TypeOK, RunningHasThread, Live, StepReenable
  <1>6. DisabledForAReason'
    BY <1>1, <1>2, <1>3 DEF Inv, TypeOK, Past, DisabledForAReason, Live, StepReenable,
       HostAt, HostGoto, Idle
  <1>7. BreakpointsHonoured' /\ BreakpointsPassed'
    BY DEF Inv, BreakpointsHonoured, BreakpointsPassed, StepReenable
  <1>8. Alone'
    <2>1. \A c \in Cpus : Live(c)' \subseteq Live(c)
      BY <1>1, <1>2 DEF Live
    <2>2. \A c \in Cpus : Stepped(c)' => Stepped(c)
      BY <1>1 DEF StepReenable, Stepped, HostAt, HostGoto, Idle, TypeOK
    <2>3. \A c \in Cpus : past'[c].overlap = past[c].overlap
      BY <1>1, <1>3 DEF StepReenable, TypeOK, Past
    <2> QED BY <2>1, <2>2, <2>3, AloneKept
  <1>9. HitStands'
    BY <1>1, <1>2, <1>3, RunAssumption DEF Inv, TypeOK, Past, BreakpointsPassed, Alone,
       Stepped, HitStands, Live, StepReenable, HostAt, HostGoto, Idle, OnLastBreakpoint
  <1> QED BY <1>4, <1>5, <1>6, <1>7, <1>8, <1>9 DEF Inv

\* An instruction of step keeps the invariant.
LEMMA StepInstrKeeps == ASSUME Inv, StepInstr PROVE Inv'
  <1>1. /\ TypeOK /\ Ready /\ host.cpu \in Cpus
        /\ \A d \in Cpus : past[d] \in Past /\ past[d].overlap \in BOOLEAN
    BY DEF Inv, Types, TypeOK, Past
  <1>2. th' = th
    BY <1>1 DEF StepInstr, TypeOK, Slots, Ats
  <1>3. /\ pc' \in [Cpus -> Addrs] /\ past' \in [Cpus -> Past]
        /\ \A d \in Cpus : past'[d].overlap = past[d].overlap
    BY <1>1, ExecutesSets DEF StepInstr, TypeOK, Past, SameHistory
  <1>4. /\ \A d \in Cpus : SameHistory(d)
        /\ \A d \in Cpus : d # host.cpu => past'[d] = past[d] /\ pc'[d] = pc[d]
        /\ past'[host.cpu].hits = 0
        /\ past'[host.cpu].missed =>
              \/ past[host.cpu].missed
              \/ /\ ~enabled[host.cpu] /\ ~past[host.cpu].off
                 /\ ~past[host.cpu].cut /\ ~past[host.cpu].overlap
    <2>1. Executes(host.cpu, FALSE)
      BY DEF StepInstr
    <2> QED BY <2>1, <1>1, ExecutesSets DEF SameHistory
  <1>5. Types'
    <2>1. host' \in HostStates
      BY <1>1, RunAssumption, CountedHost DEF StepInstr, HostAt, HostGoto, Idle, TypeOK,
         Ready, Cpus, HostStates
    <2>2. TypeOK'
      BY <1>1, <1>2, <1>3, <2>1 DEF StepInstr, TypeOK, Slots, Ats, HostStates, SameHistory
    <2>3. Ready'
      BY <1>1, <1>2, RunAssumption DEF Ready, StepInstr, HostAt, HostGoto, Idle, TypeOK
    <2> QED BY <2>2, <2>3 DEF Types
  <1>6. RunningHasThread'
    BY <1>1, <1>2 DEF Inv, TypeOK, RunningHasThread, Live, StepInstr
  <1>7. DisabledForAReason'
    BY <1>1, <1>2, <1>3, <1>4 DEF Inv, TypeOK, Past, DisabledForAReason, Live, StepInstr,
       HostAt, HostGoto, Idle, SameHistory
  <1>8. BreakpointsHonoured'
    BY <1>1, <1>2, <1>3, <1>4 DEF Inv, TypeOK, Past, DisabledForAReason,
       BreakpointsHonoured, Alone, Stepped, Live, StepInstr, HostAt, SameHistory
  <1>9. BreakpointsPassed'
    BY <1>1, <1>4 DEF Inv, BreakpointsPassed
  <1>10. Alone'
    <2>1. \A c \in Cpus : Live(c)' \subseteq Live(c)
      BY <1>1, <1>2 DEF Live
    <2>2. \A c \in Cpus : Stepped(c)' => Stepped(c)
      BY <1>1 DEF StepInstr, Stepped, HostAt, HostGoto, Idle, TypeOK
    <2>3. \A c \in Cpus : past'[c].overlap = past[c].overlap
      BY <1>1, <1>3 DEF StepInstr, TypeOK, Past, SameHistory
    <2> QED BY <2>1, <2>2, <2>3, AloneKept
  <1>11. HitStands'
    BY <1>1, <1>2, <1>3, <1>4, RunAssumption DEF Inv, TypeOK, Past, BreakpointsPassed,
       Alone, Stepped, HitStands, Live, StepInstr, HostAt, HostGoto, Idle, OnLastBreakpoint,
       SameHistory
  <1> QED BY <1>5, <1>6, <1>7, <1>8, <1>9, <1>10, <1>11 DEF Inv

\* A hardware exception in step keeps the invariant.
LEMMA StepFaultsKeeps == ASSUME Inv, StepFaults PROVE Inv'
  <1>1. /\ TypeOK /\ Ready /\ host.cpu \in Cpus
        /\ \A d \in Cpus : past[d] \in Past /\ past[d].overlap \in BOOLEAN
    BY DEF Inv, Types, TypeOK, Past
  <1>2. th' = th
    BY <1>1 DEF StepFaults, TypeOK, Slots, Ats
  <1>3. /\ pc' \in [Cpus -> Addrs] /\ past' \in [Cpus -> Past]
        /\ \A d \in Cpus : past'[d].overlap = past[d].overlap
    BY <1>1 DEF StepFaults, TypeOK, Past
  <1>4. Types'
    <2>1. host' \in HostStates
      BY <1>1, RunAssumption, CountedHost DEF StepFaults, HostAt, HostGoto, Idle, TypeOK,
         Ready, Cpus, HostStates
    <2>2. TypeOK'
      BY <1>1, <1>2, <1>3, <2>1 DEF StepFaults, TypeOK, Slots, Ats, HostStates
    <2>3. Ready'
      BY <1>1, <1>2, RunAssumption DEF Ready, StepFaults, HostAt, HostGoto, Idle, TypeOK
    <2> QED BY <2>2, <2>3 DEF Types
  <1>5. RunningHasThread'
    BY <1>1, <1>2 DEF Inv, TypeOK, RunningHasThread, Live, StepFaults
  <1>6. DisabledForAReason'
    BY <1>1, <1>2, <1>3 DEF Inv, TypeOK, Past, DisabledForAReason, Live, StepFaults,
       HostAt, HostGoto, Idle
  <1>7. BreakpointsHonoured' /\ BreakpointsPassed'
    BY DEF Inv, BreakpointsHonoured, BreakpointsPassed, StepFaults
  <1>8. Alone'
    <2>1. \A c \in Cpus : Live(c)' \subseteq Live(c)
      BY <1>1, <1>2 DEF Live
    <2>2. \A c \in Cpus : Stepped(c)' => Stepped(c)
      BY <1>1 DEF StepFaults, Stepped, HostAt, HostGoto, Idle, TypeOK
    <2>3. \A c \in Cpus : past'[c].overlap = past[c].overlap
      BY <1>1, <1>3 DEF StepFaults, TypeOK, Past
    <2> QED BY <2>1, <2>2, <2>3, AloneKept
  <1>9. HitStands'
    BY <1>1, <1>2, <1>3, RunAssumption DEF Inv, TypeOK, Past, BreakpointsPassed, Alone,
       Stepped, HitStands, Live, StepFaults, HostAt, HostGoto, Idle, OnLastBreakpoint
  <1> QED BY <1>4, <1>5, <1>6, <1>7, <1>8, <1>9 DEF Inv

\* A breakpoint hit in step keeps the invariant.
LEMMA StepHitsKeeps == ASSUME Inv, StepHits PROVE Inv'
  <1>1. /\ TypeOK /\ Ready /\ host.cpu \in Cpus
        /\ \A d \in Cpus : past[d] \in Past /\ past[d].overlap \in BOOLEAN
    BY DEF Inv, Types, TypeOK, Past
  <1>2. th' = th
    BY <1>1 DEF StepHits, TypeOK, Slots, Ats
  <1>3. /\ pc' \in [Cpus -> Addrs] /\ past' \in [Cpus -> Past]
        /\ \A d \in Cpus : past'[d].overlap = past[d].overlap
    BY <1>1, HitsSets DEF StepHits, TypeOK, Past, SameHistory
  <1>4. /\ \A d \in Cpus : /\ d # host.cpu => past'[d] = past[d] /\ last'[d] = last[d]
                           /\ past'[d].missed = past[d].missed
        /\ \A d \in Cpus : SameHistory(d)
        /\ last'[host.cpu] = pc[host.cpu] /\ pc' = pc
        /\ past'[host.cpu].hits = IF past[host.cpu].overlap THEN 0
                      ELSE IF past[host.cpu].hits = 0 THEN 1 ELSE 2
    <2>1. Hits(host.cpu) /\ pc' = pc
      BY DEF StepHits
    <2> QED BY <2>1, <1>1, HitsSets DEF SameHistory
  <1>5. Types'
    <2>1. host' \in HostStates
      BY <1>1, RunAssumption DEF StepHits, HostAt, HostGoto, Idle, TypeOK, Ready, Cpus,
         HostStates
    <2>2. TypeOK'
      BY <1>1, <1>2, <1>3, <2>1, HitsSets DEF StepHits, TypeOK, Slots, Ats, HostStates,
         SameHistory
    <2>3. Ready'
      BY <1>1, <1>2, RunAssumption DEF Ready, StepHits, HostAt, HostGoto, Idle, TypeOK
    <2> QED BY <2>2, <2>3 DEF Types
  <1>6. RunningHasThread'
    BY <1>1, <1>2 DEF Inv, TypeOK, RunningHasThread, Live, StepHits
  <1>7. DisabledForAReason'
    BY <1>1, <1>2, <1>3, <1>4 DEF Inv, TypeOK, Past, DisabledForAReason, Live, StepHits,
       HostAt, HostGoto, Idle, SameHistory
  <1>8. BreakpointsHonoured'
    BY <1>1, <1>2, <1>3, <1>4 DEF Inv, TypeOK, Past, DisabledForAReason,
       BreakpointsHonoured, Alone, Stepped, Live, StepHits, HostAt, SameHistory
  <1>9. BreakpointsPassed'
    BY <1>1, <1>2, <1>3, <1>4 DEF Inv, TypeOK, Past, BreakpointsPassed, HitStands, Live,
       StepHits, HostAt, SameHistory
  <1>10. Alone'
    <2>1. \A c \in Cpus : Live(c)' \subseteq Live(c)
      BY <1>1, <1>2 DEF Live
    <2>2. \A c \in Cpus : Stepped(c)' => Stepped(c)
      BY <1>1 DEF StepHits, Stepped, HostAt, HostGoto, Idle, TypeOK
    <2>3. \A c \in Cpus : past'[c].overlap = past[c].overlap
      BY <1>1, <1>3 DEF StepHits, TypeOK, Past, SameHistory
    <2> QED BY <2>1, <2>2, <2>3, AloneKept
  <1>11. HitStands'
    BY <1>1, <1>2, <1>3, <1>4, RunAssumption DEF Inv, TypeOK, Past, BreakpointsPassed,
       Alone, Stepped, HitStands, Live, StepHits, HostAt, HostGoto, Idle, OnLastBreakpoint,
       SameHistory
  <1> QED BY <1>5, <1>6, <1>7, <1>8, <1>9, <1>10, <1>11 DEF Inv

\* A failure in step keeps the invariant.
LEMMA StepFailsKeeps == ASSUME Inv, StepFails PROVE Inv'
  <1>1. /\ TypeOK /\ Ready /\ host.cpu \in Cpus
        /\ \A d \in Cpus : past[d] \in Past /\ past[d].overlap \in BOOLEAN
    BY DEF Inv, Types, TypeOK, Past
  <1>2. th' = th
    BY <1>1 DEF StepFails, TypeOK, Slots, Ats
  <1>3. /\ pc' \in [Cpus -> Addrs] /\ past' \in [Cpus -> Past]
        /\ \A d \in Cpus : past'[d].overlap = past[d].overlap
    BY <1>1 DEF StepFails, TypeOK, Past
  <1>4. Types'
    <2>1. host' \in HostStates
      BY <1>1, RunAssumption DEF StepFails, HostAt, HostGoto, Idle, TypeOK, Ready, Cpus,
         HostStates
    <2>2. TypeOK'
      BY <1>1, <1>2, <1>3, <2>1 DEF StepFails, TypeOK, Slots, Ats, HostStates
    <2>3. Ready'
      BY <1>1, <1>2, RunAssumption DEF Ready, StepFails, HostAt, HostGoto, Idle, TypeOK
    <2> QED BY <2>2, <2>3 DEF Types
  <1>5. RunningHasThread'
    BY <1>1, <1>2 DEF Inv, TypeOK, RunningHasThread, Live, StepFails
  <1>6. DisabledForAReason'
    BY <1>1, <1>2, <1>3 DEF Inv, TypeOK, Past, DisabledForAReason, Live, StepFails,
       HostAt, HostGoto, Idle
  <1>7. BreakpointsHonoured' /\ BreakpointsPassed'
    BY DEF Inv, BreakpointsHonoured, BreakpointsPassed, StepFails
  <1>8. Alone'
    <2>1. \A c \in Cpus : Live(c)' \subseteq Live(c)
      BY <1>1, <1>2 DEF Live
    <2>2. \A c \in Cpus : Stepped(c)' => Stepped(c)
      BY <1>1 DEF StepFails, Stepped, HostAt, HostGoto, Idle, TypeOK
    <2>3. \A c \in Cpus : past'[c].overlap = past[c].overlap
      BY <1>1, <1>3 DEF StepFails, TypeOK, Past
    <2> QED BY <2>1, <2>2, <2>3, AloneKept
  <1>9. HitStands'
    BY <1>1, <1>2, <1>3, RunAssumption DEF Inv, TypeOK, Past, BreakpointsPassed, Alone,
       Stepped, HitStands, Live, StepFails, HostAt, HostGoto, Idle, OnLastBreakpoint
  <1> QED BY <1>4, <1>5, <1>6, <1>7, <1>8, <1>9 DEF Inv

\* The end of step keeps the invariant.
LEMMA StepEndsKeeps == ASSUME Inv, StepEnds PROVE Inv'
  <1>1. /\ TypeOK /\ Ready /\ host.cpu \in Cpus
        /\ \A d \in Cpus : past[d] \in Past /\ past[d].overlap \in BOOLEAN
    BY DEF Inv, Types, TypeOK, Past
  <1>2. th' = th
    BY <1>1 DEF StepEnds, TypeOK, Slots, Ats
  <1>3. /\ pc' \in [Cpus -> Addrs] /\ past' \in [Cpus -> Past]
        /\ \A d \in Cpus : past'[d].overlap = past[d].overlap
    BY <1>1 DEF StepEnds, TypeOK, Past
  <1>4. Types'
    <2>1. host' \in HostStates
      BY <1>1, RunAssumption DEF StepEnds, HostAt, HostGoto, Idle, TypeOK, Ready, Cpus,
         HostStates
    <2>2. TypeOK'
      BY <1>1, <1>2, <1>3, <2>1 DEF StepEnds, TypeOK, Slots, Ats, HostStates
    <2>3. Ready'
      BY <1>1, <1>2, RunAssumption DEF Ready, StepEnds, HostAt, HostGoto, Idle, TypeOK
    <2> QED BY <2>2, <2>3 DEF Types
  <1>5. RunningHasThread'
    BY <1>1, <1>2 DEF Inv, TypeOK, RunningHasThread, Live, StepEnds
  <1>6. DisabledForAReason'
    BY <1>1, <1>2, <1>3 DEF Inv, TypeOK, Past, DisabledForAReason, Live, StepEnds,
       HostAt, HostGoto, Idle
  <1>7. BreakpointsHonoured' /\ BreakpointsPassed'
    BY DEF Inv, BreakpointsHonoured, BreakpointsPassed, StepEnds
  <1>8. Alone'
    <2>1. \A c \in Cpus : Live(c)' \subseteq Live(c)
      BY <1>1, <1>2 DEF Live
    <2>2. \A c \in Cpus : Stepped(c)' => Stepped(c)
      BY <1>1 DEF StepEnds, Stepped, HostAt, HostGoto, Idle, TypeOK
    <2>3. \A c \in Cpus : past'[c].overlap = past[c].overlap
      BY <1>1, <1>3 DEF StepEnds, TypeOK, Past
    <2> QED BY <2>1, <2>2, <2>3, AloneKept
  <1>9. HitStands'
    BY <1>1, <1>2, <1>3, RunAssumption DEF Inv, TypeOK, Past, BreakpointsPassed, Alone,
       Stepped, HitStands, Live, StepEnds, HostAt, HostGoto, Idle, OnLastBreakpoint
  <1> QED BY <1>4, <1>5, <1>6, <1>7, <1>8, <1>9 DEF Inv

\* enable_breakpoints keeps the invariant.
LEMMA enable_breakpointsKeeps ==
    ASSUME Inv, NEW c \in Cpus, enable_breakpoints(c)
    PROVE  Inv'
  <1>1. /\ TypeOK /\ Ready /\ c \in Cpus
        /\ \A d \in Cpus : past[d] \in Past /\ past[d].overlap \in BOOLEAN
    BY DEF Inv, Types, TypeOK, Past
  <1>2. th' = th
    BY <1>1 DEF enable_breakpoints, TypeOK, Slots, Ats
  <1>3. /\ pc' \in [Cpus -> Addrs] /\ past' \in [Cpus -> Past]
        /\ \A d \in Cpus : past'[d].overlap = past[d].overlap
    BY <1>1 DEF enable_breakpoints, TypeOK, Past
  <1>4. Types'
    <2>1. host' \in HostStates
      BY <1>1, RunAssumption DEF enable_breakpoints, HostAt, HostGoto, Idle, TypeOK,
         Ready, Cpus, HostStates
    <2>2. TypeOK'
      BY <1>1, <1>2, <1>3, <2>1 DEF enable_breakpoints, TypeOK, Slots, Ats, HostStates
    <2>3. Ready'
      BY <1>1, <1>2, RunAssumption DEF Ready, enable_breakpoints, HostAt, HostGoto, Idle,
         TypeOK
    <2> QED BY <2>2, <2>3 DEF Types
  <1>5. RunningHasThread'
    BY <1>1, <1>2 DEF Inv, TypeOK, RunningHasThread, Live, enable_breakpoints
  <1>6. DisabledForAReason'
    BY <1>1, <1>2, <1>3 DEF Inv, TypeOK, Past, DisabledForAReason, Live,
       enable_breakpoints, HostAt, HostGoto, Idle
  <1>7. BreakpointsHonoured'
    BY <1>1, <1>2, <1>3 DEF Inv, TypeOK, Past, DisabledForAReason, BreakpointsHonoured,
       Alone, Stepped, Live, enable_breakpoints, HostAt
  <1>8. BreakpointsPassed'
    BY <1>1, <1>2, <1>3 DEF Inv, TypeOK, Past, BreakpointsPassed, HitStands, Live,
       enable_breakpoints, HostAt
  <1>9. Alone'
    <2>1. \A d \in Cpus : Live(d)' \subseteq Live(d)
      BY <1>1, <1>2 DEF Live
    <2>2. \A d \in Cpus : Stepped(d)' => Stepped(d)
      BY <1>1 DEF enable_breakpoints, Stepped, HostAt, HostGoto, Idle, TypeOK
    <2>3. \A d \in Cpus : past'[d].overlap = past[d].overlap
      BY <1>1, <1>3 DEF enable_breakpoints, TypeOK, Past
    <2> QED BY <2>1, <2>2, <2>3, AloneKept
  <1>10. HitStands'
    BY <1>1, <1>2, <1>3, RunAssumption DEF Inv, TypeOK, Past, BreakpointsPassed, Alone,
       Stepped, HitStands, Live, enable_breakpoints, HostAt, HostGoto, Idle,
       OnLastBreakpoint
  <1> QED BY <1>4, <1>5, <1>6, <1>7, <1>8, <1>9, <1>10 DEF Inv

\* disable_breakpoints keeps the invariant.
LEMMA disable_breakpointsKeeps ==
    ASSUME Inv, NEW c \in Cpus, disable_breakpoints(c)
    PROVE  Inv'
  <1>1. /\ TypeOK /\ Ready /\ c \in Cpus
        /\ \A d \in Cpus : past[d] \in Past /\ past[d].overlap \in BOOLEAN
    BY DEF Inv, Types, TypeOK, Past
  <1>2. th' = th
    BY <1>1 DEF disable_breakpoints, TypeOK, Slots, Ats
  <1>3. /\ pc' \in [Cpus -> Addrs] /\ past' \in [Cpus -> Past]
        /\ \A d \in Cpus : past'[d].overlap = past[d].overlap
    BY <1>1 DEF disable_breakpoints, TypeOK, Past
  <1>4. Types'
    <2>1. host' \in HostStates
      BY <1>1, RunAssumption DEF disable_breakpoints, HostAt, HostGoto, Idle, TypeOK,
         Ready, Cpus, HostStates
    <2>2. TypeOK'
      BY <1>1, <1>2, <1>3, <2>1 DEF disable_breakpoints, TypeOK, Slots, Ats, HostStates
    <2>3. Ready'
      BY <1>1, <1>2, RunAssumption DEF Ready, disable_breakpoints, HostAt, HostGoto,
         Idle, TypeOK
    <2> QED BY <2>2, <2>3 DEF Types
  <1>5. RunningHasThread'
    BY <1>1, <1>2 DEF Inv, TypeOK, RunningHasThread, Live, disable_breakpoints
  <1>6. DisabledForAReason'
    BY <1>1, <1>2, <1>3 DEF Inv, TypeOK, Past, DisabledForAReason, Live,
       disable_breakpoints, HostAt, HostGoto, Idle
  <1>7. BreakpointsHonoured'
    BY <1>1, <1>2, <1>3 DEF Inv, TypeOK, Past, DisabledForAReason, BreakpointsHonoured,
       Alone, Stepped, Live, disable_breakpoints, HostAt
  <1>8. BreakpointsPassed'
    BY <1>1, <1>2, <1>3 DEF Inv, TypeOK, Past, BreakpointsPassed, HitStands, Live,
       disable_breakpoints, HostAt
  <1>9. Alone'
    <2>1. \A d \in Cpus : Live(d)' \subseteq Live(d)
      BY <1>1, <1>2 DEF Live
    <2>2. \A d \in Cpus : Stepped(d)' => Stepped(d)
      BY <1>1 DEF disable_breakpoints, Stepped, HostAt, HostGoto, Idle, TypeOK
    <2>3. \A d \in Cpus : past'[d].overlap = past[d].overlap
      BY <1>1, <1>3 DEF disable_breakpoints, TypeOK, Past
    <2> QED BY <2>1, <2>2, <2>3, AloneKept
  <1>10. HitStands'
    BY <1>1, <1>2, <1>3, RunAssumption DEF Inv, TypeOK, Past, BreakpointsPassed, Alone,
       Stepped, HitStands, Live, disable_breakpoints, HostAt, HostGoto, Idle,
       OnLastBreakpoint
  <1> QED BY <1>4, <1>5, <1>6, <1>7, <1>8, <1>9, <1>10 DEF Inv

\* A change of the breakpoints keeps the invariant.
LEMMA ChangeBreakpointsKeeps ==
    ASSUME Inv, NEW c \in Cpus, NEW new \in SUBSET BkptAddrs, ChangeBreakpoints(c, new)
    PROVE  Inv'
  <1>1. /\ TypeOK /\ Ready /\ c \in Cpus
        /\ \A d \in Cpus : past[d] \in Past /\ past[d].overlap \in BOOLEAN
    BY DEF Inv, Types, TypeOK, Past
  <1>2. th' = th
    BY <1>1 DEF ChangeBreakpoints, TypeOK, Slots, Ats
  <1>3. /\ pc' \in [Cpus -> Addrs] /\ past' \in [Cpus -> Past]
        /\ \A d \in Cpus : past'[d].overlap = past[d].overlap
    BY <1>1 DEF ChangeBreakpoints, TypeOK, Past
  <1>4. Types'
    <2>1. host' \in HostStates
      BY <1>1, RunAssumption DEF ChangeBreakpoints, HostAt, HostGoto, Idle, TypeOK,
         Ready, Cpus, HostStates
    <2>2. TypeOK'
      BY <1>1, <1>2, <1>3, <2>1 DEF ChangeBreakpoints, TypeOK, Slots, Ats, HostStates
    <2>3. Ready'
      BY <1>1, <1>2, RunAssumption DEF Ready, ChangeBreakpoints, HostAt, HostGoto, Idle,
         TypeOK
    <2> QED BY <2>2, <2>3 DEF Types
  <1>5. RunningHasThread'
    BY <1>1, <1>2 DEF Inv, TypeOK, RunningHasThread, Live, ChangeBreakpoints
  <1>6. DisabledForAReason'
    BY <1>1, <1>2, <1>3 DEF Inv, TypeOK, Past, DisabledForAReason, Live,
       ChangeBreakpoints, HostAt, HostGoto, Idle
  <1>7. BreakpointsHonoured' /\ BreakpointsPassed'
    BY DEF Inv, BreakpointsHonoured, BreakpointsPassed, ChangeBreakpoints
  <1>8. Alone'
    <2>1. \A d \in Cpus : Live(d)' \subseteq Live(d)
      BY <1>1, <1>2 DEF Live
    <2>2. \A d \in Cpus : Stepped(d)' => Stepped(d)
      BY <1>1 DEF ChangeBreakpoints, Stepped, HostAt, HostGoto, Idle, TypeOK
    <2>3. \A d \in Cpus : past'[d].overlap = past[d].overlap
      BY <1>1, <1>3 DEF ChangeBreakpoints, TypeOK, Past
    <2> QED BY <2>1, <2>2, <2>3, AloneKept
  <1>9. HitStands'
    BY <1>1, <1>2, <1>3, RunAssumption DEF Inv, TypeOK, Past, BreakpointsPassed, Alone,
       Stepped, HitStands, Live, ChangeBreakpoints, HostAt, HostGoto, Idle, OnLastBreakpoint
  <1> QED BY <1>4, <1>5, <1>6, <1>7, <1>8, <1>9 DEF Inv

\* Every step of a thread keeps the invariant.
LEMMA ThreadKeeps == ASSUME Inv, NEW t \in Threads, run_b(t) PROVE Inv'
  BY MarkKeeps, ResumeKeeps, ResumeRaisesKeeps, ReenableKeeps, InstrKeeps, InstrFaultsKeeps,
     InstrHitsKeeps, InstrFailsKeeps, PollKeeps, CatchKeeps, ExitKeeps DEF run_b

\* Every step of the host keeps the invariant.
LEMMA HostKeeps == ASSUME Inv, Host PROVE Inv'
  <1>1. CASE \E c \in Cpus, t \in Threads : Run(c, t)
    BY <1>1, RunKeeps
  <1>2. CASE RunRaises \/ RunReturns
    BY <1>2, RunRaisesKeeps, RunReturnsKeeps
  <1>3. CASE \E c \in Cpus : \/ halt(c) \/ stop(c)
                             \/ enable_breakpoints(c) \/ disable_breakpoints(c)
    BY <1>3, haltKeeps, stopKeeps, enable_breakpointsKeeps, disable_breakpointsKeeps
  <1>4. CASE \E c \in Cpus, n \in 1..MaxStep : Step(c, n)
    BY <1>4, StepKeeps
  <1>5. CASE StepResume \/ StepResumeRaises \/ StepReenable
    BY <1>5, StepResumeKeeps, StepResumeRaisesKeeps, StepReenableKeeps
  <1>6. CASE StepInstr \/ StepFaults \/ StepHits \/ StepFails \/ StepEnds
    BY <1>6, StepInstrKeeps, StepFaultsKeeps, StepHitsKeeps, StepFailsKeeps, StepEndsKeeps
  <1>7. CASE \E c \in Cpus, new \in SUBSET BkptAddrs : ChangeBreakpoints(c, new)
    BY <1>7, ChangeBreakpointsKeeps
  <1>8. CASE \/ \E c \in Cpus, a \in BkptAddrs : add_breakpoint(c, a) \/ delete_breakpoint(c, a)
             \/ \E c \in Cpus : delete_all(c)
    <2>1. \A c \in Cpus, a \in BkptAddrs : /\ bkpts[c] \cup {a} \in SUBSET BkptAddrs
                                           /\ bkpts[c] \ {a} \in SUBSET BkptAddrs
      BY DEF Inv, Types, TypeOK
    <2>2. {} \in SUBSET BkptAddrs
      OBVIOUS
    <2> QED
      BY <1>8, <1>7, <2>1, <2>2 DEF add_breakpoint, delete_breakpoint, delete_all
  <1> QED
    BY <1>1, <1>2, <1>3, <1>4, <1>5, <1>6, <1>8 DEF Host

\* A machine just created satisfies the invariant.
LEMMA InitInv == Init => Inv
  <1> SUFFICES ASSUME Init PROVE Inv
    OBVIOUS
  <1>1. \A c \in Cpus : Live(c) = {}
    BY DEF Init, Live, NoThread
  <1>2. 0 \in Cpus /\ 0 \in 0..PassLength /\ 0 \in 0..MaxStep
    BY RunAssumption DEF Cpus
  <1>3. TypeOK
    <2>1. [order |-> "stop", off |-> FALSE, cut |-> FALSE, overlap |-> FALSE, hits |-> 0,
           missed |-> FALSE] \in Past
      BY DEF Past
    <2>2. NoThread \in [at : Ats, cpu : Cpus, left : 0..PassLength]
      BY <1>2 DEF NoThread, Ats
    <2>3. Idle \in HostStates
      BY <1>2 DEF Idle, HostStates
    <2> QED
      BY <2>1, <2>2, <2>3 DEF Init, TypeOK, Ats, HostStates
  <1>4. Ready
    BY DEF Init, Ready, NoThread, Idle
  <1> QED
    BY <1>1, <1>3, <1>4 DEF Init, Inv, Types, RunningHasThread, DisabledForAReason,
       BreakpointsHonoured, BreakpointsPassed, Alone, HitStands, Stepped, Idle

\* The invariant holds of every reachable state, whatever the host calls and however the
\* threads of run() are scheduled.
THEOREM RunInvariance == Spec => []Inv
  <1>1. Inv /\ [Next]_vars => Inv'
    <2> SUFFICES ASSUME Inv, [Next]_vars PROVE Inv'
      OBVIOUS
    <2>1. CASE Next
      BY <2>1, HostKeeps, ThreadKeeps DEF Next
    <2>2. CASE UNCHANGED vars
      BY <2>2 DEF vars, Inv, Types, TypeOK, Ready, RunningHasThread, DisabledForAReason,
         BreakpointsHonoured, BreakpointsPassed, Alone, HitStands, Stepped, Live
    <2> QED
      BY <2>1, <2>2
  <1> QED
    BY InitInv, <1>1, PTL DEF Spec

\* The members that run, step, halt and stop share keep their types.
THEOREM RunTypes == Spec => []TypeOK
  BY RunInvariance, PTL DEF Inv, Types

\* For any number of cores and threads: a core marked as running has a thread that runs it.
THEOREM RunningThreads == Spec => []RunningHasThread
  BY RunInvariance, PTL DEF Inv

\* Breakpoints are disabled only by the host, for a resumed instruction, or by a step cut short.
THEOREM DisabledWithReason == Spec => []DisabledForAReason
  BY RunInvariance, PTL DEF Inv

\* While one caller at a time executes a core, no instruction is executed past its breakpoint.
THEOREM BreakpointsStayHonoured == Spec => []BreakpointsHonoured
  BY RunInvariance, PTL DEF Inv

\* While one caller at a time executes a core, no breakpoint is hit twice with nothing executed
\* in between.
THEOREM BreakpointsGetPassed == Spec => []BreakpointsPassed
  BY RunInvariance, PTL DEF Inv

=============================================================================
