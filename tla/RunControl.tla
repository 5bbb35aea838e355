----------------------------- MODULE RunControl -----------------------------
(***************************************************************************)
(* How the host program (python, through ppcsimbooke.cpp) runs, steps and  *)
(* stops the cores of a machine: run, run_b, step, halt, stop and          *)
(* run_curr_instr of cpu_ppc.cpp, with the breakpoint manager of bm.cpp.   *)
(*                                                                         *)
(* run() creates a detached thread and returns, so the host cannot tell    *)
(* whether the thread still lives; m_cpu_mode, the breakpoint manager and  *)
(* sim_except_ptr are shared with it and no mutex guards them. A step here *)
(* is what one side does to that state between two accesses of the other.  *)
(*                                                                         *)
(* What a guest instruction computes is left out: it may end, raise a      *)
(* hardware exception (sim_except_ppc) or fail in the simulator (any other *)
(* exception). Breakpoints are changed only while no thread of the core    *)
(* lives: m_bk_map is a std::map, and a lookup that races with a change    *)
(* of it has no defined outcome. exec_mode is interpretive, its default.   *)
(***************************************************************************)
EXTENDS Naturals

CONSTANTS
    NCpus,      \* N_CPUS
    Addrs,      \* addresses of guest instructions
    BkptAddrs,  \* those of them the host sets breakpoints on
    Threads,    \* bound: slots for the threads that live at the same time
    PassLength, \* n_instrs_per_pass, 100 in the code
    MaxStep,    \* bound: the largest count given to step()
    NoAddr      \* no breakpoint was hit: m_last_bkpt.second is false

ASSUME RunAssumption == /\ NCpus \in Nat \ {0} /\ PassLength \in Nat \ {0}
                        /\ BkptAddrs \subseteq Addrs /\ NoAddr \notin Addrs
                        /\ MaxStep \in Nat

Cpus == 0..(NCpus - 1)

VARIABLES
    mode,    \* per core: m_cpu_mode
    pc,      \* per core: PPCSIMBOOKE_CPU_PC
    bkpts,   \* per core: the keys of m_bk_map
    enabled, \* per core: m_bkpts_enabled
    last,    \* per core: m_last_bkpt
    th,      \* the threads that run() created
    host,    \* where the host is in a call of run() or step()
    saved,   \* sim_except_ptr: one for all cores, never reset
    alive,   \* false once std::terminate has ended the process
    past,    \* per core: what has happened to it (auxiliary)
    fresh    \* a thread of the core run() was last called for has saved an exception
             \* since (auxiliary)

vars == <<mode, pc, bkpts, enabled, last, th, host, saved, alive, past, fresh>>

\* Per core: the host's last order; whether its last word on breakpoints was disable();
\* whether an exception left step() between disable_breakpoints and enable_breakpoints;
\* whether two callers ever executed the core at once. And for as long as they did not,
\* how often breakpoints were hit since an instruction was executed, and whether one was
\* executed past its breakpoint.
Past == [order : {"go", "stop"}, off : BOOLEAN, cut : BOOLEAN, overlap : BOOLEAN,
         hits : 0..2, missed : BOOLEAN]

NoThread == [at |-> "none", cpu |-> 0, left |-> 0]
Idle     == [at |-> "idle", cpu |-> 0, left |-> 0]
Live(c)  == {t \in Threads : th[t].at # "none" /\ th[t].cpu = c}

TypeOK ==
    /\ mode \in [Cpus -> {"running", "stepping", "halted", "stopped"}]
    /\ pc \in [Cpus -> Addrs]
    /\ bkpts \in [Cpus -> SUBSET BkptAddrs]
    /\ enabled \in [Cpus -> BOOLEAN]
    /\ last \in [Cpus -> BkptAddrs \cup {NoAddr}]
    /\ th \in [Threads -> [at : {"none", "start", "resume", "reenable", "pass", "poll",
                                 "catch", "exit"},
                           cpu : Cpus, left : 0..PassLength]]
    /\ host \in [at : {"idle", "rethrow", "resume", "reenable", "loop"},
                 cpu : Cpus, left : 0..MaxStep]
    /\ saved \in BOOLEAN
    /\ alive \in BOOLEAN
    /\ past \in [Cpus -> Past]
    /\ fresh \in BOOLEAN

Init ==
    /\ mode = [c \in Cpus |-> "halted"]
    /\ pc \in [Cpus -> Addrs]
    /\ bkpts = [c \in Cpus |-> {}]
    /\ enabled = [c \in Cpus |-> TRUE]
    /\ last = [c \in Cpus |-> NoAddr]
    /\ th = [t \in Threads |-> NoThread]
    /\ host = Idle
    /\ saved = FALSE
    /\ alive = TRUE
    /\ past = [c \in Cpus |-> [order |-> "stop", off |-> FALSE, cut |-> FALSE,
                               overlap |-> FALSE, hits |-> 0, missed |-> FALSE]]
    /\ fresh = FALSE

----------------------------------------------------------------------------
(* run_curr_instr: one instruction of core c, by a thread or by step() *)

\* check_pc finds an enabled breakpoint.
AtBreakpoint(c) == enabled[c] /\ pc[c] \in bkpts[c]

\* The instruction ends, anywhere in the program.
Executes(c, resuming) ==
    /\ ~AtBreakpoint(c)
    /\ \E a \in Addrs : pc' = [pc EXCEPT ![c] = a]
    /\ past' = [past EXCEPT ![c].hits = 0,
                            ![c].missed = @ \/ /\ pc[c] \in bkpts[c] /\ ~resuming
                                               /\ ~past[c].off /\ ~past[c].cut
                                               /\ ~past[c].overlap]

\* check_pc records the hit and run_curr_instr raises SIM_EXCEPT_SBKPT.
Hits(c) ==
    /\ AtBreakpoint(c)
    /\ last' = [last EXCEPT ![c] = pc[c]]
    /\ past' = [past EXCEPT ![c].hits = IF past[c].overlap THEN 0 ELSE IF @ = 0 THEN 1 ELSE 2]

\* A breakpoint is resumed from: the core stands where the last one was hit.
OnLastBreakpoint(c) == last[c] # NoAddr /\ last[c] = pc[c]

----------------------------------------------------------------------------
(* run_b: the steps of thread t *)

At(t, at) == alive /\ th[t].at = at
Goto(t, at) == th' = [th EXCEPT ![t].at = at]
Pass(t) == th' = [th EXCEPT ![t].at = "pass", ![t].left = PassLength]

\* Mutant: a thread never resumes from the breakpoint that ended the run before it.
MarkNoResume(t) ==
    LET c == th[t].cpu IN
    /\ At(t, "start")
    /\ mode' = [mode EXCEPT ![c] = "running"]
    /\ Pass(t)
    /\ UNCHANGED <<pc, bkpts, enabled, last, host, saved, alive, past, fresh>>

\* The thread comes to run, marks the core as running and, on the breakpoint hit last,
\* disables breakpoints for one instruction.
Mark(t) ==
    LET c == th[t].cpu IN
    /\ At(t, "start")
    /\ mode' = [mode EXCEPT ![c] = "running"]
    /\ \/ /\ OnLastBreakpoint(c)
          /\ enabled' = [enabled EXCEPT ![c] = FALSE]
          /\ Goto(t, "resume")
       \/ /\ ~OnLastBreakpoint(c)
          /\ Pass(t)
          /\ UNCHANGED enabled
    /\ UNCHANGED <<pc, bkpts, last, host, saved, alive, past, fresh>>

\* That instruction ends.
Resume(t) ==
    /\ At(t, "resume")
    /\ Executes(th[t].cpu, TRUE)
    /\ Goto(t, "reenable")
    /\ UNCHANGED <<mode, bkpts, enabled, last, host, saved, alive, fresh>>

\* That instruction raises, outside of the try block: nothing catches the exception.
ResumeRaises(t) ==
    /\ At(t, "resume")
    /\ alive' = FALSE
    /\ UNCHANGED <<mode, pc, bkpts, enabled, last, th, host, saved, past, fresh>>

\* Mutant: breakpoints stay disabled.
ReenableForgotten(t) ==
    LET c == th[t].cpu IN
    /\ At(t, "reenable")
    /\ last' = [last EXCEPT ![c] = NoAddr]
    /\ Pass(t)
    /\ UNCHANGED <<mode, pc, bkpts, enabled, host, saved, alive, past, fresh>>

Reenable(t) ==
    LET c == th[t].cpu IN
    /\ At(t, "reenable")
    /\ last' = [last EXCEPT ![c] = NoAddr]
    /\ enabled' = [enabled EXCEPT ![c] = TRUE]
    /\ Pass(t)
    /\ UNCHANGED <<mode, pc, bkpts, host, saved, alive, past, fresh>>

\* One instruction of the pass ends; after n_instrs_per_pass of them m_cpu_mode is read.
Instr(t) ==
    /\ At(t, "pass")
    /\ Executes(th[t].cpu, FALSE)
    /\ th' = [th EXCEPT ![t].left = @ - 1, ![t].at = IF th[t].left = 1 THEN "poll" ELSE "pass"]
    /\ UNCHANGED <<mode, bkpts, enabled, last, host, saved, alive, fresh>>

\* A hardware exception ends the pass; ppc_exception may send the core to a vector.
InstrFaults(t) ==
    /\ At(t, "pass")
    /\ \E a \in Addrs : pc' = [pc EXCEPT ![th[t].cpu] = a]
    /\ Goto(t, "poll")
    /\ UNCHANGED <<mode, bkpts, enabled, last, host, saved, alive, past, fresh>>

InstrHits(t) ==
    /\ At(t, "pass")
    /\ Hits(th[t].cpu)
    /\ Goto(t, "catch")
    /\ UNCHANGED <<mode, pc, bkpts, enabled, host, saved, alive, fresh>>

\* Anything else that is thrown leaves the loop.
InstrFails(t) ==
    /\ At(t, "pass")
    /\ Goto(t, "catch")
    /\ UNCHANGED <<mode, pc, bkpts, enabled, last, host, saved, alive, past, fresh>>

\* Mutant: the pass counter runs one too far.
PollOneMore(t) ==
    /\ At(t, "poll")
    /\ th' = [th EXCEPT ![t].at = IF mode[th[t].cpu] \in {"halted", "stopped"}
                                  THEN "exit" ELSE "pass",
                        ![t].left = PassLength + 1]
    /\ UNCHANGED <<mode, pc, bkpts, enabled, last, host, saved, alive, past, fresh>>

\* Mutant: the loop is left for halt() only.
PollHaltOnly(t) ==
    /\ At(t, "poll")
    /\ IF mode[th[t].cpu] = "halted" THEN Goto(t, "exit") ELSE Pass(t)
    /\ UNCHANGED <<mode, pc, bkpts, enabled, last, host, saved, alive, past, fresh>>

Poll(t) ==
    /\ At(t, "poll")
    /\ IF mode[th[t].cpu] \in {"halted", "stopped"} THEN Goto(t, "exit") ELSE Pass(t)
    /\ UNCHANGED <<mode, pc, bkpts, enabled, last, host, saved, alive, past, fresh>>

\* catch(...): the exception is kept for a later run() to raise.
Catch(t) ==
    /\ At(t, "catch")
    /\ saved' = TRUE
    /\ fresh' = (host.at = "rethrow" /\ host.cpu = th[t].cpu)
    /\ Goto(t, "exit")
    /\ UNCHANGED <<mode, pc, bkpts, enabled, last, host, alive, past>>

\* Mutant: a thread that ends does not say so.
ExitSilently(t) ==
    /\ At(t, "exit")
    /\ th' = [th EXCEPT ![t] = NoThread]
    /\ UNCHANGED <<mode, pc, bkpts, enabled, last, host, saved, alive, past, fresh>>

\* loop_exit_0.
Exit(t) ==
    /\ At(t, "exit")
    /\ mode' = [mode EXCEPT ![th[t].cpu] = "stopped"]
    /\ th' = [th EXCEPT ![t] = NoThread]
    /\ UNCHANGED <<pc, bkpts, enabled, last, host, saved, alive, past, fresh>>

run_b(t) ==
    \/ Mark(t) \/ Resume(t) \/ ResumeRaises(t) \/ Reenable(t)
    \/ Instr(t) \/ InstrFaults(t) \/ InstrHits(t) \/ InstrFails(t)
    \/ Poll(t) \/ Catch(t) \/ Exit(t)

----------------------------------------------------------------------------
(* The host, one call after the other *)

\* The host orders the core to go on. From the moment that two callers execute it at
\* once, hits are not counted.
Ordered(c) ==
    LET overlap == past[c].overlap \/ Live(c) # {} IN
    [past EXCEPT ![c].order = "go", ![c].overlap = overlap,
                 ![c].hits = IF overlap THEN 0 ELSE @]

HostAt(at) == alive /\ host.at = at
HostGoto(at) == host' = [host EXCEPT !.at = at]

\* run: a thread is created, and detached when its handle goes out of scope.
Run(c, t) ==
    /\ HostAt("idle")
    /\ th[t].at = "none"
    /\ th' = [th EXCEPT ![t] = [at |-> "start", cpu |-> c, left |-> 0]]
    /\ host' = [at |-> "rethrow", cpu |-> c, left |-> 0]
    /\ past' = Ordered(c)
    /\ fresh' = FALSE
    /\ UNCHANGED <<mode, pc, bkpts, enabled, last, saved, alive>>

\* run raises a saved exception; the thread it created lives on.
RunRaises ==
    /\ HostAt("rethrow")
    /\ saved
    /\ host' = Idle
    /\ fresh' = FALSE
    /\ UNCHANGED <<mode, pc, bkpts, enabled, last, th, saved, alive, past>>

RunReturns ==
    /\ HostAt("rethrow")
    /\ ~saved
    /\ host' = Idle
    /\ fresh' = FALSE
    /\ UNCHANGED <<mode, pc, bkpts, enabled, last, th, saved, alive, past>>

halt(c) ==
    /\ HostAt("idle")
    /\ mode' = [mode EXCEPT ![c] = "halted"]
    /\ past' = [past EXCEPT ![c].order = "stop"]
    /\ UNCHANGED <<pc, bkpts, enabled, last, th, host, saved, alive, fresh>>

stop(c) ==
    /\ HostAt("idle")
    /\ mode' = [mode EXCEPT ![c] = "stopped"]
    /\ past' = [past EXCEPT ![c].order = "stop"]
    /\ UNCHANGED <<pc, bkpts, enabled, last, th, host, saved, alive, fresh>>

\* step, up to and with disable_breakpoints; step(0) does nothing.
Step(c, n) ==
    /\ HostAt("idle")
    /\ mode' = [mode EXCEPT ![c] = "stepping"]
    /\ host' = [at |-> IF OnLastBreakpoint(c) THEN "resume" ELSE "loop", cpu |-> c,
                left |-> n]
    /\ enabled' = [enabled EXCEPT ![c] = @ /\ ~OnLastBreakpoint(c)]
    /\ past' = Ordered(c)
    /\ UNCHANGED <<pc, bkpts, last, th, saved, alive, fresh>>

StepResume ==
    /\ HostAt("resume")
    /\ Executes(host.cpu, TRUE)
    /\ HostGoto("reenable")
    /\ UNCHANGED <<mode, bkpts, enabled, last, th, saved, alive, fresh>>

\* An exception leaves step: breakpoints stay disabled, the mode stays STEPPING.
StepResumeRaises ==
    /\ HostAt("resume")
    /\ host' = Idle
    /\ past' = [past EXCEPT ![host.cpu].cut = TRUE]
    /\ UNCHANGED <<mode, pc, bkpts, enabled, last, th, saved, alive, fresh>>

StepReenable ==
    /\ HostAt("reenable")
    /\ last' = [last EXCEPT ![host.cpu] = NoAddr]
    /\ enabled' = [enabled EXCEPT ![host.cpu] = TRUE]
    /\ host' = [host EXCEPT !.at = "loop", !.left = @ - 1]
    /\ UNCHANGED <<mode, pc, bkpts, th, saved, alive, past, fresh>>

StepInstr ==
    /\ HostAt("loop") /\ host.left > 0
    /\ Executes(host.cpu, FALSE)
    /\ host' = [host EXCEPT !.left = @ - 1]
    /\ UNCHANGED <<mode, bkpts, enabled, last, th, saved, alive, fresh>>

\* step drops a hardware exception: the handler of the guest is not entered.
StepFaults ==
    /\ HostAt("loop") /\ host.left > 0
    /\ host' = [host EXCEPT !.left = @ - 1]
    /\ UNCHANGED <<mode, pc, bkpts, enabled, last, th, saved, alive, past, fresh>>

StepHits ==
    /\ HostAt("loop") /\ host.left > 0
    /\ Hits(host.cpu)
    /\ host' = Idle
    /\ UNCHANGED <<mode, pc, bkpts, enabled, th, saved, alive, fresh>>

StepFails ==
    /\ HostAt("loop") /\ host.left > 0
    /\ host' = Idle
    /\ UNCHANGED <<mode, pc, bkpts, enabled, last, th, saved, alive, past, fresh>>

StepEnds ==
    /\ HostAt("loop") /\ host.left = 0
    /\ mode' = [mode EXCEPT ![host.cpu] = "stopped"]
    /\ host' = Idle
    /\ UNCHANGED <<pc, bkpts, enabled, last, th, saved, alive, past, fresh>>

enable_breakpoints(c) ==
    /\ HostAt("idle")
    /\ enabled' = [enabled EXCEPT ![c] = TRUE]
    /\ past' = [past EXCEPT ![c].off = FALSE]
    /\ UNCHANGED <<mode, pc, bkpts, last, th, host, saved, alive, fresh>>

disable_breakpoints(c) ==
    /\ HostAt("idle")
    /\ enabled' = [enabled EXCEPT ![c] = FALSE]
    /\ past' = [past EXCEPT ![c].off = TRUE]
    /\ UNCHANGED <<mode, pc, bkpts, last, th, host, saved, alive, fresh>>

\* add_breakpoint, delete_breakpoint, delete_all: m_last_bkpt is left as it is.
ChangeBreakpoints(c, new) ==
    /\ HostAt("idle") /\ Live(c) = {}
    /\ bkpts' = [bkpts EXCEPT ![c] = new]
    /\ UNCHANGED <<mode, pc, enabled, last, th, host, saved, alive, past, fresh>>

add_breakpoint(c, a) == ChangeBreakpoints(c, bkpts[c] \cup {a})
delete_breakpoint(c, a) == ChangeBreakpoints(c, bkpts[c] \ {a})
delete_all(c) == ChangeBreakpoints(c, {})

Host ==
    \/ \E c \in Cpus, t \in Threads : Run(c, t)
    \/ RunRaises \/ RunReturns
    \/ \E c \in Cpus : halt(c) \/ stop(c) \/ enable_breakpoints(c) \/ disable_breakpoints(c)
    \/ \E c \in Cpus, n \in 1..MaxStep : Step(c, n)
    \/ StepResume \/ StepResumeRaises \/ StepReenable
    \/ StepInstr \/ StepFaults \/ StepHits \/ StepFails \/ StepEnds
    \/ \E c \in Cpus, a \in BkptAddrs : add_breakpoint(c, a) \/ delete_breakpoint(c, a)
    \/ \E c \in Cpus : delete_all(c)

Next == Host \/ \E t \in Threads : run_b(t)

\* The operating system schedules every thread of the process; what the host calls, and
\* when, is up to its user.
Spec == Init /\ [][Next]_vars /\ \A t \in Threads : WF_vars(run_b(t))

----------------------------------------------------------------------------
(* Properties *)

\* A core is marked as running only while a thread that marked it so still runs it: what
\* run_mode shows is true, and a core is never left "running" with nobody to run it.
RunningHasThread ==
    \A c \in Cpus : mode[c] = "running" => \E t \in Live(c) : th[t].at # "start"

\* Breakpoints are disabled only because the host said so, because an instruction is
\* being resumed from right now, or because an exception has cut a step short there.
DisabledForAReason ==
    \A c \in Cpus :
        \/ enabled[c] \/ past[c].off \/ past[c].cut
        \/ \E t \in Live(c) : th[t].at \in {"resume", "reenable"}
        \/ host.at \in {"resume", "reenable"} /\ host.cpu = c

\* While one caller at a time executes a core, and until an exception cuts a step short,
\* an instruction with a breakpoint on it is executed only by the run or step that
\* resumes from it, unless the host disabled breakpoints.
BreakpointsHonoured ==
    \A c \in Cpus : ~past[c].missed

\* While one caller at a time executes a core, a run or step after a breakpoint executes
\* something before the next one is hit: nobody is stuck on a breakpoint.
BreakpointsPassed ==
    \A c \in Cpus : past[c].hits < 2

\* Once a core is marked as stopped or halted and none of its threads is yet to mark it
\* as running, all its threads end, unless the host orders the core to go on meanwhile.
StopEndsThreads ==
    \A c \in Cpus :
        /\ mode[c] \in {"halted", "stopped"}
        /\ \A t \in Live(c) : th[t].at # "start"
        ~> Live(c) = {} \/ past[c].order = "go" \/ ~alive

\* cpu_ppc.cpp:984, "If running status is changed to stopped/halted, exit out of loop":
\* after stop() every thread of the core ends, unless it is ordered to go on. The code
\* breaks this: a thread that first comes to run after stop() marks the core as running.
StopIsObeyed ==
    \A c \in Cpus :
        past[c].order = "stop" ~> (Live(c) = {} \/ past[c].order = "go" \/ ~alive)

\* cpu_ppc.cpp:138, "Try to rethrow the exception from daughter thread": what run raises
\* was thrown by a thread of that core since run was called. The code breaks this:
\* sim_except_ptr is one for all cores and keeps the exception of an earlier run.
RaisesOwnException ==
    [][host.at = "rethrow" /\ host'.at = "idle" /\ saved => fresh]_vars

=============================================================================
