---------------------------- MODULE GuestProgram ----------------------------
(***************************************************************************)
(* What a core promises the program it runs: its instructions one after    *)
(* the other, each in full, with no sign of missing pages and interrupts.  *)
(* Flow implements it.                                                     *)
(***************************************************************************)
EXTENDS GuestCode

CONSTANTS
    Exit,       \* where the operating system sends a program it ends
    DebugPc     \* PC while an instruction the debugger watches executes

VARIABLES
    code,       \* address -> instruction
    watched,    \* addresses of instructions the debugger watches
    pc,
    st          \* registers and memory

Cleared == {"SPE", "EE", "PR"}

Init == pc \in DOMAIN code /\ st.msr \subseteq MsrBits

Step ==
    /\ Raises(code[pc], st) = None
    /\ pc' = Successor(code[pc], st, Following(pc))
    /\ st' = Result(code[pc], st, pc)
    /\ UNCHANGED <<code, watched>>

\* A multiple access may be done in part and begun again.
StepInPart ==
    /\ code[pc].op \in Multiples
    /\ \E first \in 1..(AllOf(code[pc], st) - 1) : st' = After(code[pc], first, st)
    /\ UNCHANGED <<code, watched, pc>>

\* The instruction is not for the program to execute.
End ==
    /\ Raises(code[pc], st) # None
    /\ pc' = Exit
    /\ st' = [st EXCEPT !.msr = @ \ Cleared]
    /\ UNCHANGED <<code, watched>>

\* A watched instruction executes in the mode of the debug interrupt, which the program
\* never leaves: not what a core should promise, but what this one does.
StepWatched ==
    LET s == [st EXCEPT !.msr = @ \ (Cleared \cup {"DE"})] IN
    /\ pc \in watched /\ "DE" \in st.msr
    /\ Raises(code[pc], s) = None
    /\ pc' = Successor(code[pc], s, Following(pc))
    /\ st' = Result(code[pc], s, DebugPc)
    /\ UNCHANGED <<code, watched>>

Next == Step \/ StepInPart \/ End \/ StepWatched

Spec == Init /\ [][Next]_<<code, watched, pc, st>>
=============================================================================
