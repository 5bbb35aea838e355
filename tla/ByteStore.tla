----------------------------- MODULE ByteStore -----------------------------
(***************************************************************************)
(* What physical memory promises to the cores that share it: a byte keeps  *)
(* the value last stored to it, and only a call to store changes it. Two   *)
(* exceptions are part of the promise, because the code has them: calls of *)
(* two cores that overlap may lose bytes for good, and a scalar store that *)
(* crosses the end of a page loses what lies behind the end. A byte that   *)
(* was never stored to, or is lost, reads as anything.                     *)
(*                                                                         *)
(* What a registration does to the bytes is left open: memory.h:86-88 has  *)
(* pages located again when targets are modified, so that a byte may come  *)
(* from another target afterwards and has no value here; the code keeps    *)
(* every page it once cached. The promise is about the time between two    *)
(* registrations.                                                          *)
(***************************************************************************)
EXTENDS Naturals, Sequences

CONSTANTS
    Cores,
    Addrs,          \* physical byte addresses
    Byte,           \* values of a byte
    Unset,            \* the content of a byte that has no value yet
    Lost,           \* the content of a byte nothing is promised about any more
    PageSize,
    Calls           \* the calls a core can make

VARIABLES
    mem,            \* address -> byte, Unset or Lost
    call,           \* core -> the call in progress: what is left of it, or Idle
    alone,          \* core -> no other call overlapped the one in progress
    seen,           \* address -> byte: what the last load returned
    targets         \* memory targets registered so far

vars == <<mem, call, alone, seen, targets>>

Idle == [kind |-> "idle", n |-> 0]

Kinds  == {"load", "store"}
InCall(c) == call[c].kind \in Kinds
Page(a) == a \div PageSize

Init ==
    /\ mem = [a \in Addrs |-> Unset]
    /\ call = [c \in Cores |-> Idle]
    /\ alone = [c \in Cores |-> TRUE]
    /\ seen = <<>>
    /\ targets = 1

\* A new target may take any bytes over from older ones.
Register ==
    /\ targets' = targets + 1
    /\ mem' \in [Addrs -> Byte \cup {Unset, Lost}]
    /\ \A a \in Addrs : mem'[a] \in {mem[a], Unset}
    /\ UNCHANGED <<call, alone, seen>>

Begin(c) ==
    /\ ~InCall(c)
    /\ call' \in {[call EXCEPT ![c] = k] : k \in Calls}
    /\ alone' = [d \in Cores |->
                    IF \E e \in Cores \ {c} : InCall(e) /\ d \in {c, e}
                    THEN FALSE ELSE IF d = c THEN TRUE ELSE alone[d]]
    /\ seen' = <<>>
    /\ UNCHANGED <<mem, targets>>

\* A call fails, whatever part of it was done.
Fail(c) ==
    /\ InCall(c)
    /\ call' = [call EXCEPT ![c] = Idle]
    /\ UNCHANGED <<mem, alone, seen, targets>>

\* The addresses of the next k bytes of a call, and of those on its first page.
Span(c, k)  == {a \in Addrs : call[c].a <= a /\ a < call[c].a + k}
First(c, k) == {a \in Span(c, k) : Page(a) = Page(call[c].a)}

\* A call without its first k bytes.
Rest(r, k) == [kind |-> r.kind, buff |-> r.buff, a |-> r.a + k, n |-> r.n - k,
               val |-> SubSeq(r.val, k + 1, Len(r.val))]

Advance(c, k) ==
    call' = [call EXCEPT ![c] = IF k = call[c].n THEN Idle ELSE Rest(call[c], k)]

\* The call gets its next k bytes done: a buffer goes no further than its page.
Store(c, k) ==
    /\ InCall(c) /\ call[c].kind = "store"
    /\ call[c].buff => Span(c, k) = First(c, k)
    /\ mem' = [a \in Addrs |->
                  CASE a \notin Span(c, k) \/ mem[a] = Lost -> mem[a]
                    [] a \in First(c, k) /\ mem[a] # Lost -> call[c].val[a - call[c].a + 1]
                    [] OTHER -> Unset]
    /\ Advance(c, k)
    /\ UNCHANGED <<alone, seen, targets>>

Load(c, k) ==
    /\ InCall(c) /\ call[c].kind = "load"
    /\ seen' \in [Span(c, k) -> Byte]
    /\ \A a \in First(c, k) : mem[a] \in {Unset, Lost, seen'[a]}
    /\ Advance(c, k)
    /\ UNCHANGED <<mem, alone, targets>>

\* Bytes that had no value get one; bytes are lost by calls that overlap.
Fresh(c) ==
    /\ InCall(c)
    /\ mem' \in [Addrs -> Byte \cup {Unset, Lost}]
    /\ \A a \in Addrs : mem'[a] = mem[a] \/ (mem[a] = Unset /\ mem'[a] \in Byte)
    /\ UNCHANGED <<call, alone, seen, targets>>

Lose(c, A) ==
    /\ InCall(c) /\ ~alone[c]
    /\ mem' = [a \in Addrs |-> IF a \in A THEN Lost ELSE mem[a]]
    /\ UNCHANGED <<call, alone, seen, targets>>

Next ==
    \/ Register
    \/ \E c \in Cores :
        \/ Begin(c)
        \/ Fail(c)
        \/ \E k \in 1..call[c].n : Store(c, k) \/ Load(c, k)
        \/ Fresh(c)
        \/ \E A \in SUBSET Addrs : Lose(c, A)

Spec == Init /\ [][Next]_vars
=============================================================================
