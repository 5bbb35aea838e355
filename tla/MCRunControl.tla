---------------------------- MODULE MCRunControl ----------------------------
(***************************************************************************)
(* Two instructions, one of which the host sets breakpoints on, and two    *)
(* threads, which is what it takes for two of them to overlap on a core    *)
(* or for one core to find the exception of another.                       *)
(***************************************************************************)
EXTENDS RunControl

MCAddrs     == {"a1", "a2"}
MCBkptAddrs == {"a1"}
MCThreads   == {"t1", "t2"}
MCNoAddr    == "no address"

=============================================================================
