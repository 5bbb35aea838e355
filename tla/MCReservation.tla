---------------------------- MODULE MCReservation ----------------------------
(***************************************************************************)
(* Two cores, as in config.h, and three words of which the guests reserve  *)
(* any: two in one line, one alone.                                        *)
(***************************************************************************)
EXTENDS Reservation

MCWords     == {"w1", "w2", "w3"}
MCGranules  == {"g1", "g2"}
MCGranuleOf == [w \in MCWords |-> IF w = "w3" THEN "g2" ELSE "g1"]

=============================================================================
