----------------------------- MODULE MCCompress -----------------------------
(***************************************************************************)
(* Histories for model checking Compress: every length up to MaxSize in    *)
(* time order, and every short one in any order (the clock of the server   *)
(* may step back between two insertions).                                  *)
(***************************************************************************)
EXTENDS Compress

CONSTANTS MaxSize,    \* longest history in time order
          ShortSize   \* longest history in any order

MCInVals == {[k \in 1..n |-> k] : n \in 1..MaxSize}
            \cup UNION {[1..n -> 1..2] : n \in 1..ShortSize}

(* The shortest history that leaves max_values_ammount = 120 readings too  *)
(* few: 120 * 121 readings, four hours of one reading per second.          *)
MCFourHours == {[k \in 1..(120 * 121) |-> k]}
=============================================================================
