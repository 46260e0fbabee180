-------------------------- MODULE MCSQLiteWrapper ---------------------------
(***************************************************************************)
(* Values for model checking SQLiteWrapper: a double below zero that is    *)
(* rounded up, a positive one half-way between two sixth decimals, one     *)
(* with three digits too many and one that is not finite.                  *)
(***************************************************************************)
EXTENDS SQLiteWrapper

MCVals == {-4, 15, 98765, NotFinite}
=============================================================================
