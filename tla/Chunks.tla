------------------------------- MODULE Chunks -------------------------------
(***************************************************************************)
(* The arithmetic DataAccess::compress does before it touches a value: how *)
(* in_vals.size() = n readings are cut into max_len = m chunks.  The       *)
(* operators keep the names of the local variables of the code.  size_t is *)
(* an unsigned type, so a subtraction wraps modulo SizeMod.                *)
(***************************************************************************)
EXTENDS Integers

CONSTANT SizeMod    \* 2^w, w the width of size_t

ASSUME SizeModAssumption == SizeMod \in Nat \ {0}

MinusSizeT(x, y) == (x - y) % SizeMod

(* Mutant: the quotient is rounded up even when it is whole.               *)
ceil_chunk_size_PlusOne(n, m) == n \div m + 1

(* std::ceil of the quotient taken as a double: exact below 2^53 readings. *)
ceil_chunk_size(n, m) == (n + m - 1) \div m

ceil_ammount(n, m) == IF n % m # 0 THEN n % m ELSE n \div m

(* Mutant: one chunk too many is assumed.                                  *)
floor_chunk_sieze_Short(n, m) == n \div (m + 1)

floor_chunk_sieze(n, m) == n \div m

(* Mutant: one chunk of the second pass is forgotten.                      *)
floor_ammount_Short(n, m) == MinusSizeT(m, ceil_ammount(n, m) + 1)

floor_ammount(n, m) == MinusSizeT(m, ceil_ammount(n, m))

(* Mutant: every multiple of max_len.                                      *)
Overruns_AnyMultiple(n, m) == n % m = 0

(***************************************************************************)
(* The lengths for which the passes of compress leave the input vector.    *)
(* That the code does so exactly then is what module Compress shows.       *)
(***************************************************************************)
Overruns(n, m) == n % m = 0 /\ n \div m > m
=============================================================================
