------------------------------ MODULE Compress ------------------------------
(***************************************************************************)
(* DataAccess::compress: the readings fetched for a variable are cut into  *)
(* at most max_len chunks, and one reading stands for each chunk: the mean *)
(* of its values under the timestamp of its middle element.                *)
(*                                                                         *)
(* A pass of the lambda apply_compression walks three iterators; here only *)
(* begin is kept (as an offset), end = begin + chunk size and mid = begin  *)
(* + chunk size \div 2 follow from it.  An input reading is its timestamp; *)
(* an output reading is the slice of the input whose mean it holds and the *)
(* timestamp it was given.                                                 *)
(***************************************************************************)
EXTENDS Chunks, Sequences

CONSTANTS InVals,      \* the vectors compress may be called with
          MaxLens,     \* the values of max_len it may be called with
          VectorMax    \* std::vector<VarValue>::max_size()

ASSUME CompressAssumption ==
  /\ InVals \subseteq Seq(Nat)
  /\ MaxLens \subseteq Nat \ {0}
  /\ VectorMax \in Nat
  /\ \A s \in InVals : Len(s) < SizeMod
  /\ \A m \in MaxLens : m < SizeMod

VARIABLES in_vals, max_len,   \* the arguments
          out_vals,           \* the result vector
          pass,               \* where the call is
          i,                  \* loop counter of apply_compression
          begin               \* its begin iterator, as an offset into in_vals

vars == <<in_vals, max_len, out_vals, pass, i, begin>>

Passes == {"ceil", "floor"}
Size == Len(in_vals)

(* Both callers compress only what is longer than max_len. *)
Init ==
  /\ in_vals \in InVals
  /\ max_len \in MaxLens
  /\ Len(in_vals) > max_len
  /\ out_vals = <<>>
  /\ pass = "reserve"
  /\ i = 0
  /\ begin = 0

ChunkSize == IF pass = "ceil" THEN ceil_chunk_size(Size, max_len)
                              ELSE floor_chunk_sieze(Size, max_len)

ChunkAmmont == IF pass = "ceil" THEN ceil_ammount(Size, max_len)
                                ELSE floor_ammount(Size, max_len)

(* out_vals->reserve(max_len): the only error the function reports. *)
Reserve ==
  /\ pass = "reserve"
  /\ pass' = IF max_len > VectorMax THEN "invalid" ELSE "ceil"
  /\ UNCHANGED <<in_vals, max_len, out_vals, i, begin>>

(* Mutant: the begin iterator is off by one.                               *)
Mean_OffByOne(from, size) ==
  [from |-> from, to |-> from + size,
   timestamp |-> in_vals[from + size \div 2 + 1]]

(* Mutant: mid is not moved to the offset of the pass.                     *)
Mean_MidFromStart(from, size) ==
  [from |-> from + 1, to |-> from + size,
   timestamp |-> in_vals[size \div 2 + 1]]

(* What one iteration appends; TLA+ sequences count from 1. *)
Mean(from, size) ==
  [from |-> from + 1, to |-> from + size,
   timestamp |-> in_vals[from + size \div 2 + 1]]

EmitChunk ==
  /\ pass \in Passes
  /\ i < ChunkAmmont
  /\ begin + ChunkSize <= Size
  /\ out_vals' = Append(out_vals, Mean(begin, ChunkSize))
  /\ i' = i + 1
  /\ begin' = begin + ChunkSize
  /\ UNCHANGED <<in_vals, max_len, pass>>

(***************************************************************************)
(* The iteration reads past the end of in_vals.  The behaviour is          *)
(* undefined; whatever the reads return, the second pass then runs         *)
(* max_len - ceil_ammount (wrapped around) iterations that each append an  *)
(* element, so every outcome ends with the process: none returns.          *)
(***************************************************************************)
Overrun ==
  /\ pass \in Passes
  /\ i < ChunkAmmont
  /\ begin + ChunkSize > Size
  /\ pass' = "overrun"
  /\ UNCHANGED <<in_vals, max_len, out_vals, i, begin>>

(* Mutant: the second pass starts over.                                    *)
FloorPass_FromStart ==
  /\ pass = "ceil"
  /\ i = ChunkAmmont
  /\ pass' = "floor"
  /\ i' = 0
  /\ begin' = 0
  /\ UNCHANGED <<in_vals, max_len, out_vals>>

FloorPass ==
  /\ pass = "ceil"
  /\ i = ChunkAmmont
  /\ pass' = "floor"
  /\ i' = 0
  /\ begin' = ceil_chunk_size(Size, max_len) * ceil_ammount(Size, max_len)
  /\ UNCHANGED <<in_vals, max_len, out_vals>>

Return ==
  /\ pass = "floor"
  /\ i = ChunkAmmont
  /\ pass' = "done"
  /\ UNCHANGED <<in_vals, max_len, out_vals, i, begin>>

Next == Reserve \/ EmitChunk \/ Overrun \/ FloorPass \/ Return

Spec == Init /\ [][Next]_vars
-----------------------------------------------------------------------------
Chunk == [from : 1..Size, to : 1..Size, timestamp : Nat]

(* The state has the shape the code gives it. *)
TypeOK ==
  /\ in_vals \in Seq(Nat)
  /\ max_len \in Nat \ {0}
  /\ out_vals \in Seq(Chunk)
  /\ pass \in {"reserve", "ceil", "floor", "done", "overrun", "invalid"}
  /\ i \in Nat
  /\ begin \in Nat

(* The chunks written so far tile in_vals up to the begin iterator without *)
(* a gap or an overlap, across the change of chunk size between the two    *)
(* passes: no reading is dropped, none is averaged twice.                  *)
Tiled ==
  /\ \A k \in DOMAIN out_vals :
       /\ out_vals[k].from = (IF k = 1 THEN 1 ELSE out_vals[k - 1].to + 1)
       /\ out_vals[k].from <= out_vals[k].to
       /\ out_vals[k].to <= Size
  /\ begin = (IF out_vals = <<>> THEN 0 ELSE out_vals[Len(out_vals)].to)

(* A call that returns Ok returns exactly max_len readings and has used    *)
(* all of its input, whatever the remainder of the division.               *)
ResultLength ==
  pass = "done" => Len(out_vals) = max_len /\ begin = Size

(* The input vector is left behind exactly when its length is a multiple   *)
(* of max_len larger than max_len times max_len: then ceil_ammount is the  *)
(* quotient, exceeds max_len and the unsigned difference wraps around.     *)
OverrunExactly ==
  /\ pass = "overrun" => Overruns(Size, max_len)
  /\ pass \in {"floor", "done"} => ~Overruns(Size, max_len)

(* The chunks are as even as they can be: two of them differ by at most    *)
(* one reading, and the longer ones come first.                            *)
Balanced ==
  \A j, k \in DOMAIN out_vals :
    LET Width(x) == out_vals[x].to - out_vals[x].from
    IN  j < k => Width(j) - Width(k) \in {0, 1}

Sorted(s) == \A j, k \in 1..Len(s) : j < k => s[j] <= s[k]

(* Compressing a history that is in time order gives one in time order,    *)
(* which is what the chart of the HMI draws.                               *)
KeepsTimeOrder ==
  Sorted(in_vals) => Sorted([k \in DOMAIN out_vals |-> out_vals[k].timestamp])

(* What the header says of compress: "max_len len of the compressed        *)
(* values", "@return Err::Ok on success" (dataaccess.h).  A call that got  *)
(* its memory is to end with max_len readings.                             *)
CompressesToMaxLen ==
  pass \in {"done", "overrun"} => pass = "done" /\ Len(out_vals) = max_len
=============================================================================
