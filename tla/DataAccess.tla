----------------------------- MODULE DataAccess -----------------------------
(***************************************************************************)
(* DataAccess, the layer between the sessions and the data source: it      *)
(* hands insertions through and caps what a fetch of readings returns by   *)
(* compressing it.  err is what the function returns; compress itself is   *)
(* the module Compress, here only its outcome is needed.                   *)
(***************************************************************************)
EXTENDS SQLiteTables, Chunks

CONSTANT VectorMax    \* std::vector<VarValue>::max_size()

ASSUME VectorAssumption == VectorMax \in Nat

add_variable(n, color, err) ==
  \/ err = "Ok" /\ InsertVariable(n, color)
  \/ err = "Failed" /\ Fails(CanInsertVariable(n)) /\ UNCHANGED dbVars

add_variable_value(n, v, err) ==
  \/ err = "Ok" /\ \E now \in Clock : InsertValue(n, v, now)
  \/ err = "Failed" /\ Fails(CanInsertValue(n, v)) /\ UNCHANGED dbVars

Fetched(err, rows, size) == [err |-> err, rows |-> rows, size |-> size]

(* The possible results of fetch_variables.                                *)
fetch_variables ==
  {res \in {Fetched("Ok", VariableIds, Len(variable)), Fetched("Failed", {}, 0)} :
     IF res.err = "Ok" THEN CanSelectVariables ELSE Fails(CanSelectVariables)}

(* Both overloads fetch everything first.  max_len is compared with        *)
(* numeric_limits<size_t>::infinity(), which is 0 for an integer type.     *)
MustCompress(rows, max_len) == max_len # 0 /\ Cardinality(rows) > max_len

(* The readings in rows are returned one by one or, when they are more     *)
(* than max_len, as max_len chunks that cover them all; when compress      *)
(* reports an error the result is empty and still Ok.                      *)
Capped(rows, max_len) ==
  IF ~MustCompress(rows, max_len)
  THEN Fetched("Ok", rows, Cardinality(rows))
  ELSE IF max_len > VectorMax THEN Fetched("Ok", {}, 0)
       ELSE Fetched("Ok", rows, max_len)

(* compress leaves its input vector and takes the process with it.         *)
CompressOverruns(rows, max_len) ==
  /\ CanSelectValues
  /\ MustCompress(rows, max_len)
  /\ max_len <= VectorMax
  /\ Overruns(Cardinality(rows), max_len)

(* The possible results of fetch_variable_values when the statement of     *)
(* either overload selects rows.                                           *)
fetch_variable_values(rows, max_len) ==
  {res \in {Capped(rows, max_len), Fetched("Failed", {}, 0)} :
     IF res.err = "Ok"
     THEN CanSelectValues /\ ~CompressOverruns(rows, max_len)
     ELSE Fails(CanSelectValues)}
=============================================================================
