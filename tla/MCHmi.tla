------------------------------- MODULE MCHmi -------------------------------
(***************************************************************************)
(* Requests and numbers for model checking Hmi.                            *)
(***************************************************************************)
EXTENDS Hmi, TLC

CONSTANTS temp, hum

EveryResponse ==
  {Failed}
  \cup {OkTo("REQUEST_ADD_VAR", id) : id \in 1..2}
  \cup {ValuesResponse(rows, Cardinality(rows)) : rows \in SUBSET (1..MaxReadings)}
  \cup {VariablesResponse(1..n, n) : n \in 0..2}

UserRequests ==
  {AddVar(n, Color) : n \in Names} \cup {GetVariables}
  \cup {GetValues(temp, Absent, Absent)}
  \cup {GetValues(temp, start, end) : start, end \in Times}

OneReal == {15}
TwoReals == {-40, 15}
AsIs == [v \in Reals |-> v]
=============================================================================
