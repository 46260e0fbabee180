-------------------------- MODULE ServiceOfServer --------------------------
(***************************************************************************)
(* The database server implements the request and reply service: sessions, *)
(* frames read in three steps, shared tables, half-finished starts and     *)
(* crashes are all steps of Service or change nothing a client can see.    *)
(***************************************************************************)
EXTENDS DatabaseServer

(* The last part of a message: once it is there the message is whole.      *)
EndsMessage(token) ==
  \/ token.part = "Body"
  \/ token.part = "Header" /\ token.of = GetVariables

(* The requests that are whole among the tokens s.                         *)
Whole(s) ==
  LET ofFirst[n \in 0..Len(s)] ==
        IF n = 0 THEN <<>>
        ELSE IF EndsMessage(s[n]) THEN Append(ofFirst[n - 1], s[n].of)
        ELSE ofFirst[n - 1]
  IN  ofFirst[Len(s)]

(* The requests of c a session can still execute: the one whose body, of   *)
(* no bytes, it is about to read, and those that are whole in the stream.  *)
Executable(c) ==
  (IF phase[c] = "body" /\ work[c] = GetVariables THEN <<work[c]>> ELSE <<>>)
    \o Whole(inbox[c])

(* The answer that is being written to a client that is still there.       *)
BeingWritten(c) ==
  IF phase[c] = "write" /\ conn[c] = "open" THEN <<work[c]>> ELSE <<>>

Svc == INSTANCE Service WITH
         Reals <- StoredVals,
         Rounded <- [v \in Vals \ {NotFinite} |-> ToSixDecimals(v)],
         Times <- Clock,
         Limit <- max_values_ammount,
         MayFail <- IoErrors,
         registry <- [id \in VariableIds |-> variable[id].name],
         readings <- [id \in ValueIds |->
                        [name |-> NameOf(id),
                         val |-> variable_value[id].val,
                         timestamp |-> variable_value[id].timestamp]],
         link <- [c \in Conns |-> IF conn[c] \in {"none", "open"}
                                  THEN conn[c] ELSE "broken"],
         asked <- sent,
         owed <- [c \in Conns |-> Executable(c)],
         held <- [c \in Conns |-> BeingWritten(c)]

(* Every request is executed at most once, in the order its client sent    *)
(* them, at one moment between sending and answer, and the answer is what  *)
(* the shared tables gave at that moment, whatever the other sessions do,  *)
(* wherever connections break and whenever the process is killed.  (For    *)
(* clients that send nothing but the four requests.)                       *)
ImplementsService == Svc!Spec
=============================================================================
