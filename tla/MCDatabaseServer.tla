-------------------------- MODULE MCDatabaseServer --------------------------
(***************************************************************************)
(* Requests for model checking DatabaseServer.                             *)
(***************************************************************************)
EXTENDS ServiceOfServer, TLC

CONSTANTS temp, hum

(* Two clients that register and record the same variable.                *)
SharedVariable == {AddVar(hum, "color"), SaveValue(hum, 15)}

(* Every kind of message, those of types that are no request included.     *)
AnyMessage == {Unknown, Unlisted(NoName, "color"), AddVar(temp, "color"),
               SaveValue(temp, 15), SaveValue(temp, NotFinite),
               GetValues(temp, Absent, Absent), GetVariables}

(* One that read_body has no case for, and others that overlap with it.    *)
OutOfStep == {Unknown, Unlisted(NoName, "color"), SaveValue(temp, 15)}

(* Requests of each known kind, with a period and half a period.           *)
KnownKinds == {AddVar(hum, "color"), SaveValue(temp, 15),
               SaveValue(temp, NotFinite), GetValues(temp, 2000, 2000),
               GetValues(temp, 2000, Absent), GetVariables}

(* One client that records a long history and reads it back.               *)
LongHistory == {SaveValue(temp, 15), GetValues(temp, Absent, Absent)}

ConnSymmetry == Permutations(Conns)
=============================================================================
