------------------------------ MODULE MCClient ------------------------------
(***************************************************************************)
(* Responses for model checking Client.                                    *)
(***************************************************************************)
EXTENDS Client

OneRequest == {GetVariables}

(* A failure, an empty answer, and answers with one and with two entries.  *)
FourResponses == {Failed, ValuesResponse({}, 0), ValuesResponse({1}, 1),
                  VariablesResponse({1, 2}, 2)}
=============================================================================
