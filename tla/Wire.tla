-------------------------------- MODULE Wire --------------------------------
(***************************************************************************)
(* The protocol of messages.proto.  Every message is a frame               *)
(*     MetaHeader | Header | Body                                          *)
(* whose parts the receiver reads one by one; a part is a token of the     *)
(* connection's byte stream.  Only what the server's control depends on is *)
(* kept of a message.                                                      *)
(***************************************************************************)
EXTENDS Naturals, Sequences

CONSTANTS Absent,    \* an optional field that is not set
          Requests   \* the requests clients send

(* The request messages: SaveVariable, SaveValue, GetValues, GetVariables. *)
AddVar(n, color) ==
  [msg_type |-> "REQUEST_ADD_VAR", name |-> n, color |-> color]

SaveValue(n, v) ==
  [msg_type |-> "REQUEST_SAVE_VALUE", variable |-> n, value |-> v]

GetValues(n, start, end) ==
  [msg_type |-> "REQUEST_GET_VALUES", variable |-> n,
   start |-> start, end |-> end]

GetVariables == [msg_type |-> "REQUEST_GET_VARIABLES"]

(* A message of one of the RESPONSE_* types, for which read_body has no    *)
(* case.                                                                   *)
Unknown == [msg_type |-> "UNKNOWN"]

(* A message of a type that is not in the enumeration.  The parser drops   *)
(* such a type, and msg_type() is then the first of the enumeration,       *)
(* REQUEST_ADD_VAR: n and color are what its body holds in the fields of   *)
(* SaveVariable.                                                           *)
Unlisted(n, color) == [msg_type |-> "UNLISTED", name |-> n, color |-> color]

(* What the parsed header and body of a message say.                       *)
AsRead(req) == IF req.msg_type = "UNLISTED" THEN AddVar(req.name, req.color)
                                            ELSE req

KnownRequests(Names, Colors, Vals, Times) ==
  {AddVar(n, color) : n \in Names, color \in Colors}
  \cup {SaveValue(n, v) : n \in Names, v \in Vals}
  \cup {GetValues(n, start, end) : n \in Names, start \in Times \cup {Absent},
                                   end \in Times \cup {Absent}}
  \cup {GetVariables}

AllRequests(Names, Colors, Vals, Times) ==
  KnownRequests(Names, Colors, Vals, Times)
  \cup {Unlisted(n, color) : n \in Names, color \in Colors} \cup {Unknown}

(* A part of a frame, or what is left of one that was read into.           *)
Parts == {"MetaHeader", "Header", "Body", "Rest"}
Token == [part : Parts, of : Requests]

(* GetVariables has no field: its body is empty and takes no byte.         *)
Frame(req) ==
  LET Of(part) == [part |-> part, of |-> req]
  IN  IF req.msg_type = "REQUEST_GET_VARIABLES"
      THEN <<Of("MetaHeader"), Of("Header")>>
      ELSE <<Of("MetaHeader"), Of("Header"), Of("Body")>>

(***************************************************************************)
(* The response messages.  rows are the readings or variables a response   *)
(* holds, size how many entries it has; the status responses of the code   *)
(* hold none, and rows names (as a history) the row an Ok speaks of.       *)
(***************************************************************************)
Response(msg_type, status, prev_msg, rows, size) ==
  [msg_type |-> msg_type, status |-> status, prev_msg |-> prev_msg,
   rows |-> rows, size |-> size]

OkTo(prev_msg, id) == Response("RESPONSE_FAILURE", "OK", prev_msg, {id}, 0)

Failed == Response("RESPONSE_FAILURE", "FAILED", Absent, {}, 0)

ValuesResponse(rows, size) ==
  Response("RESPONSE_VALUES", "OK", Absent, rows, size)

VariablesResponse(rows, size) ==
  Response("RESPONSE_VARIABLES", "OK", Absent, rows, size)
=============================================================================
