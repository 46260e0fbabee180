------------------------------ MODULE Service ------------------------------
(***************************************************************************)
(* What the database server promises a client: a request and reply service *)
(* above a registry of variables and a log of readings (ReadingLog).       *)
(*                                                                         *)
(* The requests of a connection are executed one after the other, in the   *)
(* order they were sent, each at one moment and at most once, on the       *)
(* registry and log all connections share; what the client is told is the  *)
(* result of that moment.  A connection may break at any time: what was    *)
(* sent on it and not executed may then be lost from any request on, and   *)
(* an answer not yet delivered is lost.                                    *)
(***************************************************************************)
EXTENDS Wire, Integers, FiniteSets

CONSTANTS Conns,      \* connections
          Names,      \* names of variables
          Reals,      \* what the log may hold
          Rounded,    \* the doubles that can be stored, and as what
          Times,      \* readings of the clock
          SeedName,   \* the variable the service registers of its own accord
          Limit,      \* the number of readings an answer holds at most
          MayFail     \* TRUE when a request may fail for no visible reason

VARIABLES registry, readings,   \* see ReadingLog
          link,       \* a connection: not opened, open or broken
          asked,      \* the requests sent on a connection
          owed,       \* those of them that can still be executed
          held,       \* the answer of the last one, until it is delivered
          replies     \* the answers delivered

logVars == <<registry, readings>>
linkVars == <<link, asked, owed, held, replies>>
vars == <<logVars, linkVars>>

Log == INSTANCE ReadingLog

Init ==
  /\ Log!Init
  /\ link = [c \in Conns |-> "none"]
  /\ asked = [c \in Conns |-> <<>>]
  /\ owed = [c \in Conns |-> <<>>]
  /\ held = [c \in Conns |-> <<>>]
  /\ replies = [c \in Conns |-> <<>>]
-----------------------------------------------------------------------------
(* Executing a request: its effect and its answer.                         *)

Rejected(can, res) ==
  /\ ~can \/ MayFail
  /\ res = Failed
  /\ UNCHANGED logVars

Register(req, res) ==
  \/ /\ Log!Register(req.name)
     /\ res = OkTo("REQUEST_ADD_VAR", Len(registry) + 1)
  \/ Rejected(~Log!Registered(req.name), res)

Record(req, res) ==
  \/ /\ req.value \in DOMAIN Rounded
     /\ \E now \in Times : Log!Log(req.variable, Rounded[req.value], now)
     /\ res = OkTo(Absent, Len(readings) + 1)
  \/ Rejected(Log!Registered(req.variable) /\ req.value \in DOMAIN Rounded, res)

(* A period counts when both of its ends are given; both are included.     *)
InPeriod(req, time) ==
  Absent \notin {req.start, req.end} => time \in req.start..req.end

AskedFor(req) ==
  {id \in DOMAIN readings : /\ readings[id].name = req.variable
                            /\ InPeriod(req, readings[id].timestamp)}

AtMost(limit, n) == IF n > limit THEN limit ELSE n

Read(req, res) ==
  \/ /\ res = ValuesResponse(AskedFor(req),
                             AtMost(Limit, Cardinality(AskedFor(req))))
     /\ UNCHANGED logVars
  \/ Rejected(TRUE, res)

List(res) ==
  \/ /\ res = VariablesResponse(DOMAIN registry, Len(registry))
     /\ UNCHANGED logVars
  \/ Rejected(TRUE, res)

(* The answers the service may give to a request now.                      *)
PossibleAnswers(req) ==
  {Failed, OkTo("REQUEST_ADD_VAR", Len(registry) + 1),
   OkTo(Absent, Len(readings) + 1), VariablesResponse(DOMAIN registry, Len(registry))}
  \cup IF req.msg_type = "REQUEST_GET_VALUES"
       THEN {ValuesResponse(AskedFor(req),
                            AtMost(Limit, Cardinality(AskedFor(req))))}
       ELSE {}

Answer(req, res) ==
  \/ req.msg_type = "REQUEST_ADD_VAR" /\ Register(req, res)
  \/ req.msg_type = "REQUEST_SAVE_VALUE" /\ Record(req, res)
  \/ req.msg_type = "REQUEST_GET_VALUES" /\ Read(req, res)
  \/ req.msg_type = "REQUEST_GET_VARIABLES" /\ List(res)
-----------------------------------------------------------------------------
Open(c) ==
  /\ link[c] = "none"
  /\ link' = [link EXCEPT ![c] = "open"]
  /\ UNCHANGED <<logVars, asked, owed, held, replies>>

Ask(c, req) ==
  /\ link[c] = "open"
  /\ asked' = [asked EXCEPT ![c] = Append(@, req)]
  /\ owed' = [owed EXCEPT ![c] = Append(@, req)]
  /\ UNCHANGED <<logVars, link, held, replies>>

(* A broken connection may still hold requests that are executed, but no   *)
(* answer leaves the service.                                              *)
Execute(c) ==
  /\ UNCHANGED <<link, asked, replies>>
  /\ held[c] = <<>>
  /\ owed[c] # <<>>
  /\ owed' = [owed EXCEPT ![c] = Tail(@)]
  /\ \E res \in PossibleAnswers(Head(owed[c])) :
       /\ Answer(Head(owed[c]), res)
       /\ held' = IF link[c] = "open" THEN [held EXCEPT ![c] = <<res>>]
                                      ELSE held

Deliver(c) ==
  /\ held[c] # <<>>
  /\ held' = [held EXCEPT ![c] = <<>>]
  /\ replies' = [replies EXCEPT ![c] = @ \o held[c]]
  /\ UNCHANGED <<logVars, link, asked, owed>>

Break(c) ==
  /\ link[c] # "none"
  /\ link' = [link EXCEPT ![c] = "broken"]
  /\ held' = [held EXCEPT ![c] = <<>>]
  /\ UNCHANGED <<logVars, asked, replies>>
  /\ \E k \in 0..Len(owed[c]) : owed' = [owed EXCEPT ![c] = SubSeq(@, 1, k)]

(* The service stops; the registry and the log survive.                    *)
Stop ==
  /\ link' = [c \in Conns |-> IF link[c] = "none" THEN "none" ELSE "broken"]
  /\ owed' = [c \in Conns |-> <<>>]
  /\ held' = [c \in Conns |-> <<>>]
  /\ UNCHANGED <<logVars, asked, replies>>

Seed == Log!Register(SeedName) /\ UNCHANGED linkVars

Next ==
  \/ Seed
  \/ Stop
  \/ \E c \in Conns :
       \/ Open(c)
       \/ \E req \in Requests : Ask(c, req)
       \/ Execute(c)
       \/ Deliver(c)
       \/ Break(c)

Spec == Init /\ [][Next]_vars
=============================================================================
