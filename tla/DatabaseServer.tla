--------------------------- MODULE DatabaseServer ---------------------------
(***************************************************************************)
(* The database server: the process of server.cc with one Session per      *)
(* connection, above DataAccess and the SQLite file.                       *)
(*                                                                         *)
(* io_context.run() is called by one thread, so a completion handler is    *)
(* one action; between two handlers of a session those of the others run,  *)
(* clients send and leave, and the process may be killed.  The database    *)
(* file outlives the process.                                              *)
(***************************************************************************)
EXTENDS DataAccess, Wire

CONSTANTS Conns,         \* connections; each is opened at most once
          SeedName,      \* "temp", the variable the constructor adds
          SeedColor,     \* "color"
          NoName,        \* "", the name a field holds that is not set
          Idle,          \* a session that works on nothing
          max_values_ammount,
          MaxRequests,   \* bound: requests a client sends on a connection
          MaxBoots,      \* bound: times the process is started
          MaxStray       \* bound: messages an out-of-step session finds in
                         \* one part of a frame after the first

ASSUME ServerAssumption ==
  /\ SeedName \in Names
  /\ SeedColor \in Colors
  /\ Requests \subseteq AllRequests(Names, Colors, Vals, Clock)
  /\ Idle \notin Requests
  /\ Absent \notin Nat
  /\ NoName \in Names
  /\ max_values_ammount \in Nat \ {0}
  /\ MaxRequests \in Nat
  /\ MaxBoots \in Nat
  /\ MaxStray \in Nat

(* The requests read_body has a case for.                                  *)
Understood == KnownRequests(Names, Colors, Vals, Clock)

VARIABLES
  proc,      \* the process: how far it got with its start
  boots,     \* how often it was started
  found,     \* history: the tables the running process found in the file
  conn,      \* the connection, as the server's kernel sees it
  inbox,     \* tokens that were sent and are not yet read
  phase,     \* the asynchronous operation the session waits for
  work,      \* the request being read or the response being written
  sent,      \* history: the requests sent on a connection
  replies,   \* history: the responses its client received
  floor      \* history: the readings acknowledged before each request

sessionVars == <<conn, inbox, phase, work>>
history == <<sent, replies, floor>>
vars == <<dbVars, proc, boots, found, sessionVars, history>>

(* The acceptor is the first member constructed: the port is open, and     *)
(* connections wait in its backlog, before the database is.                *)
Listening == proc \in {"opened", "half", "schema", "serving"}

Init ==
  /\ EmptyDatabase
  /\ proc = "down"
  /\ boots = 0
  /\ found = {}
  /\ conn = [c \in Conns |-> "none"]
  /\ inbox = [c \in Conns |-> <<>>]
  /\ phase = [c \in Conns |-> "unborn"]
  /\ work = [c \in Conns |-> Idle]
  /\ sent = [c \in Conns |-> <<>>]
  /\ replies = [c \in Conns |-> <<>>]
  /\ floor = [c \in Conns |-> <<>>]
-----------------------------------------------------------------------------
(* The process: main and the constructor of class server.                  *)

(* The process is gone and with it every session and connection.           *)
Exit(how) ==
  /\ proc' = how
  /\ conn' = [c \in Conns |-> IF conn[c] = "none" THEN "none" ELSE "rst"]
  /\ inbox' = [c \in Conns |-> <<>>]
  /\ phase' = [c \in Conns |-> IF conn[c] = "none" THEN "unborn" ELSE "gone"]
  /\ work' = [c \in Conns |-> Idle]
  /\ UNCHANGED <<boots, found, history>>

Open ==
  /\ ~Listening
  /\ boots < MaxBoots
  /\ proc' = "opened"
  /\ boots' = boots + 1
  /\ found' = tables
  /\ UNCHANGED <<dbVars, sessionVars, history>>

(* One iteration of create_scheme; a process may be killed between the     *)
(* two.  A failure makes the constructor throw and main return.            *)
CreateStatement(t, before, after) ==
  /\ proc = before
  /\ \/ /\ CreateTable(t)
        /\ proc' = after
        /\ UNCHANGED <<boots, found, sessionVars, history>>
     \/ /\ Fails(CanCreate(t))
        /\ Exit("down")
        /\ UNCHANGED dbVars

create_scheme ==
  \/ CreateStatement("VARIABLE", "opened", "half")
  \/ CreateStatement("VARIABLE_VALUE", "half", "schema")

(* The result of da_->add_variable(var) is not looked at.                  *)
Seed ==
  /\ proc = "schema"
  /\ \E err \in {"Ok", "Failed"} : add_variable(SeedName, SeedColor, err)
  /\ proc' = "serving"
  /\ UNCHANGED <<boots, found, sessionVars, history>>

(* Killed from outside, at any time.                                       *)
Crash ==
  /\ Listening
  /\ Exit("down")
  /\ UNCHANGED dbVars
-----------------------------------------------------------------------------
(* The clients and the network.                                            *)

(* The readings whose SAVE_VALUE some client has seen answered with Ok:    *)
(* the Ok to an ADD_VAR differs from it in its prev_msg.                   *)
Acknowledged ==
  {id \in ValueIds :
     \E c \in Conns : \E k \in DOMAIN replies[c] :
       replies[c][k] = OkTo(Absent, id)}

Connect(c) ==
  /\ Listening
  /\ conn[c] = "none"
  /\ conn' = [conn EXCEPT ![c] = "open"]
  /\ UNCHANGED <<dbVars, proc, boots, found, inbox, phase, work, history>>

(* A client need not wait for a response before its next request.          *)
SendRequest(c, req) ==
  /\ conn[c] = "open"
  /\ Len(sent[c]) < MaxRequests
  /\ inbox' = [inbox EXCEPT ![c] = @ \o Frame(req)]
  /\ sent' = [sent EXCEPT ![c] = Append(@, req)]
  /\ floor' = [floor EXCEPT ![c] = Append(@, Acknowledged)]
  /\ UNCHANGED <<dbVars, proc, boots, found, conn, phase, work, replies>>

(* The client goes away.  What it had sent may be lost from any byte on; a *)
(* part that is not complete is as good as lost.                           *)
Disconnect(c, how) ==
  /\ \/ conn[c] = "open" /\ how \in {"fin", "rst"}
     \/ conn[c] = "fin" /\ how = "rst"
  /\ conn' = [conn EXCEPT ![c] = how]
  /\ \E k \in 0..Len(inbox[c]) :
       inbox' = [inbox EXCEPT ![c] = SubSeq(@, 1, k)]
  /\ UNCHANGED <<dbVars, proc, boots, found, phase, work, history>>
-----------------------------------------------------------------------------
(* The sessions.                                                           *)

Step(c, nextPhase, nextWork) ==
  /\ phase' = [phase EXCEPT ![c] = nextPhase]
  /\ work' = [work EXCEPT ![c] = nextWork]

(* send_status_response, send_values_response, send_variables_response.    *)
Respond(c, response) == Step(c, "write", response)

(* Mutant: the acceptor is not armed again after the first connection.     *)
Accept_Once(c) ==
  /\ proc = "serving"
  /\ conn[c] # "none"
  /\ \A d \in Conns : phase[d] = "unborn"
  /\ Step(c, "mh", Idle)
  /\ UNCHANGED <<dbVars, proc, boots, found, conn, inbox, history>>

(* do_accept: a connection reset in the backlog may make accept fail.      *)
Accept(c) ==
  /\ proc = "serving"
  /\ conn[c] # "none"
  /\ phase[c] = "unborn"
  /\ \/ Step(c, "mh", Idle)
     \/ conn[c] = "rst" /\ Step(c, "gone", Idle)
  /\ UNCHANGED <<dbVars, proc, boots, found, conn, inbox, history>>

(* async_read has the bytes it was asked for.                              *)
Has(c, part) == inbox[c] # <<>> /\ Head(inbox[c]).part = part

Consume(c) == inbox' = [inbox EXCEPT ![c] = Tail(@)]

(* async_read meets the end of the stream, or an error.                    *)
ReadError(c) == inbox[c] = <<>> /\ conn[c] \in {"fin", "rst"}

ReadMetaHeader(c) ==
  /\ phase[c] = "mh"
  /\ Has(c, "MetaHeader")
  /\ Consume(c)
  /\ Step(c, "h", Idle)
  /\ UNCHANGED <<dbVars, proc, boots, found, conn, history>>

(* Mutant: read_body lost its case for REQUEST_ADD_VAR.                    *)
ReadHeader_NoAddVar(c) ==
  /\ phase[c] = "h"
  /\ Has(c, "Header")
  /\ Consume(c)
  /\ LET req == Head(inbox[c]).of
     IN  IF req.msg_type \in {"UNKNOWN", "REQUEST_ADD_VAR"}
         THEN Respond(c, Failed) ELSE Step(c, "body", AsRead(req))
  /\ UNCHANGED <<dbVars, proc, boots, found, conn, history>>

(* Mutant: the enumeration is open, as those of proto3 are: a type that is *)
(* none of it reaches the switch.                                          *)
ReadHeader_OpenEnum(c) ==
  /\ phase[c] = "h"
  /\ Has(c, "Header")
  /\ Consume(c)
  /\ LET req == Head(inbox[c]).of
     IN  IF req.msg_type \in {"UNKNOWN", "UNLISTED"}
         THEN Respond(c, Failed) ELSE Step(c, "body", req)
  /\ UNCHANGED <<dbVars, proc, boots, found, conn, history>>

(* The handler of the header calls read_body, whose switch either starts   *)
(* to read the body or answers; then the body stays in the stream.         *)
ReadHeader(c) ==
  /\ phase[c] = "h"
  /\ Has(c, "Header")
  /\ Consume(c)
  /\ LET req == Head(inbox[c]).of
     IN  IF req = Unknown THEN Respond(c, Failed)
                          ELSE Step(c, "body", AsRead(req))
  /\ UNCHANGED <<dbVars, proc, boots, found, conn, history>>

(* Either read of read_header fails: an answer is sent all the same.       *)
HeaderReadFailed(c) ==
  /\ phase[c] \in {"mh", "h"}
  /\ ReadError(c)
  /\ Respond(c, Failed)
  /\ UNCHANGED <<dbVars, proc, boots, found, conn, inbox, history>>

(* Only the body handlers give a session up when a read fails.             *)
BodyReadFailed(c) ==
  /\ phase[c] = "body"
  /\ work[c].msg_type # "REQUEST_GET_VARIABLES"
  /\ ReadError(c)
  /\ Step(c, "gone", Idle)
  /\ UNCHANGED <<dbVars, proc, boots, found, conn, inbox, history>>

(* The body of a request of the given type was read.                       *)
BodyRead(c, msg_type) ==
  /\ phase[c] = "body"
  /\ work[c].msg_type = msg_type
  /\ Has(c, "Body")
  /\ Consume(c)

(* What the handler of each body does with the request work[c].            *)
AddVariable(c) ==
  \E err \in {"Ok", "Failed"} :
    /\ add_variable(work[c].name, work[c].color, err)
    /\ Respond(c, IF err = "Ok"
                  THEN OkTo("REQUEST_ADD_VAR", Len(variable')) ELSE Failed)

(* Mutant: the value is acknowledged whether it was stored or not.         *)
AddVariableValue_Unchecked(c) ==
  \E err \in {"Ok", "Failed"} :
    /\ add_variable_value(work[c].variable, work[c].value, err)
    /\ Respond(c, OkTo(Absent, Len(variable_value')))

AddVariableValue(c) ==
  \E err \in {"Ok", "Failed"} :
    /\ add_variable_value(work[c].variable, work[c].value, err)
    /\ Respond(c, IF err = "Ok"
                  THEN OkTo(Absent, Len(variable_value')) ELSE Failed)

(* Mutant: one bound is enough, the other one is read unset, as 0.         *)
Selected_EitherBound(req) ==
  IF req.start # Absent \/ req.end # Absent
  THEN SelectValuesBetween(req.variable,
                           IF req.start = Absent THEN 0 ELSE req.start,
                           IF req.end = Absent THEN 0 ELSE req.end)
  ELSE SelectValues(req.variable)

(* The range counts only when both of its bounds are set.                  *)
Selected(req) ==
  IF req.start # Absent /\ req.end # Absent
  THEN SelectValuesBetween(req.variable, req.start, req.end)
  ELSE SelectValues(req.variable)

FetchValues(c) ==
  /\ \E res \in fetch_variable_values(Selected(work[c]), max_values_ammount) :
       Respond(c, IF res.err = "Ok" THEN ValuesResponse(res.rows, res.size)
                                    ELSE Failed)
  /\ UNCHANGED dbVars

FetchVariables(c) ==
  /\ \E res \in fetch_variables :
       Respond(c, IF res.err = "Ok" THEN VariablesResponse(res.rows, res.size)
                                    ELSE Failed)
  /\ UNCHANGED dbVars

read_add_variable_request(c) ==
  /\ BodyRead(c, "REQUEST_ADD_VAR")
  /\ AddVariable(c)
  /\ UNCHANGED <<proc, boots, found, conn, history>>

read_save_value_request(c) ==
  /\ BodyRead(c, "REQUEST_SAVE_VALUE")
  /\ AddVariableValue(c)
  /\ UNCHANGED <<proc, boots, found, conn, history>>

read_get_values_request(c) ==
  /\ BodyRead(c, "REQUEST_GET_VALUES")
  /\ FetchValues(c)
  /\ UNCHANGED <<proc, boots, found, conn, history>>

(* The same handler when compress reads past the end of its input.         *)
DieInCompress(c) ==
  /\ phase[c] = "body"
  /\ work[c].msg_type = "REQUEST_GET_VALUES"
  /\ Has(c, "Body")
  /\ CompressOverruns(Selected(work[c]), max_values_ammount)
  /\ Exit("overrun")
  /\ UNCHANGED dbVars

(* A body of no bytes is read at once, even from a broken connection.      *)
read_get_variables_request(c) ==
  /\ phase[c] = "body"
  /\ work[c].msg_type = "REQUEST_GET_VARIABLES"
  /\ FetchVariables(c)
  /\ UNCHANGED <<proc, boots, found, conn, inbox, history>>
-----------------------------------------------------------------------------
(* A session that is out of step: after a request without a case it takes  *)
(* the body of that request for a meta header, and what it then takes for  *)
(* sizes, type and body is arbitrary.  No result of ParseFromArray is      *)
(* looked at: a field that could not be read has its default, and so a     *)
(* header without type and size is a request to add NoName, with an empty  *)
(* body.                                                                   *)

Misplaced(c) ==
  /\ phase[c] = "mh"
  /\ inbox[c] # <<>>
  /\ ~Has(c, "MetaHeader")

(* Bytes up to some place in the k-th part of the stream are read.         *)
Swallow(c, least) ==
  \E k \in least..Len(inbox[c]) :
    \E n \in 0..(IF k = 0 \/ inbox[c][k].part = "Rest" THEN 0 ELSE MaxStray) :
      inbox' = [inbox EXCEPT ![c] =
                  [j \in 1..n |-> [part |-> "Rest", of |-> @[k].of]]
                    \o SubSeq(@, k + 1, Len(@))]

(* Two reads in read_header: then a request is taken out of the stream, or *)
(* a type without a case, or more bytes are waited for than will come.     *)
ReadMisaligned(c) ==
  /\ Misplaced(c)
  /\ \/ /\ Swallow(c, 1)
        /\ \/ Respond(c, Failed)
           \/ \E req \in Understood : Step(c, "astray", req)
     \/ Step(c, "lost", Idle) /\ UNCHANGED inbox
  /\ UNCHANGED <<dbVars, proc, boots, found, conn, history>>

(* The request is executed, with whatever was read as its body.            *)
ReadAstrayBody(c) ==
  /\ phase[c] = "astray"
  /\ Swallow(c, 0)
  /\ CASE work[c].msg_type = "REQUEST_ADD_VAR" -> AddVariable(c)
       [] work[c].msg_type = "REQUEST_SAVE_VALUE" -> AddVariableValue(c)
       [] work[c].msg_type = "REQUEST_GET_VALUES" -> FetchValues(c)
       [] work[c].msg_type = "REQUEST_GET_VARIABLES" -> FetchVariables(c)
  /\ UNCHANGED <<proc, boots, found, conn, history>>

(* The stream ends before the bytes that are waited for, of a header or of *)
(* a body.                                                                 *)
AstrayReadFailed(c) ==
  /\ phase[c] \in {"lost", "astray"}
  /\ conn[c] \in {"fin", "rst"}
  /\ inbox' = [inbox EXCEPT ![c] = <<>>]
  /\ \/ phase[c] = "lost" /\ Respond(c, Failed)
     \/ Step(c, "gone", Idle)
  /\ UNCHANGED <<dbVars, proc, boots, found, conn, history>>

(* A size no buffer can have: new throws, out of io_context.run(), and     *)
(* main returns.  Or compress reads past the end of its input.             *)
DieAstray(c) ==
  /\ \/ Misplaced(c) /\ Exit("down")
     \/ /\ phase[c] = "astray"
        /\ work[c].msg_type = "REQUEST_GET_VALUES"
        /\ CompressOverruns(Selected(work[c]), max_values_ammount)
        /\ Exit("overrun")
  /\ UNCHANGED dbVars

Astray(c) ==
  \/ ReadMisaligned(c)
  \/ ReadAstrayBody(c)
  \/ AstrayReadFailed(c)
  \/ DieAstray(c)
-----------------------------------------------------------------------------
(* Mutant: the session does not read again after it has answered.          *)
WriteDone_NoRead(c) ==
  /\ phase[c] = "write"
  /\ conn[c] \in {"open", "fin"}
  /\ Step(c, "gone", Idle)
  /\ replies' = IF conn[c] = "open"
                THEN [replies EXCEPT ![c] = Append(@, work[c])] ELSE replies
  /\ UNCHANGED <<dbVars, proc, boots, found, conn, inbox, sent, floor>>

(* send_msg: the write completes and the next read starts.  Who has closed *)
(* the connection does not get the response, but the write still succeeds. *)
WriteDone(c) ==
  /\ phase[c] = "write"
  /\ conn[c] \in {"open", "fin"}
  /\ Step(c, "mh", Idle)
  /\ replies' = IF conn[c] = "open"
                THEN [replies EXCEPT ![c] = Append(@, work[c])] ELSE replies
  /\ UNCHANGED <<dbVars, proc, boots, found, conn, inbox, sent, floor>>

(* Mutant: a write that fails ends the session.                            *)
WriteFailed_Ends(c) ==
  /\ phase[c] = "write"
  /\ conn[c] = "rst"
  /\ Step(c, "gone", Idle)
  /\ UNCHANGED <<dbVars, proc, boots, found, conn, inbox, history>>

(* A write that fails is answered with another write on the same socket.   *)
WriteFailed(c) ==
  /\ phase[c] = "write"
  /\ conn[c] = "rst"
  /\ Respond(c, Failed)
  /\ UNCHANGED <<dbVars, proc, boots, found, conn, inbox, history>>
-----------------------------------------------------------------------------
Process == Open \/ create_scheme \/ Seed \/ Crash

Environment(c) ==
  \/ Connect(c)
  \/ \E req \in Requests : SendRequest(c, req)
  \/ \E how \in {"fin", "rst"} : Disconnect(c, how)

Database(c) ==
  \/ read_add_variable_request(c)
  \/ read_save_value_request(c)
  \/ read_get_values_request(c)
  \/ read_get_variables_request(c)
  \/ DieInCompress(c)

Session(c) ==
  \/ Accept(c)
  \/ ReadMetaHeader(c)
  \/ ReadHeader(c)
  \/ HeaderReadFailed(c)
  \/ Astray(c)
  \/ BodyReadFailed(c)
  \/ Database(c)
  \/ WriteDone(c)
  \/ WriteFailed(c)

Next == Process \/ \E c \in Conns : Environment(c) \/ Session(c)

Spec == Init /\ [][Next]_vars

(* The event loop runs every completion handler whose operation completed, *)
(* the constructor runs to its end, and a client reads what it is sent.    *)
Fairness ==
  /\ WF_vars(create_scheme \/ Seed)
  /\ \A c \in Conns : WF_vars(Session(c))

FairSpec == Spec /\ Fairness
-----------------------------------------------------------------------------
Phases == {"unborn", "mh", "h", "body", "write", "lost", "astray", "gone"}

ResponseType ==
  [msg_type : {"RESPONSE_FAILURE", "RESPONSE_VALUES", "RESPONSE_VARIABLES"},
   status : {"OK", "FAILED"},
   prev_msg : {"REQUEST_ADD_VAR", Absent},
   rows : SUBSET (Nat \ {0}),
   size : Nat]

(* What a session works on depends on its phase.                           *)
WorkFits(p, w) ==
  /\ p \in {"body", "astray"} => w \in Understood
  /\ p = "write" => w \in ResponseType
  /\ p \notin {"body", "astray", "write"} => w = Idle

(* Types of the state.                                                     *)
TypeOK ==
  /\ TablesTypeOK
  /\ proc \in {"down", "opened", "half", "schema", "serving", "overrun"}
  /\ boots \in Nat
  /\ found \subseteq Tables
  /\ conn \in [Conns -> {"none", "open", "fin", "rst"}]
  /\ inbox \in [Conns -> Seq(Token)]
  /\ phase \in [Conns -> Phases]
  /\ DOMAIN work = Conns
  /\ \A c \in Conns : WorkFits(phase[c], work[c])
  /\ sent \in [Conns -> Seq(Requests)]
  /\ replies \in [Conns -> Seq(ResponseType)]
  /\ floor \in [Conns -> Seq(SUBSET (Nat \ {0}))]

(* Names stay unique and readings resolve to their variable although every *)
(* session writes to the same two tables and no foreign key is enforced.   *)
IntegrityHolds == Integrity

(* A session reads a meta header, a header or a body where one was sent,   *)
(* and the body it reads is that of the header it has read, however        *)
(* requests are pipelined and wherever the stream was cut.                 *)
FramingAligned ==
  \A c \in Conns :
    inbox[c] # <<>> =>
      CASE phase[c] \in {"unborn", "mh", "write"} -> Has(c, "MetaHeader")
        [] phase[c] = "h" -> Has(c, "Header")
        [] phase[c] = "body" ->
             IF work[c].msg_type = "REQUEST_GET_VARIABLES"
             THEN Has(c, "MetaHeader")
             ELSE Has(c, "Body") /\ AsRead(Head(inbox[c]).of) = work[c]
        [] phase[c] \in {"lost", "astray"} -> FALSE
        [] OTHER -> TRUE

NameOf(id) == variable[variable_value[id].variable_id].name

(* The readings a GET_VALUES asks for, found through the join.             *)
AskedFor(req) ==
  {id \in ValueIds :
     /\ NameOf(id) = req.variable
     /\ Absent \notin {req.start, req.end} =>
          variable_value[id].timestamp \in req.start..req.end}

Answers(req, res) ==
  \/ res = Failed
  \/ /\ res.status = "OK"
     /\ CASE req.msg_type = "REQUEST_ADD_VAR" ->
               /\ res.prev_msg = "REQUEST_ADD_VAR"
               /\ \A id \in res.rows : /\ id \in VariableIds
                                       /\ variable[id].name = req.name
          [] req.msg_type = "REQUEST_SAVE_VALUE" ->
               /\ res.msg_type = "RESPONSE_FAILURE"
               /\ \A id \in res.rows :
                    /\ id \in ValueIds
                    /\ NameOf(id) = req.variable
                    /\ variable_value[id].val = ToSixDecimals(req.value)
          [] req.msg_type = "REQUEST_GET_VALUES" ->
               /\ res.msg_type = "RESPONSE_VALUES"
               /\ res.rows \subseteq AskedFor(req)
               /\ res.size <= max_values_ammount
          [] req.msg_type = "REQUEST_GET_VARIABLES" ->
               /\ res.msg_type = "RESPONSE_VARIABLES"
               /\ res.rows \subseteq VariableIds

(* The k-th response a client receives answers its k-th request: responses *)
(* carry no request number, so this order is all a client has to go by.    *)
(* An Ok is backed by a row that still says what was asked to be saved.    *)
AnsweredInOrder ==
  \A c \in Conns :
    /\ Len(replies[c]) <= Len(sent[c])
    /\ \A k \in DOMAIN replies[c] : Answers(sent[c][k], replies[c][k])

(* A session that is out of step harms only its own client: the others are *)
(* answered in order and with rows that say what they asked for, whatever  *)
(* it makes the server insert.                                             *)
OthersAnswered ==
  \A c \in Conns :
    (\A k \in DOMAIN sent[c] : sent[c][k] # Unknown) =>
      /\ phase[c] \notin {"lost", "astray"}
      /\ Len(replies[c]) <= Len(sent[c])
      /\ \A k \in DOMAIN replies[c] :
           Answers(AsRead(sent[c][k]), replies[c][k])

Saves == {s \in Conns \X (1..MaxRequests) :
            /\ s[2] \in DOMAIN sent[s[1]]
            /\ sent[s[1]][s[2]].msg_type = "REQUEST_SAVE_VALUE"}

(* No reading is stored twice or made up: two acknowledged requests never  *)
(* share a row, and of every name and value there are at most as many rows *)
(* as requests to save it, also when the connection broke in between.      *)
SavedAtMostOnce ==
  /\ \A s, t \in {u \in Saves : u[2] \in DOMAIN replies[u[1]]} :
       s # t => replies[s[1]][s[2]].rows \cap replies[t[1]][t[2]].rows = {}
  /\ \A n \in Names, v \in Vals \ {NotFinite} :
       Cardinality({id \in ValueIds : /\ NameOf(id) = n
                                      /\ variable_value[id].val = ToSixDecimals(v)})
       <= Cardinality({s \in Saves :
                         /\ sent[s[1]][s[2]].variable = n
                         /\ sent[s[1]][s[2]].value # NotFinite
                         /\ ToSixDecimals(sent[s[1]][s[2]].value)
                              = ToSixDecimals(v)})

(* A GET_VALUES answered with readings has all of those asked for whose    *)
(* SAVE_VALUE was acknowledged, to any client, before it was sent.         *)
ReadsSeeAcknowledged ==
  \A c \in Conns : \A k \in DOMAIN replies[c] :
    /\ sent[c][k].msg_type = "REQUEST_GET_VALUES"
    /\ replies[c][k].msg_type = "RESPONSE_VALUES"
    => floor[c][k] \cap AskedFor(sent[c][k]) \subseteq replies[c][k].rows

(* Only a process that found no table in the file ever serves: after any   *)
(* stop past the first CREATE TABLE, a half-finished start included, no    *)
(* restart on the same file succeeds, so nothing acknowledged before can   *)
(* be read again.                                                          *)
ServesOnlyNewFile == proc \in {"half", "schema", "serving"} => found = {}

(* compress takes the process with it only once more than the square of    *)
(* max_values_ammount readings are stored.                                 *)
DiesOnlyOnLongHistory ==
  proc = "overrun" =>
    Len(variable_value) > max_values_ammount * max_values_ammount

(* A session does not end while its client is connected, whatever fails.   *)
KeptWhileConnected ==
  \A c \in Conns : conn[c] = "open" => phase[c] # "gone"

(* A session that was writing when the connection was reset is never       *)
(* released: it writes the same failure for as long as the process runs.   *)
ResetSessionSpins ==
  [][\A c \in Conns :
       /\ phase[c] = "write"
       /\ conn[c] = "rst"
       /\ Listening'
       => phase'[c] = "write"]_vars

(* Every request a client has sent and waits for is answered, unless the   *)
(* connection breaks (which includes the end of the process): no session   *)
(* starves another or stops reading after a failure.                       *)
RequestsAnswered ==
  \A c \in Conns :
    []<>(Len(replies[c]) = Len(sent[c]) \/ conn[c] # "open")

(* What the tables hold is a ReadingLog.                                   *)
Log == INSTANCE ReadingLog WITH
         Reals <- StoredVals,
         Times <- Clock,
         registry <- [id \in VariableIds |-> variable[id].name],
         readings <- [id \in ValueIds |->
                        [name |-> NameOf(id),
                         val |-> variable_value[id].val,
                         timestamp |-> variable_value[id].timestamp]]

(* Whatever sessions, crashes and restarts do, the registry and the log of *)
(* readings only grow and no reading ever changes its variable.            *)
ImplementsLog == Log!Spec

(* What session.cc says where a request has no case: "This can cause sync  *)
(* problems, the connection should be restarted."  No session is to read   *)
(* on where its client has not started a message.                          *)
UnknownRestartsConnection ==
  \A c \in Conns :
    phase[c] = "mh" /\ inbox[c] # <<>> => Has(c, "MetaHeader")
=============================================================================
