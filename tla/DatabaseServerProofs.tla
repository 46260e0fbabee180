------------------------- MODULE DatabaseServerProofs -------------------------
(***************************************************************************)
(* Theorems about the database server for any number of connections, any   *)
(* requests, any limit and any number of restarts.                         *)
(*                                                                         *)
(* The inductive invariant IInv joins the type of the state with the       *)
(* integrity of the tables and with what a process that got so far with    *)
(* its start has found and created.                                        *)
(***************************************************************************)
EXTENDS DatabaseServer, SQLiteTablesProofs,
        SequenceTheorems, FiniteSetTheorems

ProcessType ==
  /\ proc \in {"down", "opened", "half", "schema", "serving", "overrun"}
  /\ boots \in Nat
  /\ found \subseteq Tables

SessionsType ==
  /\ conn \in [Conns -> {"none", "open", "fin", "rst"}]
  /\ inbox \in [Conns -> Seq(Token)]
  /\ phase \in [Conns -> Phases]
  /\ DOMAIN work = Conns
  /\ \A c \in Conns : WorkFits(phase[c], work[c])

HistoryType ==
  /\ sent \in [Conns -> Seq(Requests)]
  /\ replies \in [Conns -> Seq(ResponseType)]
  /\ floor \in [Conns -> Seq(SUBSET (Nat \ {0}))]

(* What the running process found in the file, and what is there now.      *)
SchemaInv ==
  /\ proc = "opened" => found = tables
  /\ proc \in {"half", "schema", "serving"} => found = {} /\ "VARIABLE" \in tables

IInv == TablesInv /\ ProcessType /\ SessionsType /\ HistoryType /\ SchemaInv

LEMMA TypesOfIInv == IInv <=> TypeOK /\ Integrity /\ SchemaInv
BY DEF IInv, TablesInv, ProcessType, SessionsType, HistoryType, TypeOK

LEMMA InitIInv == Init => IInv
<1> SUFFICES ASSUME Init PROVE IInv
  OBVIOUS
<1>1. TablesInv
  BY EmptyTables DEF Init
<1>2. ProcessType /\ SchemaInv
  BY DEF Init, ProcessType, SchemaInv
<1>3. SessionsType
  BY DEF Init, SessionsType, WorkFits, Phases
<1>4. HistoryType
  BY DEF Init, HistoryType
<1> QED BY <1>1, <1>2, <1>3, <1>4 DEF IInv
-----------------------------------------------------------------------------
(* Messages.                                                               *)

(* The fields of a request are names, colors and values of the instance.   *)
LEMMA RequestFields ==
  ASSUME NEW req \in Understood
  PROVE  /\ req.msg_type \in {"REQUEST_ADD_VAR", "REQUEST_SAVE_VALUE",
                              "REQUEST_GET_VALUES", "REQUEST_GET_VARIABLES"}
         /\ req.msg_type = "REQUEST_ADD_VAR" => req.name \in Names /\ req.color \in Colors
         /\ req.msg_type = "REQUEST_SAVE_VALUE" => req.variable \in Names /\ req.value \in Vals
BY DEF Understood, KnownRequests, AddVar, SaveValue, GetValues, GetVariables

(* What is read of a message with a case in read_body is a request.        *)
LEMMA ReadAsUnderstood ==
  ASSUME NEW req \in Requests, req # Unknown PROVE AsRead(req) \in Understood
<1>1. req \in AllRequests(Names, Colors, Vals, Clock)
  BY ServerAssumption
<1>2. CASE req \in Understood
  <2>1. req.msg_type # "UNLISTED"
    BY <1>2, RequestFields
  <2> QED BY <1>2, <2>1 DEF AsRead
<1>3. ASSUME NEW n \in Names, NEW color \in Colors, req = Unlisted(n, color)
      PROVE  AsRead(req) \in Understood
  <2>1. AsRead(req) = AddVar(n, color)
    BY <1>3 DEF AsRead, Unlisted
  <2> QED BY <2>1 DEF Understood, KnownRequests
<1> QED BY <1>1, <1>2, <1>3 DEF AllRequests, Understood

LEMMA FrameType == \A req \in Requests : Frame(req) \in Seq(Token)
<1> TAKE req \in Requests
<1> DEFINE Of(part) == [part |-> part, of |-> req]
<1>1. Of("MetaHeader") \in Token /\ Of("Header") \in Token /\ Of("Body") \in Token
  BY DEF Token, Parts
<1> QED BY <1>1 DEF Frame

LEMMA FailedType == Failed \in ResponseType
BY DEF Failed, Response, ResponseType

LEMMA OkType ==
  \A prev \in {"REQUEST_ADD_VAR", Absent}, id \in Nat \ {0} : OkTo(prev, id) \in ResponseType
BY DEF OkTo, Response, ResponseType

LEMMA RowsType ==
  ASSUME NEW rows \in SUBSET (Nat \ {0}), NEW size \in Nat
  PROVE  /\ ValuesResponse(rows, size) \in ResponseType
         /\ VariablesResponse(rows, size) \in ResponseType
BY DEF ValuesResponse, VariablesResponse, Response, ResponseType

(* A fetch returns IDs and a count of entries.                             *)
LEMMA FetchType ==
  ASSUME NEW rows \in SUBSET ValueIds, variable_value \in Seq(ValueRow),
         NEW res \in fetch_variable_values(rows, max_values_ammount), res.err = "Ok"
  PROVE  res.rows \in SUBSET (Nat \ {0}) /\ res.size \in Nat
<1>1. Len(variable_value) \in Nat /\ rows \subseteq Nat \ {0}
  BY DEF ValueIds
<1>2. Cardinality(rows) \in Nat
  <2>1. IsFiniteSet(ValueIds)
    BY <1>1, FS_Interval DEF ValueIds
  <2>2. IsFiniteSet(rows)
    BY <2>1, FS_Subset
  <2> QED BY <2>2, FS_CardinalityType
<1>3. res = Capped(rows, max_values_ammount)
  BY DEF fetch_variable_values, Fetched
<1> QED BY <1>1, <1>2, <1>3, ServerAssumption DEF Capped, Fetched

LEMMA SelectedRows ==
  ASSUME NEW req PROVE Selected(req) \subseteq ValueIds
BY DEF Selected, SelectValuesBetween, SelectValues

LEMMA FetchVariablesType ==
  ASSUME NEW res \in fetch_variables, variable \in Seq(VariableRow), res.err = "Ok"
  PROVE  res.rows \in SUBSET (Nat \ {0}) /\ res.size \in Nat
BY DEF fetch_variables, Fetched, VariableIds
-----------------------------------------------------------------------------
(* The tables change only by the statements of SQLiteTables.               *)
Statement ==
  \/ UNCHANGED dbVars
  \/ \E t \in Tables : /\ CreateTable(t)
                       /\ t = "VARIABLE_VALUE" => "VARIABLE" \in tables
  \/ \E n \in Names, color \in Colors : InsertVariable(n, color)
  \/ \E n \in Names, v \in Vals, now \in Clock : InsertValue(n, v, now)

LEMMA StatementInv == TablesInv /\ Statement => TablesInv'
BY TablesUnchanged, CreateTableInv, InsertVariableInv, InsertValueInv DEF Statement

LEMMA BodyOf ==
  ASSUME SessionsType, NEW c \in Conns, phase[c] = "body"
  PROVE  work[c] \in Understood
BY DEF SessionsType, WorkFits

(* The request a session executes, in step or not.                         *)
Handles(c) ==
  \/ work[c].msg_type = "REQUEST_ADD_VAR" /\ AddVariable(c)
  \/ work[c].msg_type = "REQUEST_SAVE_VALUE" /\ AddVariableValue(c)
  \/ work[c].msg_type = "REQUEST_GET_VALUES" /\ FetchValues(c)
  \/ work[c].msg_type = "REQUEST_GET_VARIABLES" /\ FetchVariables(c)

LEMMA DatabaseHandles ==
  ASSUME SessionsType, NEW c \in Conns, Database(c), ~DieInCompress(c)
  PROVE  /\ work[c] \in Understood
         /\ Handles(c)
         /\ UNCHANGED <<proc, boots, found, conn, history>>
<1>1. phase[c] = "body" /\ Handles(c) /\ UNCHANGED <<proc, boots, found, conn, history>>
  BY DEF Database, BodyRead, Handles, read_add_variable_request,
     read_save_value_request, read_get_values_request, read_get_variables_request
<1> QED BY <1>1, BodyOf

LEMMA AstrayBodyHandles ==
  ASSUME SessionsType, NEW c \in Conns, ReadAstrayBody(c)
  PROVE  /\ work[c] \in Understood
         /\ Handles(c)
         /\ UNCHANGED <<proc, boots, found, conn, history>>
<1>1. work[c] \in Understood
  BY DEF ReadAstrayBody, SessionsType, WorkFits
<1> QED BY <1>1, RequestFields, Zenon DEF ReadAstrayBody, Handles

(* Executing a request is one statement, after which the session writes.   *)
LEMMA HandlesStatement ==
  ASSUME NEW c \in Conns, work[c] \in Understood, Handles(c)
  PROVE  Statement /\ tables' = tables /\ \E w : Step(c, "write", w)
<1>1. CASE work[c].msg_type = "REQUEST_ADD_VAR" /\ AddVariable(c)
  <2>1. PICK err \in {"Ok", "Failed"} :
           /\ add_variable(work[c].name, work[c].color, err)
           /\ \E w : Step(c, "write", w)
    BY <1>1 DEF AddVariable, Respond
  <2> QED BY <1>1, <2>1, RequestFields DEF add_variable, Statement, InsertVariable, dbVars
<1>2. CASE work[c].msg_type = "REQUEST_SAVE_VALUE" /\ AddVariableValue(c)
  <2>1. PICK err \in {"Ok", "Failed"} :
           /\ add_variable_value(work[c].variable, work[c].value, err)
           /\ \E w : Step(c, "write", w)
    BY <1>2 DEF AddVariableValue, Respond
  <2> QED BY <1>2, <2>1, RequestFields DEF add_variable_value, Statement, InsertValue, dbVars
<1>3. CASE FetchValues(c) \/ FetchVariables(c)
  BY <1>3 DEF FetchValues, FetchVariables, Respond, Statement, dbVars
<1> QED BY <1>1, <1>2, <1>3 DEF Handles

(* An out-of-step session executes at most one statement, or ends the      *)
(* process.                                                                *)
LEMMA AstrayStatement ==
  ASSUME SessionsType, NEW c \in Conns, Astray(c)
  PROVE  Statement /\ tables' = tables
<1>1. CASE ReadAstrayBody(c)
  BY <1>1, AstrayBodyHandles, HandlesStatement
<1>2. CASE ReadMisaligned(c) \/ AstrayReadFailed(c) \/ DieAstray(c)
  BY <1>2 DEF ReadMisaligned, AstrayReadFailed, DieAstray, Statement, dbVars
<1> QED BY <1>1, <1>2 DEF Astray

LEMMA NextIsStatement == IInv /\ Next => Statement
<1> SUFFICES ASSUME IInv, Next PROVE Statement
  OBVIOUS
<1>1. CASE Process
  <2>1. CASE Open
    BY <2>1 DEF Open, Statement
  <2>2. CASE create_scheme
    <3>1. CASE CreateStatement("VARIABLE", "opened", "half")
      BY <3>1 DEF CreateStatement, Statement, Tables
    <3>2. CASE CreateStatement("VARIABLE_VALUE", "half", "schema")
      BY <3>2 DEF CreateStatement, Statement, Tables, IInv, SchemaInv
    <3> QED BY <2>2, <3>1, <3>2 DEF create_scheme
  <2>3. CASE Seed
    BY <2>3, ServerAssumption DEF Seed, add_variable, Statement
  <2>4. CASE Crash
    BY <2>4 DEF Crash, Statement
  <2> QED BY <1>1, <2>1, <2>2, <2>3, <2>4 DEF Process
<1>2. ASSUME NEW c \in Conns, Environment(c) PROVE Statement
  BY <1>2 DEF Environment, Connect, SendRequest, Disconnect, Statement
<1>3. ASSUME NEW c \in Conns, Session(c) PROVE Statement
  <2>1. CASE Database(c) /\ ~DieInCompress(c)
    BY <2>1, DatabaseHandles, HandlesStatement DEF IInv
  <2>2. CASE Astray(c)
    BY <2>2, AstrayStatement DEF IInv
  <2>3. CASE DieInCompress(c)
    BY <2>3 DEF DieInCompress, Statement
  <2>4. CASE Accept(c) \/ ReadMetaHeader(c) \/ ReadHeader(c) \/ HeaderReadFailed(c)
             \/ BodyReadFailed(c) \/ WriteDone(c) \/ WriteFailed(c)
    BY <2>4 DEF Accept, ReadMetaHeader, ReadHeader, HeaderReadFailed,
                BodyReadFailed, WriteDone, WriteFailed, Statement
  <2> QED BY <1>3, <2>1, <2>2, <2>3, <2>4 DEF Session
<1> QED BY <1>1, <1>2, <1>3 DEF Next
-----------------------------------------------------------------------------
(* The sessions keep their type.                                           *)

LEMMA StepType ==
  ASSUME SessionsType, NEW c \in Conns, NEW p \in Phases, NEW w,
         WorkFits(p, w), Step(c, p, w), conn' = conn,
         inbox' \in [Conns -> Seq(Token)]
  PROVE  SessionsType'
<1>1. /\ phase' = [phase EXCEPT ![c] = p]
      /\ work' = [work EXCEPT ![c] = w]
  BY DEF Step
<1>2. phase' \in [Conns -> Phases] /\ DOMAIN work' = Conns
  BY <1>1 DEF SessionsType
<1>3. ASSUME NEW d \in Conns PROVE WorkFits(phase'[d], work'[d])
  BY <1>1, Zenon DEF SessionsType
<1> QED BY <1>2, <1>3 DEF SessionsType, WorkFits

LEMMA ExitType == ASSUME SessionsType, NEW how, Exit(how) PROVE SessionsType'
BY DEF SessionsType, Exit, WorkFits, Phases

LEMMA ConsumeType ==
  ASSUME inbox \in [Conns -> Seq(Token)], NEW c \in Conns, inbox[c] # <<>>, Consume(c)
  PROVE  inbox' \in [Conns -> Seq(Token)] /\ Head(inbox[c]).of \in Requests
<1>1. Head(inbox[c]) \in Token /\ Tail(inbox[c]) \in Seq(Token)
  BY HeadTailProperties
<1> QED BY <1>1 DEF Consume, Token

LEMMA SliceType ==
  ASSUME NEW s \in Seq(Token), NEW j \in Nat \ {0}, NEW k \in 0..Len(s)
  PROVE  SubSeq(s, j, k) \in Seq(Token)
<1>1. \A i \in j..k : s[i] \in Token
  OBVIOUS
<1> QED BY <1>1, SubSeqProperties

LEMMA EnvironmentSessions ==
  ASSUME SessionsType, NEW c \in Conns, Environment(c) PROVE SessionsType'
<1>1. CASE Connect(c)
  BY <1>1 DEF Connect, SessionsType
<1>2. CASE \E req \in Requests : SendRequest(c, req)
  <2>1. PICK req \in Requests : SendRequest(c, req)
    BY <1>2
  <2>2. inbox[c] \o Frame(req) \in Seq(Token)
    BY FrameType, ConcatProperties DEF SessionsType
  <2> QED BY <2>1, <2>2 DEF SendRequest, SessionsType
<1>3. CASE \E how \in {"fin", "rst"} : Disconnect(c, how)
  <2>1. PICK how \in {"fin", "rst"}, k \in 0..Len(inbox[c]) :
           /\ conn' = [conn EXCEPT ![c] = how]
           /\ inbox' = [inbox EXCEPT ![c] = SubSeq(@, 1, k)]
           /\ phase' = phase /\ work' = work
    BY <1>3 DEF Disconnect
  <2>2. SubSeq(inbox[c], 1, k) \in Seq(Token)
    BY SliceType DEF SessionsType
  <2> QED BY <2>1, <2>2 DEF SessionsType
<1> QED BY <1>1, <1>2, <1>3 DEF Environment

(* The response that is written has the type of responses.                 *)
LEMMA HandlesType ==
  ASSUME TablesInv, TablesInv', NEW c \in Conns, Handles(c)
  PROVE  \E w \in ResponseType : Respond(c, w)
<1>1. variable' \in Seq(VariableRow) /\ variable_value' \in Seq(ValueRow)
  BY DEF TablesInv, TablesTypeOK
<1>4. CASE AddVariable(c)
  <2>1. PICK err \in {"Ok", "Failed"} :
           /\ add_variable(work[c].name, work[c].color, err)
           /\ Respond(c, IF err = "Ok"
                         THEN OkTo("REQUEST_ADD_VAR", Len(variable')) ELSE Failed)
    BY <1>4 DEF AddVariable
  <2>2. err = "Ok" => Len(variable') \in Nat \ {0}
    BY <1>1, <2>1 DEF add_variable, InsertVariable, TablesInv, TablesTypeOK
  <2> QED BY <2>1, <2>2, FailedType, OkType
<1>5. CASE AddVariableValue(c)
  <2>1. PICK err \in {"Ok", "Failed"} :
           /\ add_variable_value(work[c].variable, work[c].value, err)
           /\ Respond(c, IF err = "Ok"
                         THEN OkTo(Absent, Len(variable_value')) ELSE Failed)
    BY <1>5 DEF AddVariableValue
  <2>2. err = "Ok" => Len(variable_value') \in Nat \ {0}
    BY <1>1, <2>1 DEF add_variable_value, InsertValue, TablesInv, TablesTypeOK
  <2> QED BY <2>1, <2>2, FailedType, OkType
<1>6. CASE FetchValues(c)
  <2>1. PICK res \in fetch_variable_values(Selected(work[c]), max_values_ammount) :
           Respond(c, IF res.err = "Ok" THEN ValuesResponse(res.rows, res.size)
                                        ELSE Failed)
    BY <1>6 DEF FetchValues
  <2>2. res.err = "Ok" => res.rows \in SUBSET (Nat \ {0}) /\ res.size \in Nat
    BY SelectedRows, FetchType DEF TablesInv, TablesTypeOK
  <2> QED BY <2>1, <2>2, FailedType, RowsType
<1>7. CASE FetchVariables(c)
  <2>1. PICK res \in fetch_variables :
           Respond(c, IF res.err = "Ok" THEN VariablesResponse(res.rows, res.size)
                                        ELSE Failed)
    BY <1>7 DEF FetchVariables
  <2>2. res.err = "Ok" => res.rows \in SUBSET (Nat \ {0}) /\ res.size \in Nat
    BY FetchVariablesType DEF TablesInv, TablesTypeOK
  <2> QED BY <2>1, <2>2, FailedType, RowsType
<1> QED BY <1>4, <1>5, <1>6, <1>7 DEF Handles

LEMMA DatabaseSessions ==
  ASSUME TablesInv, SessionsType, NEW c \in Conns, Database(c), TablesInv'
  PROVE  SessionsType'
<1>1. CASE DieInCompress(c)
  BY <1>1, ExitType DEF DieInCompress
<1>2. CASE ~DieInCompress(c)
  <2>1. PICK w \in ResponseType : Step(c, "write", w)
    BY <1>2, DatabaseHandles, HandlesType DEF Respond
  <2>2. WorkFits("write", w) /\ "write" \in Phases
    BY DEF WorkFits, Phases
  <2>3. ASSUME NEW msg_type, BodyRead(c, msg_type)
        PROVE  inbox' \in [Conns -> Seq(Token)]
    BY <2>3, ConsumeType DEF BodyRead, Has, SessionsType
  <2>4. inbox' \in [Conns -> Seq(Token)]
    BY <1>2, <2>3 DEF Database, read_add_variable_request, read_save_value_request,
       read_get_values_request, read_get_variables_request, SessionsType
  <2>5. conn' = conn
    BY <1>2, DatabaseHandles
  <2> QED BY <2>1, <2>2, <2>4, <2>5, StepType
<1> QED BY <1>1, <1>2

(* What is left of a part is a token of its message.                       *)
LEMMA SwallowType ==
  ASSUME inbox \in [Conns -> Seq(Token)], NEW c \in Conns, NEW least \in Nat,
         Swallow(c, least)
  PROVE  inbox' \in [Conns -> Seq(Token)]
<1> DEFINE s == inbox[c]
           rest(k, n) == [j \in 1..n |-> [part |-> "Rest", of |-> s[k].of]]
<1>1. s \in Seq(Token) /\ Len(s) \in Nat
  OBVIOUS
<1>2. PICK k \in least..Len(s) :
         \E n \in 0..(IF k = 0 \/ s[k].part = "Rest" THEN 0 ELSE MaxStray) :
           inbox' = [inbox EXCEPT ![c] = rest(k, n) \o SubSeq(s, k + 1, Len(s))]
  BY DEF Swallow
<1> PICK n \in 0..(IF k = 0 \/ s[k].part = "Rest" THEN 0 ELSE MaxStray) :
         inbox' = [inbox EXCEPT ![c] = rest(k, n) \o SubSeq(s, k + 1, Len(s))]
  BY <1>2
<1>3. k \in Nat /\ n \in Nat /\ (n # 0 => k # 0)
  BY <1>1, <1>2, ServerAssumption
<1>4. SubSeq(s, k + 1, Len(s)) \in Seq(Token)
  <2>1. k + 1 \in Nat \ {0} /\ Len(s) \in 0..Len(s)
    BY <1>1, <1>3
  <2> QED BY <1>1, <2>1, SliceType
<1>5. rest(k, n) \in Seq(Token)
  <2>1. ASSUME NEW j \in 1..n PROVE [part |-> "Rest", of |-> s[k].of] \in Token
    <3>1. k \in 1..Len(s)
      BY <1>1, <1>2, <1>3, <2>1
    <3>2. s[k] \in Token
      BY <1>1, <3>1
    <3> QED BY <3>2 DEF Token, Parts
  <2>2. rest(k, n) \in [1..n -> Token]
    BY <2>1
  <2> HIDE DEF rest
  <2> QED BY <1>3, <2>2, SeqDef
<1>6. rest(k, n) \o SubSeq(s, k + 1, Len(s)) \in Seq(Token)
  BY <1>4, <1>5, ConcatProperties
<1> QED BY <1>2, <1>6

(* What a step of an out-of-step session does to the sessions.             *)
AstrayEffect(c) ==
  \/ UNCHANGED dbVars /\ (Exit("down") \/ Exit("overrun"))
  \/ /\ UNCHANGED <<proc, boots, found, conn, history>>
     /\ inbox' \in [Conns -> Seq(Token)]
     /\ \E p \in {"write", "astray", "lost", "gone"} : \E w :
          /\ Step(c, p, w)
          /\ WorkFits(p, w)
          /\ p = "gone" => conn[c] \in {"fin", "rst"}

LEMMA AstrayEffects ==
  ASSUME TablesInv, SessionsType, NEW c \in Conns, Astray(c), TablesInv'
  PROVE  AstrayEffect(c)
<1>1. inbox \in [Conns -> Seq(Token)]
  BY DEF SessionsType
<1>2. ASSUME NEW least \in {0, 1}, Swallow(c, least)
      PROVE  inbox' \in [Conns -> Seq(Token)]
  BY <1>1, <1>2, SwallowType
<1>3. WorkFits("write", Failed) /\ WorkFits("lost", Idle) /\ WorkFits("gone", Idle)
      /\ (\A req \in Understood : WorkFits("astray", req))
      /\ (\A w \in ResponseType : WorkFits("write", w))
  BY FailedType DEF WorkFits
<1>4. CASE ReadMisaligned(c)
  <2>1. inbox' \in [Conns -> Seq(Token)]
    BY <1>1, <1>2, <1>4 DEF ReadMisaligned
  <2>2. \/ Step(c, "write", Failed)
        \/ \E req \in Understood : Step(c, "astray", req)
        \/ Step(c, "lost", Idle)
    BY <1>4 DEF ReadMisaligned, Respond
  <2> QED BY <1>3, <1>4, <2>1, <2>2 DEF ReadMisaligned, AstrayEffect
<1>5. CASE ReadAstrayBody(c)
  <2>1. inbox' \in [Conns -> Seq(Token)]
    BY <1>2, <1>5 DEF ReadAstrayBody
  <2>2. \E w \in ResponseType : Step(c, "write", w)
    BY <1>5, AstrayBodyHandles, HandlesType DEF Respond
  <2> QED BY <1>3, <1>5, <2>1, <2>2 DEF ReadAstrayBody, AstrayEffect
<1>6. CASE AstrayReadFailed(c)
  <2>1. inbox' \in [Conns -> Seq(Token)]
    BY <1>1, <1>6 DEF AstrayReadFailed
  <2>2. \/ Step(c, "write", Failed)
        \/ Step(c, "gone", Idle) /\ conn[c] \in {"fin", "rst"}
    BY <1>6 DEF AstrayReadFailed, Respond
  <2> QED BY <1>3, <1>6, <2>1, <2>2 DEF AstrayReadFailed, AstrayEffect
<1>7. CASE DieAstray(c)
  BY <1>7 DEF DieAstray, AstrayEffect
<1> QED BY <1>4, <1>5, <1>6, <1>7 DEF Astray

LEMMA SessionSessions ==
  ASSUME TablesInv, SessionsType, NEW c \in Conns, Session(c), TablesInv'
  PROVE  SessionsType'
<1>1. WorkFits("mh", Idle) /\ WorkFits("h", Idle) /\ WorkFits("gone", Idle)
      /\ WorkFits("lost", Idle) /\ WorkFits("write", Failed)
  BY FailedType DEF WorkFits
<1>2. {"mh", "h", "gone", "lost", "astray", "write", "body"} \subseteq Phases
  BY DEF Phases
<1>3. inbox \in [Conns -> Seq(Token)]
  BY DEF SessionsType
<1>4. CASE Accept(c)
  <2>1. conn' = conn /\ inbox' = inbox
    BY <1>4 DEF Accept
  <2>2. Step(c, "mh", Idle) \/ Step(c, "gone", Idle)
    BY <1>4 DEF Accept
  <2> QED BY <1>1, <1>2, <1>3, <2>1, <2>2, StepType
<1>5. CASE ReadMetaHeader(c)
  <2>1. conn' = conn /\ inbox[c] # <<>> /\ Consume(c) /\ Step(c, "h", Idle)
    BY <1>5 DEF ReadMetaHeader, Has
  <2>2. inbox' \in [Conns -> Seq(Token)]
    BY <1>3, <2>1, ConsumeType
  <2> QED BY <1>1, <1>2, <2>1, <2>2, StepType
<1>6. CASE ReadHeader(c)
  <2> DEFINE req == Head(inbox[c]).of
  <2>1. /\ conn' = conn /\ inbox[c] # <<>> /\ Consume(c)
        /\ \/ Step(c, "write", Failed)
           \/ req # Unknown /\ Step(c, "body", AsRead(req))
    BY <1>6 DEF ReadHeader, Has, Respond
  <2>2. inbox' \in [Conns -> Seq(Token)] /\ req \in Requests
    BY <1>3, <2>1, ConsumeType
  <2>3. req # Unknown => WorkFits("body", AsRead(req))
    BY <2>2, ReadAsUnderstood DEF WorkFits
  <2> QED BY <1>1, <1>2, <2>1, <2>2, <2>3, StepType
<1>7. CASE HeaderReadFailed(c) \/ WriteFailed(c)
  <2>1. conn' = conn /\ inbox' = inbox /\ Step(c, "write", Failed)
    BY <1>7 DEF HeaderReadFailed, WriteFailed, Respond
  <2> QED BY <1>1, <1>2, <1>3, <2>1, StepType
<1>8. CASE Astray(c)
  <2>1. CASE Exit("down") \/ Exit("overrun")
    BY <2>1, ExitType
  <2>2. CASE ~(Exit("down") \/ Exit("overrun"))
    BY <1>2, <1>8, <2>2, AstrayEffects, StepType DEF AstrayEffect
  <2> QED BY <2>1, <2>2
<1>9. CASE BodyReadFailed(c) \/ WriteDone(c)
  <2>1. conn' = conn /\ inbox' = inbox
    BY <1>9 DEF BodyReadFailed, WriteDone
  <2>2. Step(c, "mh", Idle) \/ Step(c, "gone", Idle)
    BY <1>9 DEF BodyReadFailed, WriteDone
  <2> QED BY <1>1, <1>2, <1>3, <2>1, <2>2, StepType
<1>10. CASE Database(c)
  BY <1>10, DatabaseSessions
<1> QED BY <1>4, <1>5, <1>6, <1>7, <1>8, <1>9, <1>10 DEF Session
-----------------------------------------------------------------------------
(* What every step does to the rest of the state.                          *)

ProcessVars == <<proc, boots, found>>

LEMMA EnvironmentKeeps ==
  ASSUME NEW c \in Conns, Environment(c) PROVE UNCHANGED ProcessVars
BY DEF Environment, Connect, SendRequest, Disconnect, ProcessVars

LEMMA AstrayKeeps ==
  ASSUME NEW c \in Conns, Astray(c)
  PROVE  \/ UNCHANGED <<ProcessVars, conn, history>>
         \/ UNCHANGED dbVars /\ (Exit("down") \/ Exit("overrun"))
BY DEF Astray, ReadMisaligned, ReadAstrayBody, AstrayReadFailed, DieAstray, ProcessVars

LEMMA SessionKeeps ==
  ASSUME NEW c \in Conns, Session(c)
  PROVE  \/ UNCHANGED ProcessVars
         \/ UNCHANGED dbVars /\ (Exit("down") \/ Exit("overrun"))
<1>1. CASE Astray(c)
  BY <1>1, AstrayKeeps
<1>2. CASE ~Astray(c)
  BY <1>2
     DEF Session, Database, Accept, ReadMetaHeader, ReadHeader, HeaderReadFailed,
         BodyReadFailed, WriteDone, WriteFailed, DieInCompress,
         read_add_variable_request, read_save_value_request,
         read_get_values_request, read_get_variables_request, ProcessVars
<1> QED BY <1>1, <1>2

LEMMA SessionsInv == IInv /\ Next => SessionsType'
<1> SUFFICES ASSUME IInv, Next PROVE SessionsType'
  OBVIOUS
<1>1. TablesInv' /\ TablesInv /\ SessionsType
  BY NextIsStatement, StatementInv DEF IInv
<1>2. CASE Process
  <2>1. CASE UNCHANGED sessionVars
    BY <1>1, <2>1 DEF SessionsType, sessionVars
  <2>2. CASE Exit("down")
    BY <1>1, <2>2, ExitType
  <2> QED BY <1>2, <2>1, <2>2
          DEF Process, Open, create_scheme, CreateStatement, Seed, Crash
<1>3. ASSUME NEW c \in Conns, Environment(c) PROVE SessionsType'
  BY <1>1, <1>3, EnvironmentSessions
<1>4. ASSUME NEW c \in Conns, Session(c) PROVE SessionsType'
  BY <1>1, <1>4, SessionSessions
<1> QED BY <1>2, <1>3, <1>4 DEF Next

LEMMA AcknowledgedType == Acknowledged \in SUBSET ValueIds
BY DEF Acknowledged

LEMMA HistoryInv == IInv /\ Next => HistoryType'
<1> SUFFICES ASSUME IInv, Next PROVE HistoryType'
  OBVIOUS
<1>1. HistoryType /\ SessionsType /\ TablesTypeOK
  BY DEF IInv, TablesInv
<1>2. CASE UNCHANGED history
  BY <1>1, <1>2 DEF history, HistoryType
<1>3. ASSUME NEW c \in Conns, NEW req \in Requests, SendRequest(c, req)
      PROVE  HistoryType'
  <2>1. Append(sent[c], req) \in Seq(Requests)
    BY <1>1, AppendRow DEF HistoryType
  <2>2. Acknowledged \in SUBSET (Nat \ {0})
    BY <1>1, AcknowledgedType DEF ValueIds, TablesTypeOK
  <2>3. Append(floor[c], Acknowledged) \in Seq(SUBSET (Nat \ {0}))
    BY <1>1, <2>2, AppendRow DEF HistoryType
  <2> QED BY <1>1, <1>3, <2>1, <2>3 DEF SendRequest, HistoryType
<1>4. ASSUME NEW c \in Conns, WriteDone(c) PROVE HistoryType'
  <2>1. work[c] \in ResponseType
    BY <1>1, <1>4 DEF WriteDone, SessionsType, WorkFits
  <2>2. Append(replies[c], work[c]) \in Seq(ResponseType)
    BY <1>1, <2>1, AppendRow DEF HistoryType
  <2> QED BY <1>1, <1>4, <2>2 DEF WriteDone, HistoryType
<1>5. CASE Process
  BY <1>2, <1>5 DEF Process, Open, create_scheme, CreateStatement, Seed, Crash, Exit
<1>6. ASSUME NEW c \in Conns, Environment(c) PROVE HistoryType'
  BY <1>2, <1>3, <1>6 DEF Environment, Connect, Disconnect
<1>7. ASSUME NEW c \in Conns, Session(c) PROVE HistoryType'
  BY <1>2, <1>4, <1>7, AstrayKeeps
     DEF Session, Database, Accept, ReadMetaHeader, ReadHeader, HeaderReadFailed,
         BodyReadFailed, WriteFailed, DieInCompress, Exit,
         read_add_variable_request, read_save_value_request,
         read_get_values_request, read_get_variables_request
<1> QED BY <1>5, <1>6, <1>7 DEF Next

(* A table, once created, stays.                                           *)
LEMMA TablesStay == Statement => tables \subseteq tables'
BY DEF Statement, dbVars, CreateTable, InsertVariable, InsertValue

(* A session or a client does not touch the schema.                        *)
LEMMA RequestsKeepSchema ==
  ASSUME SessionsType, NEW c \in Conns, Environment(c) \/ Session(c)
  PROVE  UNCHANGED tables
<1>1. CASE Database(c) /\ ~DieInCompress(c)
  BY <1>1, DatabaseHandles, HandlesStatement
<1>2. CASE Astray(c)
  BY <1>2, AstrayStatement
<1> QED BY <1>1, <1>2
        DEF Environment, Connect, SendRequest, Disconnect, dbVars,
            Session, Accept, ReadMetaHeader, ReadHeader, HeaderReadFailed,
            BodyReadFailed, WriteDone, WriteFailed, DieInCompress

(* The first CREATE TABLE succeeds only in a file without tables.          *)
LEMMA ProcessSchema == IInv /\ Process => ProcessType' /\ SchemaInv'
<1> SUFFICES ASSUME IInv, Process PROVE ProcessType' /\ SchemaInv'
  OBVIOUS
<1>1. ProcessType /\ SchemaInv /\ tables \subseteq Tables
      /\ ("VARIABLE_VALUE" \in tables => "VARIABLE" \in tables)
  BY DEF IInv, TablesInv, TablesTypeOK, Integrity, RowsHaveTables
<1>2. CASE Open
  BY <1>1, <1>2 DEF Open, ProcessType, SchemaInv, dbVars
<1>3. CASE CreateStatement("VARIABLE", "opened", "half")
  <2>1. CASE CreateTable("VARIABLE") /\ proc = "opened" /\ proc' = "half" /\ UNCHANGED <<boots, found>>
    BY <1>1, <2>1 DEF CreateTable, CanCreate, ProcessType, SchemaInv, Tables
  <2>2. CASE Exit("down")
    BY <1>1, <2>2 DEF Exit, ProcessType, SchemaInv
  <2> QED BY <1>3, <2>1, <2>2 DEF CreateStatement
<1>4. CASE CreateStatement("VARIABLE_VALUE", "half", "schema")
  <2>1. CASE CreateTable("VARIABLE_VALUE") /\ proc = "half" /\ proc' = "schema" /\ UNCHANGED <<boots, found>>
    BY <1>1, <2>1 DEF CreateTable, CanCreate, ProcessType, SchemaInv, Tables
  <2>2. CASE Exit("down")
    BY <1>1, <2>2 DEF Exit, ProcessType, SchemaInv
  <2> QED BY <1>4, <2>1, <2>2 DEF CreateStatement
<1>5. CASE Seed
  <2>1. tables' = tables
    BY <1>5 DEF Seed, add_variable, InsertVariable, dbVars
  <2> QED BY <1>1, <1>5, <2>1 DEF Seed, ProcessType, SchemaInv
<1>6. CASE Crash
  BY <1>1, <1>6 DEF Crash, Exit, ProcessType, SchemaInv
<1> QED BY <1>2, <1>3, <1>4, <1>5, <1>6 DEF Process, create_scheme

LEMMA SchemaIsInv == IInv /\ Next => ProcessType' /\ SchemaInv'
<1> SUFFICES ASSUME IInv, Next PROVE ProcessType' /\ SchemaInv'
  OBVIOUS
<1>1. ASSUME NEW c \in Conns, Environment(c) \/ Session(c)
      PROVE  ProcessType' /\ SchemaInv'
  <2>1. tables' = tables
    BY <1>1, RequestsKeepSchema DEF IInv
  <2>2. UNCHANGED ProcessVars \/ Exit("down") \/ Exit("overrun")
    BY <1>1, EnvironmentKeeps, SessionKeeps
  <2> QED BY <2>1, <2>2 DEF IInv, ProcessType, SchemaInv, ProcessVars, Exit
<1> QED BY <1>1, ProcessSchema DEF Next

LEMMA NextIInv == IInv /\ [Next]_vars => IInv'
<1>1. IInv /\ Next => IInv'
  BY NextIsStatement, StatementInv, SessionsInv, HistoryInv, SchemaIsInv DEF IInv
<1>2. IInv /\ UNCHANGED vars => IInv'
  <2> SUFFICES ASSUME IInv, UNCHANGED vars PROVE IInv'
    OBVIOUS
  <2>1. TablesInv'
    BY TablesUnchanged DEF IInv, vars
  <2>2. SessionsType' /\ HistoryType' /\ ProcessType' /\ SchemaInv'
    BY DEF IInv, vars, dbVars, sessionVars, history, SessionsType, HistoryType,
           ProcessType, SchemaInv
  <2> QED BY <2>1, <2>2 DEF IInv
<1> QED BY <1>1, <1>2

LEMMA Invariant == Spec => []IInv
BY InitIInv, NextIInv, PTL DEF Spec
-----------------------------------------------------------------------------
(* The state of the server keeps its type: a session works on a request    *)
(* only while it reads a body, on a response only while it writes.         *)
THEOREM TypeCorrect == Spec => []TypeOK
<1>1. IInv => TypeOK
  BY TypesOfIInv
<1> QED BY <1>1, Invariant, PTL

(* Names stay unique and every reading resolves to its variable, whatever  *)
(* sessions, crashes and restarts do and though SQLite does not enforce    *)
(* the foreign key.                                                        *)
THEOREM IntegrityKept == Spec => []IntegrityHolds
<1>1. IInv => IntegrityHolds
  BY DEF IInv, TablesInv, IntegrityHolds
<1> QED BY <1>1, Invariant, PTL

(* A process that serves has found no table in the file: no server ever    *)
(* comes back to a database in which it has created anything.              *)
THEOREM OnlyNewFileServed == Spec => []ServesOnlyNewFile
<1>1. IInv => ServesOnlyNewFile
  BY DEF IInv, SchemaInv, ServesOnlyNewFile
<1> QED BY <1>1, Invariant, PTL
-----------------------------------------------------------------------------
(* A session that has ended has seen the end of its connection.            *)
GoneInv == \A c \in Conns : phase[c] = "gone" => conn[c] \in {"fin", "rst"}

LEMMA SessionGone ==
  ASSUME TablesInv, TablesInv', SessionsType, GoneInv, NEW c \in Conns, Session(c)
  PROVE  GoneInv'
<1>1. CASE \E how : Exit(how)
  BY <1>1 DEF Exit, GoneInv, SessionsType
<1>2. ASSUME NEW p, NEW w, Step(c, p, w), conn' = conn,
             p = "gone" => conn[c] \in {"fin", "rst"}
      PROVE  GoneInv'
  BY <1>2 DEF Step, GoneInv, SessionsType
<1>3. CASE Accept(c)
  BY <1>2, <1>3 DEF Accept
<1>4. CASE BodyReadFailed(c)
  BY <1>2, <1>4 DEF BodyReadFailed, ReadError
<1>5. CASE ReadHeader(c)
  <2>1. PICK w : Step(c, "body", w) \/ Step(c, "write", w)
    BY <1>5 DEF ReadHeader, Respond
  <2> QED BY <1>2, <1>5, <2>1 DEF ReadHeader
<1>6. CASE Astray(c)
  <2>1. CASE Exit("down") \/ Exit("overrun")
    BY <1>1, <2>1
  <2>2. CASE ~(Exit("down") \/ Exit("overrun"))
    BY <1>2, <1>6, <2>2, AstrayEffects DEF AstrayEffect
  <2> QED BY <2>1, <2>2
<1>7. CASE ReadMetaHeader(c) \/ WriteDone(c)
  BY <1>2, <1>7 DEF ReadMetaHeader, WriteDone
<1>8. CASE HeaderReadFailed(c) \/ WriteFailed(c)
  BY <1>2, <1>8 DEF HeaderReadFailed, WriteFailed, Respond
<1>9. CASE Database(c)
  <2>1. CASE DieInCompress(c)
    BY <1>1, <2>1 DEF DieInCompress
  <2>2. CASE ~DieInCompress(c)
    <3>1. conn' = conn /\ \E w : Step(c, "write", w)
      BY <1>9, <2>2, DatabaseHandles, HandlesStatement
    <3> QED BY <1>2, <3>1
  <2> QED BY <2>1, <2>2
<1> QED BY <1>3, <1>4, <1>5, <1>6, <1>7, <1>8, <1>9 DEF Session

LEMMA NextGone == IInv /\ GoneInv /\ [Next]_vars => GoneInv'
<1> SUFFICES ASSUME IInv, GoneInv, [Next]_vars PROVE GoneInv'
  OBVIOUS
<1>1. SessionsType
  BY DEF IInv
<1>2. CASE UNCHANGED sessionVars
  BY <1>2 DEF sessionVars, GoneInv
<1>3. CASE Process
  <2>1. CASE Exit("down")
    BY <1>1, <2>1 DEF Exit, GoneInv, SessionsType
  <2> QED BY <1>2, <1>3, <2>1
          DEF Process, Open, create_scheme, CreateStatement, Seed, Crash
<1>4. ASSUME NEW c \in Conns, Environment(c) PROVE GoneInv'
  BY <1>1, <1>4 DEF Environment, Connect, SendRequest, Disconnect, GoneInv, SessionsType
<1>5. ASSUME NEW c \in Conns, Session(c) PROVE GoneInv'
  <2>1. TablesInv /\ TablesInv'
    BY <1>5, NextIsStatement, StatementInv DEF IInv, Next
  <2> QED BY <1>1, <1>5, <2>1, SessionGone
<1> QED BY <1>2, <1>3, <1>4, <1>5 DEF Next, vars

(* Whatever fails, a session goes on as long as its client is connected.   *)
THEOREM SessionsKept == Spec => []KeptWhileConnected
<1>1. Init => GoneInv
  BY DEF Init, GoneInv
<1>2. GoneInv => KeptWhileConnected
  BY DEF GoneInv, KeptWhileConnected
<1> QED BY <1>1, <1>2, NextGone, Invariant, PTL DEF Spec
-----------------------------------------------------------------------------
(* A multiple of m with a quotient above m lies above the square of m.     *)
LEMMA AboveSquare ==
  ASSUME NEW n \in Nat, NEW m \in Nat \ {0}, n % m = 0, n \div m > m
  PROVE  n > m * m /\ m * m \in Nat
<1> DEFINE q == n \div m
<1>1. q \in Nat /\ n = (m * q) + (n % m)
  BY SMTT(30)
<1> HIDE DEF q
<1>2. PICK d \in Nat : q = (m + 1) + d
  <2>1. q > m
    BY DEF q
  <2>2. q - (m + 1) \in Nat /\ q = (m + 1) + (q - (m + 1))
    BY <1>1, <2>1
  <2> QED BY <2>2
<1>3. m * ((m + 1) + d) = ((m * m) + m) + (m * d)
  BY <1>2, SMT
<1>4. m * d \in Nat /\ m * m \in Nat
  BY <1>2, SMT
<1> QED BY <1>1, <1>2, <1>3, <1>4

(* A history that makes compress leave its input is longer than the square *)
(* of the limit.                                                           *)
LEMMA OverrunIsLong ==
  ASSUME variable_value \in Seq(ValueRow), NEW rows \in SUBSET ValueIds,
         CompressOverruns(rows, max_values_ammount)
  PROVE  Len(variable_value) > max_values_ammount * max_values_ammount
<1> DEFINE n == Cardinality(rows)
           m == max_values_ammount
<1>1. Len(variable_value) \in Nat /\ m \in Nat \ {0}
  BY ServerAssumption
<1>2. n \in Nat /\ n <= Len(variable_value)
  <2>1. IsFiniteSet(ValueIds) /\ Cardinality(ValueIds) = Len(variable_value)
    <3> DEFINE l == Len(variable_value)
    <3>1. l \in Nat /\ ValueIds = 1..l
      BY <1>1 DEF ValueIds
    <3> HIDE DEF l
    <3>2. IsFiniteSet(1..l) /\ Cardinality(1..l) = IF 1 > l THEN 0 ELSE l - 1 + 1
      BY <3>1, FS_Interval
    <3>3. Cardinality(1..l) = l
      BY <3>1, <3>2
    <3> QED BY <3>1, <3>2, <3>3 DEF l
  <2>2. IsFiniteSet(rows) /\ Cardinality(rows) <= Cardinality(ValueIds)
    BY <2>1, FS_Subset
  <2> QED BY <2>1, <2>2, FS_CardinalityType
<1> HIDE DEF n, m
<1>3. n % m = 0 /\ n \div m > m
  BY DEF CompressOverruns, Overruns, n, m
<1>4. n > m * m /\ m * m \in Nat
  BY <1>1, <1>2, <1>3, AboveSquare
<1>5. Len(variable_value) > m * m
  BY <1>1, <1>2, <1>4
<1> QED BY <1>5 DEF m

LEMMA LogGrows ==
  ASSUME TablesInv, Statement
  PROVE  Len(variable_value) \in Nat /\ Len(variable_value') \in Nat
         /\ Len(variable_value) <= Len(variable_value')
<1>1. variable_value \in Seq(ValueRow) /\ Len(variable_value) \in Nat
  BY DEF TablesInv, TablesTypeOK
<1>2. CASE UNCHANGED variable_value
  BY <1>1, <1>2
<1>3. ASSUME NEW n \in Names, NEW v \in Vals, NEW now \in Clock, InsertValue(n, v, now)
      PROVE  Len(variable_value') = Len(variable_value) + 1
  <2>1. ValueRowOf(n, v, now) \in ValueRow
    BY <1>3, ValueRowType DEF InsertValue
  <2> QED BY <1>1, <1>3, <2>1, AppendRow DEF InsertValue
<1>4. UNCHANGED variable_value \/ Len(variable_value') = Len(variable_value) + 1
  BY <1>3 DEF Statement, dbVars, CreateTable, InsertVariable
<1> QED BY <1>1, <1>2, <1>4

LEMMA NextDies == IInv /\ DiesOnlyOnLongHistory /\ [Next]_vars => DiesOnlyOnLongHistory'
<1> SUFFICES ASSUME IInv, DiesOnlyOnLongHistory, [Next]_vars,
                    proc' = "overrun"
             PROVE  Len(variable_value') > max_values_ammount * max_values_ammount
  BY DEF DiesOnlyOnLongHistory
<1>1. /\ Len(variable_value) \in Nat /\ Len(variable_value') \in Nat
      /\ Len(variable_value) <= Len(variable_value')
  <2>1. Statement
    BY NextIsStatement DEF vars, Statement
  <2> QED BY <2>1, LogGrows DEF IInv
<1>2. max_values_ammount * max_values_ammount \in Nat
  BY ServerAssumption, SMT
<1>3. CASE proc = "overrun"
  BY <1>1, <1>2, <1>3 DEF DiesOnlyOnLongHistory
<1>4. CASE proc # "overrun"
  <2>1. ~Process
    BY <1>4 DEF Process, Open, create_scheme, CreateStatement, Seed, Crash, Exit
  <2>2. PICK c \in Conns : Environment(c) \/ Session(c)
    BY <1>4, <2>1 DEF Next, vars
  <2>3. ~(UNCHANGED ProcessVars)
    BY <1>4 DEF ProcessVars
  <2>4. CompressOverruns(Selected(work[c]), max_values_ammount)
    <3>1. ~Exit("down")
      BY DEF Exit
    <3>2. CASE Astray(c)
      BY <2>3, <3>1, <3>2
         DEF Astray, ReadMisaligned, ReadAstrayBody, AstrayReadFailed, DieAstray, ProcessVars
    <3>3. CASE ~Astray(c)
      BY <2>2, <2>3, <3>3
         DEF Environment, Connect, SendRequest, Disconnect, ProcessVars,
             Session, Database, Accept, ReadMetaHeader, ReadHeader, HeaderReadFailed,
             BodyReadFailed, WriteDone, WriteFailed, DieInCompress,
             read_add_variable_request, read_save_value_request,
             read_get_values_request, read_get_variables_request
    <3> QED BY <3>2, <3>3
  <2>5. Len(variable_value) > max_values_ammount * max_values_ammount
    BY <2>4, OverrunIsLong, SelectedRows DEF IInv, TablesInv, TablesTypeOK
  <2> QED BY <1>1, <1>2, <2>5
<1> QED BY <1>3, <1>4

(* The process dies in compress only once more than the square of          *)
(* max_values_ammount readings are stored.                                 *)
THEOREM DiesOnLongHistory == Spec => []DiesOnlyOnLongHistory
<1>1. Init => DiesOnlyOnLongHistory
  BY DEF Init, DiesOnlyOnLongHistory
<1> QED BY <1>1, NextDies, Invariant, PTL DEF Spec
-----------------------------------------------------------------------------
(* A session that writes to a reset connection can only fail and write     *)
(* again.                                                                  *)
Spins(c) == phase[c] = "write" /\ conn[c] = "rst" /\ Listening' => phase'[c] = "write"

LEMMA StepSpins ==
  ASSUME TablesInv, TablesInv', SessionsType,
         NEW c \in Conns, NEW d \in Conns, Session(d), Listening',
         phase[c] = "write", conn[c] = "rst"
  PROVE  phase'[c] = "write"
<1>1. ~Exit("overrun") /\ ~Exit("down")
  BY DEF Exit, Listening
<1>2. CASE d # c
  <2>1. ASSUME NEW p, NEW w, Step(d, p, w) PROVE phase'[c] = "write"
    BY <1>2, <2>1 DEF Step, SessionsType
  <2>2. CASE ReadHeader(d)
    BY <2>1, <2>2, Zenon DEF ReadHeader, Respond
  <2>3. CASE Accept(d) \/ ReadMetaHeader(d) \/ HeaderReadFailed(d)
             \/ BodyReadFailed(d) \/ WriteDone(d) \/ WriteFailed(d)
    BY <2>1, <2>3, Zenon DEF Accept, ReadMetaHeader, HeaderReadFailed,
       BodyReadFailed, WriteDone, WriteFailed, Respond
  <2>4. CASE Database(d)
    <3>1. ~DieInCompress(d)
      BY <1>1 DEF DieInCompress
    <3>2. \E w : Step(d, "write", w)
      BY <2>4, <3>1, DatabaseHandles, HandlesStatement
    <3> QED BY <2>1, <3>2
  <2>5. CASE Astray(d)
    <3>1. \E p, w : Step(d, p, w)
      BY <1>1, <2>5, AstrayEffects DEF AstrayEffect
    <3> QED BY <2>1, <3>1
  <2> QED BY <2>2, <2>3, <2>4, <2>5 DEF Session
<1>3. CASE d = c
  <2>1. WriteFailed(c)
    BY <1>3 DEF Session, Database, Accept, ReadMetaHeader, ReadHeader, HeaderReadFailed,
       Astray, ReadMisaligned, Misplaced, ReadAstrayBody, AstrayReadFailed, DieAstray,
       BodyReadFailed, WriteDone, DieInCompress, BodyRead,
       read_add_variable_request, read_save_value_request,
       read_get_values_request, read_get_variables_request
  <2> QED BY <2>1 DEF WriteFailed, Respond, Step, SessionsType
<1> QED BY <1>2, <1>3

LEMMA NextSpins == IInv /\ Next => \A c \in Conns : Spins(c)
<1> SUFFICES ASSUME IInv, Next, NEW c \in Conns, Listening',
                    phase[c] = "write", conn[c] = "rst"
             PROVE  phase'[c] = "write"
  BY DEF Spins
<1>1. ~Exit("down")
  BY DEF Exit, Listening
<1>2. CASE Process
  BY <1>1, <1>2 DEF Process, Open, create_scheme, CreateStatement, Seed, Crash, sessionVars
<1>3. ASSUME NEW d \in Conns, Environment(d) PROVE phase'[c] = "write"
  BY <1>3 DEF Environment, Connect, SendRequest, Disconnect
<1>4. ASSUME NEW d \in Conns, Session(d) PROVE phase'[c] = "write"
  <2>1. TablesInv /\ TablesInv'
    BY <1>4, NextIsStatement, StatementInv DEF IInv, Next
  <2> QED BY <1>4, <2>1, StepSpins DEF IInv
<1> QED BY <1>2, <1>3, <1>4 DEF Next

(* A session that was writing when its connection was reset is never       *)
(* released while the process runs.                                        *)
THEOREM SpinsForEver == Spec => ResetSessionSpins
<1>1. IInv /\ [Next]_vars => [\A c \in Conns : Spins(c)]_vars
  BY NextSpins
<1>2. (\A c \in Conns : Spins(c))
      => \A c \in Conns : /\ phase[c] = "write"
                          /\ conn[c] = "rst"
                          /\ Listening'
                          => phase'[c] = "write"
  BY DEF Spins
<1> QED BY <1>1, <1>2, Invariant, PTL DEF Spec, ResetSessionSpins
-----------------------------------------------------------------------------
(* The refinement: registry and readings as ReadingLog sees them.          *)
Registry == [id \in VariableIds |-> variable[id].name]
Readings == [id \in ValueIds |->
               [name |-> NameOf(id),
                val |-> variable_value[id].val,
                timestamp |-> variable_value[id].timestamp]]

(* A function on 1..l with one point more is the sequence appended to.     *)
LEMMA AppendIsExtension ==
  ASSUME NEW l \in Nat, NEW f, NEW g, NEW e,
         f = [k \in 1..l |-> f[k]],
         g = [k \in 1..(l + 1) |-> IF k = l + 1 THEN e ELSE f[k]]
  PROVE  g = Append(f, e)
<1> DEFINE S == {f[k] : k \in 1..l} \cup {e}
<1>1. (\A k \in 1..l : f[k] \in S) /\ e \in S
  OBVIOUS
<1> HIDE DEF S
<1>2. f \in Seq(S) /\ Len(f) = l
  BY <1>1
<1>3. \A k \in 1..(l + 1) : (k = l + 1 \/ k \in 1..l) /\ ~(k = l + 1 /\ k \in 1..l)
  OBVIOUS
<1>4. \A k \in 1..(l + 1) : g[k] = (IF k = l + 1 THEN e ELSE f[k])
  BY Zenon
<1>5. g = [k \in 1..(l + 1) |-> g[k]] /\ \A k \in 1..(l + 1) : g[k] \in S
  <2>1. \A k \in 1..(l + 1) : g[k] \in S
    BY <1>1, <1>3, <1>4, Zenon
  <2>2. g = [k \in 1..(l + 1) |-> g[k]]
    BY Zenon
  <2> QED BY <2>1, <2>2
<1>6. g \in Seq(S) /\ Len(g) = l + 1
  BY <1>5
<1>7. /\ Append(f, e) \in Seq(S)
      /\ Len(Append(f, e)) = l + 1
      /\ \A k \in 1..l : Append(f, e)[k] = f[k]
      /\ Append(f, e)[l + 1] = e
  BY <1>1, <1>2, AppendRow
<1>8. \A k \in 1..(l + 1) : g[k] = Append(f, e)[k]
  BY <1>3, <1>4, <1>7, Zenon
<1> QED BY <1>6, <1>7, <1>8, SeqEqual

LEMMA RegisterStep ==
  ASSUME TablesInv, NEW n \in Names, NEW color \in Colors, InsertVariable(n, color)
  PROVE  Log!Register(n)
<1> DEFINE l == Len(variable)
           row == [name |-> n, color |-> color]
<1>1. /\ variable \in Seq(VariableRow) /\ row \in VariableRow
      /\ variable' = Append(variable, row) /\ variable_value' = variable_value
      /\ \A id \in VariableIds : variable[id].name # n
  BY DEF TablesInv, TablesTypeOK, InsertVariable, CanInsertVariable, SelectId, VariableRow
<1>2. /\ l \in Nat /\ Len(variable') = l + 1
      /\ \A k \in 1..l : variable'[k] = variable[k]
      /\ variable'[l + 1] = row
  BY <1>1, AppendRow
<1>3. VariableIds = 1..l /\ VariableIds' = 1..(l + 1) /\ ValueIds' = ValueIds
  BY <1>1, <1>2 DEF VariableIds, ValueIds
<1> HIDE DEF l
<1>4. Registry' = Append(Registry, n)
  <2>1. Registry = [k \in 1..l |-> Registry[k]]
    BY <1>3 DEF Registry
  <2>2. row.name = n
    OBVIOUS
  <2> HIDE DEF row
  <2>3. Registry' = [k \in 1..(l + 1) |-> IF k = l + 1 THEN n ELSE Registry[k]]
    BY <1>2, <1>3, <2>2 DEF Registry
  <2> QED BY <1>2, <2>1, <2>3, AppendIsExtension
<1>5. Readings' = Readings
  <2>1. \A id \in ValueIds : variable_value[id].variable_id \in 1..l
    BY <1>3 DEF TablesInv, Integrity, ReferencesResolve
  <2> QED BY <1>1, <1>2, <1>3, <2>1 DEF Readings, NameOf
<1>6. ~Log!Registered(n)
  <2>1. Len(Registry) = l /\ \A k \in 1..l : Registry[k] # n
    BY <1>1, <1>2, <1>3 DEF Registry
  <2> QED BY <2>1 DEF Log!Registered, Registry
<1> QED BY <1>4, <1>5, <1>6 DEF Log!Register, Registry, Readings

LEMMA LogStep ==
  ASSUME TablesInv, NEW n \in Names, NEW v \in Vals, NEW now \in Clock,
         InsertValue(n, v, now)
  PROVE  Log!Log(n, ToSixDecimals(v), now) /\ ToSixDecimals(v) \in StoredVals
<1> DEFINE l == Len(variable_value)
           row == ValueRowOf(n, v, now)
           e == [name |-> n, val |-> ToSixDecimals(v), timestamp |-> now]
<1>1. /\ variable_value \in Seq(ValueRow) /\ row \in ValueRow
      /\ variable_value' = Append(variable_value, row) /\ variable' = variable
      /\ row.variable_id \in SelectId(n)
      /\ row.val = ToSixDecimals(v) /\ row.timestamp = now
  BY ValueRowType DEF TablesInv, TablesTypeOK, InsertValue, ValueRowOf
<1>2. variable[row.variable_id].name = n /\ row.variable_id \in VariableIds
  BY <1>1 DEF SelectId
<1> HIDE DEF row
<1>3. /\ l \in Nat /\ Len(variable_value') = l + 1
      /\ \A k \in 1..l : variable_value'[k] = variable_value[k]
      /\ variable_value'[l + 1] = row
  BY <1>1, AppendRow
<1>4. ValueIds = 1..l /\ ValueIds' = 1..(l + 1) /\ VariableIds' = VariableIds
  BY <1>1, <1>3 DEF VariableIds, ValueIds
<1> HIDE DEF l
<1>5. Readings' = Append(Readings, e)
  <2>1. Readings = [k \in 1..l |-> Readings[k]]
    BY <1>4 DEF Readings
  <2>2. Readings' = [k \in 1..(l + 1) |-> IF k = l + 1 THEN e ELSE Readings[k]]
    BY <1>1, <1>2, <1>3, <1>4 DEF Readings, NameOf
  <2> HIDE DEF e
  <2> QED BY <1>3, <2>1, <2>2, AppendIsExtension
<1>6. Registry' = Registry
  BY <1>1, <1>4 DEF Registry
<1>7. Log!Registered(n)
  <2>1. Len(variable) \in Nat
    BY DEF TablesInv, TablesTypeOK
  <2>2. Len(Registry) = Len(variable) /\ Registry[row.variable_id] = n
    BY <1>2, <2>1 DEF Registry, VariableIds
  <2> QED BY <1>2, <2>2 DEF Log!Registered, Registry, VariableIds
<1>8. ToSixDecimals(v) \in StoredVals
  BY DEF InsertValue, CanInsertValue, StoredVals
<1> QED BY <1>5, <1>6, <1>7, <1>8 DEF Log!Log, Registry, Readings

LEMMA StatementLogs == TablesInv /\ Statement => [Log!Next]_(Log!vars)
<1> SUFFICES ASSUME TablesInv, Statement PROVE [Log!Next]_(Log!vars)
  OBVIOUS
<1>1. CASE UNCHANGED <<variable, variable_value>>
  BY <1>1 DEF Log!vars, VariableIds, ValueIds, NameOf
<1>2. ASSUME NEW n \in Names, NEW color \in Colors, InsertVariable(n, color)
      PROVE  Log!Next
  BY <1>2, RegisterStep DEF Log!Next
<1>3. ASSUME NEW n \in Names, NEW v \in Vals, NEW now \in Clock, InsertValue(n, v, now)
      PROVE  Log!Next
  BY <1>3, LogStep DEF Log!Next
<1> QED BY <1>1, <1>2, <1>3 DEF Statement, CreateTable, dbVars

(* The tables are a ReadingLog: variables and readings are only ever       *)
(* added, a name once, a reading under a registered name it keeps.         *)
THEOREM Refinement == Spec => ImplementsLog
<1>1. Init => Log!Init
  BY DEF Init, EmptyDatabase, Log!Init, VariableIds, ValueIds
<1>2. IInv /\ [Next]_vars => [Log!Next]_(Log!vars)
  <2> SUFFICES ASSUME IInv, [Next]_vars PROVE Statement
    BY StatementLogs DEF IInv
  <2> QED BY NextIsStatement DEF vars, Statement
<1> QED BY <1>1, <1>2, Invariant, PTL DEF Spec, ImplementsLog, Log!Spec
=============================================================================
