-------------------------------- MODULE Hmi --------------------------------
(***************************************************************************)
(* The human-machine interface: VarsModel and VarValuesModel above their   *)
(* common Client, the two QML pages that show them, and the user.          *)
(*                                                                         *)
(* The other end of the client's connection is Service, which the database *)
(* server implements; other clients register variables and record readings *)
(* at any time.  All of the interface runs on one thread: while            *)
(* onReadyRead waits for a body neither the user nor the timer is served,  *)
(* and the slots a signal is connected to run before onReadyRead returns.  *)
(***************************************************************************)
EXTENDS Wire, Integers, FiniteSets, FiniteSetsExt

CONSTANTS
  hmi,           \* the connection of this interface
  Names, Color, Reals, Rounded, Times, SeedName, Limit, MayFail, \* of Service
  Responses, MhSize, HSize, StatusSize, EntrySize,               \* of Client
  MaxResponses, MaxUnsent,
  Placeholders,  \* the entries "aa 0" to "aa 999" VarsModel starts with
  Garbled,       \* what a made-up signal makes a model show
  Zoomed,        \* an axis as ChartView.zoomIn leaves it
  One,           \* the number 1 in the unit of Reals
  MaxAsks,       \* bound: requests of the user
  MaxRefreshes,  \* bound: refreshes when signals are made up
  MaxReadings    \* bound: readings in the log

VARIABLES
  socket, out, ends, arrived, taken, phase, signals, cut, joined,  \* Client
  registry, readings, link, asked, owed, held, replies,            \* Service
  m_vars,        \* VarsModel: the variables listed
  m_vals,        \* VarValuesModel: the readings, by their place in the log
  m_wTimer,      \* the single-shot timer of VarValuesModel
  xTime, yAxis   \* the axes of Historic.qml, as <<min, max>>

Cl == INSTANCE Client WITH responses <- replies[hmi]
Svc == INSTANCE Service WITH Conns <- {hmi}

(* What the timer asks for.                                                *)
FirstValues == GetValues(SeedName, Absent, Absent)

(* All the models ask for, and what the service may answer to it.          *)
Asks ==
  {AddVar(n, Color) : n \in Names} \cup {GetVariables, FirstValues}
  \cup {GetValues(SeedName, start, end) : start, end \in Times}

Answers ==
  {Failed} \cup {OkTo("REQUEST_ADD_VAR", id) : id \in 1..Cardinality(Names)}
  \cup {ValuesResponse(rows, Svc!AtMost(Limit, Cardinality(rows))) :
           rows \in SUBSET (1..MaxReadings)}
  \cup {VariablesResponse(1..n, n) : n \in 0..Cardinality(Names)}

ASSUME HmiAssumption ==
  /\ Cl!ClientAssumption
  /\ IsFiniteSet(Names) /\ SeedName \in Names
  /\ Reals \subseteq Int /\ Times \subseteq Nat /\ Absent \notin Times
  /\ Absent # "REQUEST_ADD_VAR"
  /\ One \in Nat \ {0} /\ Limit \in Nat /\ MaxReadings \in Nat
  /\ Asks \subseteq Requests
  /\ Answers \subseteq Responses
  /\ Placeholders \notin Seq(Names) /\ Garbled \notin Seq(Names)
  /\ Zoomed \notin Nat \X Nat

socketVars == <<socket, out>>
readVars == <<arrived, taken, phase, signals, cut, joined>>
linkVars == <<link, asked, owed, held, replies>>
serviceVars == <<registry, readings, linkVars>>
axes == <<xTime, yAxis>>
models == <<m_vars, m_vals, axes>>
vars == <<socketVars, ends, readVars, serviceVars, models, m_wTimer>>

Init ==
  /\ Svc!Init
  /\ Cl!Init
  /\ m_vars = Placeholders
  /\ m_vals = {}
  /\ m_wTimer = "running"
  /\ xTime = <<0, 0>>
  /\ yAxis = <<-10 * One, 10 * One>>
-----------------------------------------------------------------------------
(* The slots.                                                              *)

(* Mutant: the list is not cleared before it is filled.                    *)
variablesReceived_NotCleared(res) ==
  /\ m_vars' = (IF m_vars \in {Placeholders, Garbled} THEN <<>> ELSE m_vars)
                 \o [id \in 1..res.size |-> registry[id]]
  /\ UNCHANGED <<out, m_vals, axes>>

(* VarsModel clears its list and fills it with the variables received.     *)
variablesReceived(res) ==
  /\ m_vars' = [id \in 1..res.size |-> registry[id]]
  /\ UNCHANGED <<out, m_vals, axes>>

(* Mutant: the list is not refreshed after an addition.                    *)
responseReceived_NoRefresh(res) == UNCHANGED <<out, models>>

(* VarsModel asks for the list again when a variable was added.            *)
responseReceived(res) ==
  /\ IF res.status = "OK" /\ res.prev_msg = "REQUEST_ADD_VAR"
     THEN Cl!request_vars ELSE UNCHANGED out
  /\ UNCHANGED models

(* Mutant: the time axis is not widened for readings of one moment.        *)
onValsChanged_NotWidened(vals) ==
  LET shown == {0} \cup {readings[id].val : id \in vals}
  IN  /\ xTime' = <<readings[Min(vals)].timestamp, readings[Max(vals)].timestamp>>
      /\ yAxis' = <<Min(shown), IF Min(shown) = Max(shown)
                                THEN Max(shown) + One ELSE Max(shown)>>

(* Historic.qml takes the first and the last reading for the ends of the   *)
(* time axis, and 0 into the range of the other.                           *)
onValsChanged(vals) ==
  LET first == readings[Min(vals)].timestamp
      last == readings[Max(vals)].timestamp
      shown == {0} \cup {readings[id].val : id \in vals}
  IN  /\ xTime' = <<first, IF last = first THEN last + 1000 ELSE last>>
      /\ yAxis' = <<Min(shown), IF Min(shown) = Max(shown)
                                THEN Max(shown) + One ELSE Max(shown)>>

(* Mutant: the new readings are added to the old ones.                     *)
valuesReceived_NotCleared(res) ==
  /\ m_vals' = res.rows \cup (IF m_vals = Garbled THEN {} ELSE m_vals)
  /\ onValsChanged(res.rows)
  /\ UNCHANGED <<out, m_vars>>

(* VarValuesModel replaces its readings; it tells Historic.qml when there  *)
(* are any, and the client signals no others.                              *)
valuesReceived(res) ==
  /\ m_vals' = res.rows
  /\ onValsChanged(res.rows)
  /\ UNCHANGED <<out, m_vars>>

Received(res) ==
  \/ res.msg_type = "RESPONSE_VARIABLES" /\ variablesReceived(res)
  \/ res.msg_type = "RESPONSE_FAILURE" /\ responseReceived(res)
  \/ res.msg_type = "RESPONSE_VALUES" /\ valuesReceived(res)

Issued == asked[hmi] \o out
Count(P(_)) == Cardinality({k \in DOMAIN Issued : P(Issued[k])})

(* A signal made up of what is no response may do what any signal does.    *)
Misled ==
  \/ m_vars' = Garbled /\ UNCHANGED <<out, m_vals, axes>>
  \/ /\ m_vals' = Garbled
     /\ xTime' = Garbled /\ yAxis' = Garbled
     /\ UNCHANGED <<out, m_vars>>
  \/ /\ Count(LAMBDA req : req = GetVariables) < MaxRefreshes
     /\ Cl!request_vars
     /\ UNCHANGED models
  \/ UNCHANGED <<out, models>>

Slots ==
  IF signals' = signals THEN UNCHANGED <<out, models>>
  ELSE LET k == signals'[Len(signals')]
       IN  IF k = 0 THEN Misled ELSE Received(replies[hmi][k])

Receive ==
  /\ UNCHANGED <<serviceVars, m_wTimer>>
  /\ Cl!Read
  /\ Slots
-----------------------------------------------------------------------------
(* The program and its user.  main calls connect before it starts the      *)
(* event loop that serves the user and the timer.                          *)

main ==
  /\ UNCHANGED <<serviceVars, models, m_wTimer>>
  /\ Cl!connect

Served ==
  /\ socket # "unconnected"
  /\ phase = "idle"
  /\ UNCHANGED <<serviceVars, m_vars, m_vals, socket, ends, readVars>>

UserMayAsk ==
  /\ Served
  /\ Count(LAMBDA req : req \notin {GetVariables, FirstValues}) < MaxAsks
  /\ UNCHANGED m_wTimer

(* The dialog of Variable.qml is accepted: the variable is pushed to the   *)
(* list, whose append function sends it to the server instead.             *)
onAccepted(n) == /\ UserMayAsk
                 /\ Cl!send_var(n, Color)
                 /\ UNCHANGED axes

(* A period is selected on the chart of Historic.qml.  The chart zooms in  *)
(* before the selection is mapped to times, so the period is asked for in  *)
(* the zoomed axes and need not be the one selected.                       *)
onSlectedChanged(start, end) ==
  /\ UserMayAsk
  /\ start <= end
  /\ xTime' = Zoomed /\ yAxis' = Zoomed
  /\ Cl!request_var_values_between(SeedName, start, end)

(* Mutant: the timer connects again where there is no connection.          *)
timeout_Reconnects ==
  /\ socket # "unconnected"
  /\ phase = "idle"
  /\ m_wTimer = "running"
  /\ m_wTimer' = "fired"
  /\ socket' = IF socket = "closed" THEN "connecting" ELSE socket
  /\ Cl!request_var_values(SeedName)
  /\ UNCHANGED <<serviceVars, models, ends, readVars>>

(* Mutant: the timer has the list of variables fetched, too.               *)
timeout_ListsVariables ==
  /\ Served
  /\ m_wTimer = "running"
  /\ m_wTimer' = "fired"
  /\ out' = IF socket = "closed" THEN out
            ELSE out \o <<GetVariables, FirstValues>>
  /\ UNCHANGED axes

(* Six seconds after the start, once, connected or not.                    *)
timeout ==
  /\ Served
  /\ m_wTimer = "running"
  /\ m_wTimer' = "fired"
  /\ Cl!request_var_values(SeedName)
  /\ UNCHANGED axes
-----------------------------------------------------------------------------
(* The network, the server and its other clients.                          *)

App == <<readVars, models, m_wTimer>>

Connected == Svc!Open(hmi) /\ Cl!Connected /\ UNCHANGED App

Refused ==
  /\ socket = "connecting"
  /\ UNCHANGED <<serviceVars, App>>
  /\ Cl!Closed

Lost == Svc!Break(hmi) /\ Cl!Closed /\ UNCHANGED App

Send ==
  /\ out # <<>>
  /\ Svc!Ask(hmi, Head(out))
  /\ Cl!Flush
  /\ UNCHANGED App

Execute == Svc!Execute(hmi) /\ UNCHANGED <<socketVars, ends, App>>

Deliver ==
  /\ Svc!Deliver(hmi)
  /\ Cl!Extend(held[hmi][1])
  /\ UNCHANGED <<socketVars, App>>

(* The server adds the seed variable; the requests of other clients are    *)
(* registrations and records.                                              *)
Others ==
  /\ \/ \E n \in Names : Svc!Log!Register(n)
     \/ /\ Len(readings) < MaxReadings
        /\ \E n \in Names, v \in Reals, t \in Times : Svc!Log!Log(n, v, t)
  /\ UNCHANGED <<linkVars, socketVars, ends, App>>

Environment == Connected \/ Refused \/ Lost \/ Send \/ Execute \/ Deliver \/ Others

Next ==
  \/ main
  \/ \E n \in Names : onAccepted(n)
  \/ \E start, end \in Times : onSlectedChanged(start, end)
  \/ timeout
  \/ Receive
  \/ Environment

Spec == Init /\ [][Next]_vars

(* The program starts and its event loop runs, a connection attempt ends,  *)
(* TCP delivers both ways, and the server answers.  Nothing is assumed of  *)
(* the user, of other clients and of the connection's life.                *)
Fairness ==
  /\ WF_vars(main)
  /\ WF_vars(timeout)
  /\ WF_vars(Receive)
  /\ WF_vars(Connected \/ Refused)
  /\ WF_vars(Send)
  /\ WF_vars(Execute)
  /\ WF_vars(Deliver)

FairSpec == Spec /\ Fairness
-----------------------------------------------------------------------------
Listed == IF m_vars \in {Placeholders, Garbled} THEN {}
          ELSE {m_vars[k] : k \in DOMAIN m_vars}

(* Types of the state of the models and of the client under them.          *)
TypeOK ==
  /\ Cl!TypeOK
  /\ m_vars \in {Placeholders, Garbled} \/ m_vars \in Seq(Names)
  /\ m_vals = Garbled \/ m_vals \subseteq DOMAIN readings
  /\ m_wTimer \in {"running", "fired"}
  /\ xTime \in {Zoomed, Garbled} \/ xTime \in Nat \X Nat
  /\ yAxis \in {Zoomed, Garbled} \/ yAxis \in Int \X Int

(* The requests whose answers the models were told of.                     *)
Told == {k \in DOMAIN replies[hmi] :
           \E j \in DOMAIN signals : signals[j] = k}

Added == {k \in Told : replies[hmi][k].prev_msg = "REQUEST_ADD_VAR"}

(* Nothing is on its way in either direction.                              *)
Quiet ==
  /\ socket = "connected"
  /\ phase = "idle"
  /\ out = <<>>
  /\ owed[hmi] = <<>>
  /\ held[hmi] = <<>>
  /\ taken = Cl!Written

(* Once nothing is on its way, the list has every variable the user was    *)
(* told has been added, unless the list could not be fetched after it:     *)
(* however additions, refreshes and their answers overlap.                 *)
ListComplete ==
  Quiet /\ ~cut =>
    \A k \in Added :
      \/ asked[hmi][k].name \in Listed
      \/ \E j \in DOMAIN replies[hmi] : /\ j > k
                                        /\ asked[hmi][j] = GetVariables
                                        /\ replies[hmi][j] = Failed

(* The list names each variable once and, after the placeholders, never    *)
(* loses one or changes its order: an older list never replaces a newer.   *)
ListOnlyGrows ==
  [][~cut' /\ m_vars # Placeholders =>
       /\ Cardinality(Listed') = Len(m_vars')
       /\ m_vars = SubSeq(m_vars', 1, Len(m_vars))]_vars

(* Whatever the server holds, the user sees placeholders until the server  *)
(* has accepted a variable of his.                                         *)
PlaceholdersUntilAddition ==
  ~cut /\ m_vars # Placeholders => Added # {}

(* The k-th request was made for a selection.                              *)
Selects(k) == /\ asked[hmi][k].msg_type = "REQUEST_GET_VALUES"
              /\ asked[hmi][k].start # Absent

(* Once nothing is on its way, the chart has the readings of the last      *)
(* period asked for that had any and could be fetched, and no other: an    *)
(* empty period leaves the one before it on the screen.  The chart is      *)
(* zoomed in only where a selection has not brought any readings.          *)
HistoricOfLastFilledPeriod ==
  Quiet /\ ~cut =>
    LET filled == {k \in DOMAIN replies[hmi] :
                     /\ replies[hmi][k].msg_type = "RESPONSE_VALUES"
                     /\ replies[hmi][k].size > 0}
        req == asked[hmi][Max(filled)]
    IN  IF filled = {} THEN m_vals = {}
        ELSE /\ m_vals = replies[hmi][Max(filled)].rows
             /\ m_vals \subseteq Svc!AskedFor(req)
             /\ xTime = Zoomed =>
                  \E k \in DOMAIN asked[hmi] : k > Max(filled) /\ Selects(k)

TimeOrdered(vals) ==
  \A j, k \in vals : j < k => readings[j].timestamp <= readings[k].timestamp

(* Until the user zooms in, the axes have a width and hold every point of  *)
(* the chart, as long as the server's clock did not step back between its  *)
(* readings.                                                               *)
AxesHoldPoints ==
  ~cut /\ m_vals # {} /\ xTime # Zoomed /\ TimeOrdered(m_vals) =>
    /\ xTime[1] < xTime[2]
    /\ yAxis[1] < yAxis[2]
    /\ \A id \in m_vals :
         /\ readings[id].timestamp \in xTime[1]..xTime[2]
         /\ yAxis[1] <= readings[id].val /\ readings[id].val <= yAxis[2]

(* A connection that was refused or has ended is never replaced: nothing   *)
(* the user or the timer asks for reaches the server, and the variables    *)
(* and readings shown never change again.                                  *)
ClosedForGood ==
  [][socket = "closed" =>
       /\ socket' = "closed"
       /\ UNCHANGED <<asked, m_vars, m_vals>>]_vars

(* Every request the interface issues comes back to its models, through    *)
(* server and client, unless the connection ends or a segment is cut or    *)
(* joins two responses.                                                    *)
AsksComeBack ==
  []<>(Cl!Handled = Len(Issued) \/ cut \/ joined \/ socket = "closed")
=============================================================================
