----------------------------- MODULE HmiProofs -----------------------------
(***************************************************************************)
(* Theorems about the interface, for any number of variables, readings,    *)
(* requests and responses, and segments that cut these anywhere.           *)
(***************************************************************************)
EXTENDS Hmi, FiniteSetTheorems, SequenceTheorems, WellFoundedInduction, TLAPS

CP == INSTANCE ClientProofs WITH responses <- replies[hmi]

(* The answers the service has given, the one on its way included.         *)
Given == replies[hmi] \o held[hmi]

IsList(res) == res.msg_type = "RESPONSE_VARIABLES"
IsValues(res) == res.msg_type = "RESPONSE_VALUES"
IsSelection(req) == req.msg_type = "REQUEST_GET_VALUES" /\ req.start # Absent
IsAddition(res) == res.prev_msg = "REQUEST_ADD_VAR"

Reading == [name : Names, val : Reals, timestamp : Times]

(* Types of the service's state; a name is registered once.                *)
ServiceTypes ==
  /\ registry \in Seq(Names)
  /\ \A i, j \in DOMAIN registry : registry[i] = registry[j] => i = j
  /\ readings \in Seq(Reading)
  /\ Len(readings) <= MaxReadings
  /\ link \in [{hmi} -> {"none", "open", "broken"}]
  /\ asked \in [{hmi} -> Seq(Asks)]
  /\ owed \in [{hmi} -> Seq(Asks)]
  /\ held \in [{hmi} -> Seq(Responses)]
  /\ replies \in [{hmi} -> Seq(Responses)]
  /\ out \in Seq(Asks)

(* The two ends of the connection agree, and an open one owes an answer to *)
(* each request that has none.                                             *)
LinkInv ==
  /\ socket = "connected" <=> link[hmi] = "open"
  /\ socket \in {"unconnected", "connecting"} => link[hmi] = "none"
  /\ link[hmi] = "none" => asked[hmi] = <<>> /\ owed[hmi] = <<>>
  /\ link[hmi] # "open" => held[hmi] = <<>>
  /\ Len(held[hmi]) <= 1
  /\ Len(Given) <= Len(asked[hmi])
  /\ link[hmi] = "open" =>
       /\ Len(asked[hmi]) = Len(Given) + Len(owed[hmi])
       /\ \A i \in DOMAIN owed[hmi] : owed[hmi][i] = asked[hmi][Len(Given) + i]

(* What the service may have answered to a request by now.                 *)
Fits(req, res) ==
  \/ res = Failed
  \/ /\ req.msg_type = "REQUEST_ADD_VAR"
     /\ \E id \in DOMAIN registry : /\ registry[id] = req.name
                                    /\ res = OkTo("REQUEST_ADD_VAR", id)
  \/ /\ req.msg_type = "REQUEST_GET_VALUES"
     /\ \E rows \in SUBSET Svc!AskedFor(req) :
          res = ValuesResponse(rows, Svc!AtMost(Limit, Cardinality(rows)))
  \/ /\ req = GetVariables
     /\ \E n \in 0..Len(registry) : res = VariablesResponse(1..n, n)

FitsInv == \A k \in DOMAIN Given : Fits(asked[hmi][k], Given[k])

(* A list has all variables of the lists and additions answered before it. *)
OrderInv ==
  \A j, k \in DOMAIN Given : j < k /\ IsList(Given[k]) =>
    /\ IsList(Given[j]) => Given[j].size <= Given[k].size
    /\ IsAddition(Given[j]) => Given[j].rows \subseteq 1..Given[k].size

ServiceInv == ServiceTypes /\ LinkInv /\ FitsInv /\ OrderInv

ToldLists == {k \in Told : IsList(replies[hmi][k])}
ToldValues == {k \in Told : IsValues(replies[hmi][k])}

(* The list shown is the last one told, the chart that of the last         *)
(* readings told.                                                          *)
FirstOf(n) == [id \in 1..n |-> registry[id]]

ListInv ==
  \/ ToldLists = {} /\ m_vars = Placeholders
  \/ \E k \in ToldLists : /\ \A j \in ToldLists : j <= k
                          /\ m_vars = FirstOf(replies[hmi][k].size)

ChartInv ==
  \/ ToldValues = {} /\ m_vals = {}
  \/ \E k \in ToldValues : /\ \A j \in ToldValues : j <= k
                           /\ m_vals = replies[hmi][k].rows

XRange(vals) ==
  LET first == readings[Min(vals)].timestamp
      last == readings[Max(vals)].timestamp
  IN  <<first, IF last = first THEN last + 1000 ELSE last>>

YRange(vals) ==
  LET shown == {0} \cup {readings[id].val : id \in vals}
  IN  <<Min(shown), IF Min(shown) = Max(shown) THEN Max(shown) + One
                                               ELSE Max(shown)>>

AxesInv ==
  m_vals # {} /\ xTime # Zoomed => xTime = XRange(m_vals) /\ yAxis = YRange(m_vals)

(* The chart is zoomed in for a selection that is still to be answered.    *)
ZoomInv ==
  socket # "closed" /\ xTime = Zoomed =>
    \E k \in DOMAIN Issued : IsSelection(Issued[k]) /\ \A j \in ToldValues : j < k

(* An addition the user was told of is followed by a refresh, and there is *)
(* no refresh without one.                                                 *)
RefreshInv ==
  socket # "closed" =>
    \A k \in Added : \E j \in DOMAIN Issued : j > k /\ Issued[j] = GetVariables

Refreshing == \E k \in DOMAIN Issued : Issued[k] = GetVariables
CauseInv == Refreshing => Added # {}

WindowInv ==
  ~cut => ListInv /\ ChartInv /\ AxesInv /\ ZoomInv /\ RefreshInv /\ CauseInv

IInv == TypeOK /\ CP!IInv /\ ServiceInv /\ WindowInv
-----------------------------------------------------------------------------
(* The client below the models is the client ClientProofs speaks of.       *)

LEMMA ClientHere == CP!ClientAssumption
BY HmiAssumption DEF Cl!ClientAssumption, CP!ClientAssumption

LEMMA SameState ==
  /\ Cl!TypeOK <=> CP!TypeOK
  /\ Cl!Written = CP!Written
  /\ Cl!Handled = CP!Handled
BY DEF Cl!TypeOK, CP!TypeOK, Cl!Written, CP!Written, Cl!Handled, CP!Handled,
       Cl!At, CP!At, Cl!Cardinality, CP!Cardinality

LEMMA SameInit == Cl!Init => CP!Init
BY DEF Cl!Init, CP!Init

LEMMA SameRead == Cl!Read => CP!Read
BY DEF Cl!Read, CP!Read, Cl!onReadyRead, CP!onReadyRead, Cl!ReadBody, CP!ReadBody,
       Cl!ReadAstray, CP!ReadAstray, Cl!GiveUp, CP!GiveUp, Cl!Segment, CP!Segment,
       Cl!Leave, CP!Leave, Cl!WholeFrame, CP!WholeFrame, Cl!PartOfBody, CP!PartOfBody,
       Cl!ShortRead, CP!ShortRead, Cl!Misread, CP!Misread, Cl!Tears, CP!Tears,
       Cl!InStep, CP!InStep, Cl!Boundaries, CP!Boundaries, Cl!At, CP!At,
       Cl!Start, CP!Start, Cl!Upfront, CP!Upfront, Cl!FrameSize, CP!FrameSize,
       Cl!BodySize, CP!BodySize, Cl!Silent, CP!Silent, Cl!Written, CP!Written,
       Cl!streamVars, CP!streamVars, Cl!Cardinality, CP!Cardinality

LEMMA SameExtend == ASSUME NEW res, Cl!Extend(res) PROVE CP!Extend(res)
BY DEF Cl!Extend, CP!Extend, Cl!Written, CP!Written, Cl!FrameSize, CP!FrameSize,
       Cl!BodySize, CP!BodySize

(* As long as nothing was cut, the models were told of the answers that    *)
(* are not silent among those the client has handled.                      *)
LEMMA ToldIs ==
  ASSUME CP!IInv, ~cut
  PROVE  /\ Told = {k \in 1..CP!Handled : ~CP!Silent(replies[hmi][k])}
         /\ \A i \in DOMAIN signals : signals[i] \in Told
         /\ CP!Handled \in 0..Len(replies[hmi])
<1>1. /\ CP!TypeOK
      /\ CP!Range(signals) = {k \in 1..CP!Handled : ~CP!Silent(replies[hmi][k])}
  BY DEF CP!IInv, CP!SignalsFollowResponses
<1>2. CP!Handled \in 0..Len(replies[hmi])
  <2>1. taken \in Nat /\ Len(ends) = Len(replies[hmi]) /\ Len(ends) \in Nat
    <3>1. CP!Written \in Nat
      BY <1>1, CP!WrittenIsLast, ClientHere DEF CP!IInv
    <3> QED BY <1>1, <3>1 DEF CP!TypeOK
  <2>2. CP!At(taken) \in 1..(Len(ends) + 1)
    BY <1>1, <2>1, CP!AtType, ClientHere
  <2> QED BY <2>1, <2>2 DEF CP!Handled
<1>3. DOMAIN replies[hmi] = 1..Len(replies[hmi]) /\ Len(replies[hmi]) \in Nat
  BY <1>1 DEF CP!TypeOK
<1>4. \A k : (\E j \in DOMAIN signals : signals[j] = k) <=> k \in CP!Range(signals)
  BY DEF CP!Range
<1>5. \A k \in CP!Range(signals) : k \in DOMAIN replies[hmi]
  BY <1>1, <1>2, <1>3
<1>6. Told = CP!Range(signals)
  BY <1>4, <1>5 DEF Told
<1>7. \A i \in DOMAIN signals : signals[i] \in Told
  BY <1>6 DEF CP!Range
<1> QED BY <1>1, <1>2, <1>6, <1>7

SignalsTold == \A i \in DOMAIN signals : signals[i] \in Told

LEMMA SignalsAreTold == CP!IInv /\ ~cut => SignalsTold
BY ToldIs DEF SignalsTold

(* What reading tells the models.                                          *)
LEMMA ReadTells ==
  ASSUME CP!IInv, CP!IInv', Cl!Read, replies' = replies, ~cut'
  PROVE  /\ ~cut
         /\ \/ signals' = signals /\ Told' = Told
            \/ \E k \in DOMAIN replies[hmi] :
                 /\ signals' = Append(signals, k)
                 /\ signals'[Len(signals')] = k
                 /\ signals' # signals
                 /\ ~CP!Silent(replies[hmi][k])
                 /\ Told' = Told \cup {k}
                 /\ \A j \in Told : j < k
<1>1. CP!Read
  BY SameRead
<1>2. /\ ~cut
      /\ \/ signals' = signals
         \/ \E k \in {0} \cup DOMAIN ends : /\ signals' = Append(signals, k)
                                            /\ k # 0 => ~CP!Silent(replies[hmi][k])
  BY <1>1, CP!ReadSignals, ClientHere
<1>3. CASE signals' = signals
  <2>1. Told' = Told
    BY <1>3 DEF Told
  <2> QED BY <1>2, <1>3, <2>1
<1>4. ASSUME NEW k \in {0} \cup DOMAIN ends, signals' = Append(signals, k),
             k # 0 => ~CP!Silent(replies[hmi][k])
      PROVE  /\ k \in DOMAIN replies[hmi]
             /\ signals'[Len(signals')] = k
             /\ signals' # signals
             /\ ~CP!Silent(replies[hmi][k])
             /\ Told' = Told \cup {k}
             /\ \A j \in Told : j < k
  <2>1. /\ signals \in Seq(Nat) /\ ends \in Seq(Nat) /\ replies[hmi] \in Seq(Responses)
        /\ Len(ends) = Len(replies[hmi])
    BY DEF CP!IInv, CP!TypeOK
  <2> DEFINE l == Len(signals)
  <2>2. k \in Nat /\ l \in Nat
    BY <2>1
  <2>3. /\ DOMAIN signals = 1..l /\ DOMAIN signals' = 1..(l + 1)
        /\ Len(signals') = l + 1 /\ signals'[l + 1] = k
        /\ \A i \in 1..l : signals'[i] = signals[i]
    BY <1>4, <2>1, <2>2
  <2> HIDE DEF l
  <2>4. signals'[Len(signals')] = k /\ signals' # signals
    <3>1. l + 1 \in 1..(l + 1) /\ l + 1 \notin 1..l
      BY <2>2
    <3> QED BY <2>3, <3>1
  <2>5. /\ \A i \in DOMAIN signals' : signals'[i] \in Told'
        /\ \A i, j \in DOMAIN signals' : i < j => signals'[i] < signals'[j]
    <3>1. (CP!IInv /\ ~cut => SignalsTold)'
      BY SignalsAreTold, PTL
    <3>2. \A i, j \in DOMAIN signals' : i < j => signals'[i] < signals'[j]
      BY DEF CP!IInv, CP!SignalsFollowResponses
    <3> QED BY <3>1, <3>2 DEF SignalsTold
  <2>6. k \in Told'
    <3>1. l + 1 \in 1..(l + 1)
      BY <2>2
    <3> QED BY <2>3, <2>5, <3>1
  <2>7. k \in DOMAIN replies[hmi]
    BY <2>6 DEF Told
  <2>8. k # 0
    BY <2>1, <2>7
  <2>9. Told' = Told \cup {k}
    <3>1. DOMAIN signals' = DOMAIN signals \cup {l + 1}
      BY <2>2, <2>3
    <3>2. \A j : (\E i \in DOMAIN signals' : signals'[i] = j)
                   <=> j = k \/ \E i \in DOMAIN signals : signals[i] = j
      BY <2>3, <3>1
    <3> QED BY <2>7, <3>2 DEF Told
  <2>10. \A j \in Told : j < k
    <3> TAKE j \in Told
    <3>1. PICK i \in 1..l : signals[i] = j
      BY <2>3 DEF Told
    <3>2. i < l + 1 /\ i \in 1..(l + 1) /\ l + 1 \in 1..(l + 1)
      BY <2>2
    <3> QED BY <2>3, <2>5, <3>1, <3>2
  <2> QED BY <1>4, <2>4, <2>7, <2>8, <2>9, <2>10
<1> QED BY <1>2, <1>3, <1>4
-----------------------------------------------------------------------------
(* What an answer that fits says.                                          *)

LEMMA FitsSays ==
  ASSUME NEW req, NEW res, Fits(req, res)
  PROVE  /\ res.msg_type \in {"RESPONSE_FAILURE", "RESPONSE_VALUES", "RESPONSE_VARIABLES"}
         /\ IsAddition(res) =>
              /\ res.msg_type = "RESPONSE_FAILURE" /\ res.status = "OK"
              /\ \E id \in DOMAIN registry : registry[id] = req.name /\ res.rows = {id}
         /\ IsValues(res) =>
              /\ req.msg_type = "REQUEST_GET_VALUES"
              /\ res.rows \subseteq Svc!AskedFor(req)
              /\ res.size = Svc!AtMost(Limit, Cardinality(res.rows))
         /\ IsList(res) =>
              /\ req = GetVariables /\ res.size \in 0..Len(registry)
         /\ res.status = "OK" /\ res.prev_msg = "REQUEST_ADD_VAR" <=> IsAddition(res)
<1>1. CASE res = Failed
  BY <1>1, HmiAssumption DEF Failed, Response, IsAddition, IsValues, IsList
<1>2. CASE \E id \in DOMAIN registry : /\ registry[id] = req.name
                                       /\ res = OkTo("REQUEST_ADD_VAR", id)
  BY <1>2 DEF OkTo, Response, IsAddition, IsValues, IsList
<1>3. CASE /\ req.msg_type = "REQUEST_GET_VALUES"
           /\ \E rows \in SUBSET Svc!AskedFor(req) :
                res = ValuesResponse(rows, Svc!AtMost(Limit, Cardinality(rows)))
  <2>1. PICK rows \in SUBSET Svc!AskedFor(req) :
               res = ValuesResponse(rows, Svc!AtMost(Limit, Cardinality(rows)))
    BY <1>3
  <2>2. /\ res.msg_type = "RESPONSE_VALUES" /\ res.rows = rows /\ res.prev_msg = Absent
        /\ res.size = Svc!AtMost(Limit, Cardinality(rows))
    BY <2>1 DEF ValuesResponse, Response
  <2> QED BY <1>3, <2>2, HmiAssumption DEF IsAddition, IsValues, IsList
<1>4. CASE /\ req = GetVariables
           /\ \E n \in 0..Len(registry) : res = VariablesResponse(1..n, n)
  BY <1>4, HmiAssumption DEF VariablesResponse, Response, IsAddition, IsValues, IsList
<1> QED BY <1>1, <1>2, <1>3, <1>4 DEF Fits

(* One sequence grows into another.                                        *)
Grows(s, t) == /\ Len(s) <= Len(t)
               /\ \A k \in 1..Len(s) : t[k] = s[k]

LEMMA GrowsOver ==
  ASSUME NEW S, NEW s \in Seq(S), NEW t \in Seq(S), Grows(s, t)
  PROVE  DOMAIN s \subseteq DOMAIN t /\ \A k \in DOMAIN s : t[k] = s[k]
BY DEF Grows

(* An answer that fits now fits for ever.                                  *)
LEMMA FitsStays ==
  ASSUME NEW req, NEW res, Fits(req, res),
         registry \in Seq(Names), registry' \in Seq(Names), Grows(registry, registry'),
         readings \in Seq(Reading), readings' \in Seq(Reading), Grows(readings, readings')
  PROVE  Fits(req, res)'
<1>1. DOMAIN registry \subseteq DOMAIN registry' /\ \A k \in DOMAIN registry : registry'[k] = registry[k]
  BY DEF Grows
<1>2. DOMAIN readings \subseteq DOMAIN readings' /\ \A k \in DOMAIN readings : readings'[k] = readings[k]
  BY GrowsOver
<1>3. Svc!AskedFor(req) \subseteq Svc!AskedFor(req)'
  BY <1>2 DEF Svc!AskedFor, Svc!InPeriod
<1>4. 0..Len(registry) \subseteq 0..Len(registry')
  BY DEF Grows
<1>5. CASE res = Failed
  BY <1>5 DEF Fits
<1>6. CASE /\ req.msg_type = "REQUEST_ADD_VAR"
           /\ \E id \in DOMAIN registry : /\ registry[id] = req.name
                                          /\ res = OkTo("REQUEST_ADD_VAR", id)
  BY <1>1, <1>6 DEF Fits
<1>7. CASE /\ req.msg_type = "REQUEST_GET_VALUES"
           /\ \E rows \in SUBSET Svc!AskedFor(req) :
                res = ValuesResponse(rows, Svc!AtMost(Limit, Cardinality(rows)))
  <2>1. PICK rows \in SUBSET Svc!AskedFor(req) :
               res = ValuesResponse(rows, Svc!AtMost(Limit, Cardinality(rows)))
    BY <1>7
  <2>2. rows \in SUBSET (Svc!AskedFor(req)')
    BY <1>3
  <2> QED BY <1>7, <2>1, <2>2 DEF Fits
<1>8. CASE /\ req = GetVariables
           /\ \E n \in 0..Len(registry) : res = VariablesResponse(1..n, n)
  BY <1>4, <1>8 DEF Fits
<1> QED BY <1>5, <1>6, <1>7, <1>8 DEF Fits
-----------------------------------------------------------------------------
(* The service's steps.                                                    *)

LEMMA GrowsSelf ==
  ASSUME NEW S, NEW s \in Seq(S)
  PROVE  Grows(s, s)
BY DEF Grows

LEMMA GrowsByOne ==
  ASSUME NEW S, NEW s \in Seq(S), NEW e \in S
  PROVE  Grows(s, Append(s, e)) /\ Append(s, e) \in Seq(S)
BY DEF Grows

LEMMA Concat ==
  ASSUME NEW S, NEW s \in Seq(S), NEW t \in Seq(S)
  PROVE  /\ s \o t \in Seq(S)
         /\ Len(s \o t) = Len(s) + Len(t)
         /\ Grows(s, s \o t)
         /\ \A k \in 1..Len(t) : (s \o t)[Len(s) + k] = t[k]
         /\ t = <<>> => s \o t = s
<1>1. /\ Len(s) \in Nat /\ Len(t) \in Nat
      /\ s \o t \in Seq(S) /\ Len(s \o t) = Len(s) + Len(t)
  BY ConcatProperties
<1>2. \A k \in 1..(Len(s) + Len(t)) : (s \o t)[k] = IF k <= Len(s) THEN s[k] ELSE t[k - Len(s)]
  BY ConcatProperties
<1>3. Grows(s, s \o t)
  BY <1>1, <1>2 DEF Grows
<1>4. \A k \in 1..Len(t) : (s \o t)[Len(s) + k] = t[k]
  BY <1>1, <1>2
<1> QED BY <1>1, <1>3, <1>4, ConcatEmptySeq

LEMMA GivenIs ==
  ASSUME ServiceTypes
  PROVE  /\ Given \in Seq(Responses)
         /\ Len(Given) = Len(replies[hmi]) + Len(held[hmi])
         /\ Grows(replies[hmi], Given)
         /\ held[hmi] = <<>> => Given = replies[hmi]
<1>1. replies[hmi] \in Seq(Responses) /\ held[hmi] \in Seq(Responses)
  BY DEF ServiceTypes
<1> QED BY <1>1, Concat DEF Given

LEMMA GivenType == ServiceTypes => Given \in Seq(Responses)
BY GivenIs

(* What is registered, logged, asked and answered only grows.              *)
Onwards ==
  /\ Grows(registry, registry')
  /\ Grows(readings, readings')
  /\ Grows(asked[hmi], asked'[hmi])
  /\ Grows(replies[hmi], replies'[hmi])

(* No answer is added, but one that was on its way may be lost.            *)
LEMMA GivenKept ==
  ASSUME ServiceInv, ServiceTypes', Onwards, Grows(Given', Given)
  PROVE  FitsInv' /\ OrderInv'
<1>1. /\ Given \in Seq(Responses) /\ Given' \in Seq(Responses)
      /\ asked[hmi] \in Seq(Asks) /\ asked'[hmi] \in Seq(Asks)
      /\ registry \in Seq(Names) /\ registry' \in Seq(Names)
      /\ readings \in Seq(Reading) /\ readings' \in Seq(Reading)
  <2>1. (ServiceTypes => Given \in Seq(Responses))'
    BY GivenType, PTL
  <2>2. Given \in Seq(Responses)
    BY GivenIs DEF ServiceInv
  <2> QED BY <2>1, <2>2 DEF ServiceInv, ServiceTypes
<1>2. \A k \in DOMAIN Given' : k \in DOMAIN Given /\ Given'[k] = Given[k]
  BY <1>1, GrowsOver
<1>3. \A k \in DOMAIN Given : k \in DOMAIN asked[hmi] /\ asked'[hmi][k] = asked[hmi][k]
  <2>1. Len(Given) <= Len(asked[hmi])
    BY DEF ServiceInv, LinkInv
  <2>2. DOMAIN Given \subseteq DOMAIN asked[hmi]
    BY <1>1, <2>1
  <2> QED BY <1>1, <2>2, GrowsOver DEF Onwards
<1>4. FitsInv'
  <2> SUFFICES ASSUME NEW k \in DOMAIN Given'
               PROVE  Fits(asked[hmi][k], Given[k])'
    BY DEF FitsInv
  <2> DEFINE req == asked[hmi][k]
             res == Given[k]
  <2>1. k \in DOMAIN Given /\ Given'[k] = res /\ asked'[hmi][k] = req
    BY <1>2, <1>3
  <2>2. Fits(req, res)
    BY <2>1 DEF ServiceInv, FitsInv
  <2> HIDE DEF req, res
  <2>3. \A rq, rs : Fits(rq, rs) => Fits(rq, rs)'
    BY <1>1, FitsStays DEF Onwards
  <2> QED BY <2>1, <2>2, <2>3
<1>5. OrderInv'
  BY <1>2 DEF ServiceInv, OrderInv
<1> QED BY <1>4, <1>5

(* An answer is added to a request that had none.                          *)
LEMMA GivenMore ==
  ASSUME ServiceInv, ServiceTypes', Onwards, NEW res \in Responses,
         Given' = Append(Given, res), NEW q \in Asks,
         q = asked'[hmi][Len(Given) + 1], Fits(q, res)',
         IsList(res) => res.size = Len(registry)
  PROVE  FitsInv' /\ OrderInv'
<1> DEFINE l == Len(Given)
<1>1. /\ Given \in Seq(Responses) /\ l \in Nat
      /\ asked[hmi] \in Seq(Asks) /\ asked'[hmi] \in Seq(Asks)
      /\ registry \in Seq(Names) /\ registry' \in Seq(Names)
      /\ readings \in Seq(Reading) /\ readings' \in Seq(Reading)
  BY GivenIs DEF ServiceInv, ServiceTypes
<1>2. /\ DOMAIN Given = 1..l /\ DOMAIN Given' = 1..(l + 1)
      /\ Given'[l + 1] = res
      /\ \A k \in 1..l : Given'[k] = Given[k]
  BY <1>1
<1>3. \A k \in DOMAIN Given : k \in DOMAIN asked[hmi] /\ asked'[hmi][k] = asked[hmi][k]
  <2>1. Len(Given) <= Len(asked[hmi])
    BY DEF ServiceInv, LinkInv
  <2>2. DOMAIN Given \subseteq DOMAIN asked[hmi]
    BY <1>1, <2>1
  <2> QED BY <1>1, <2>2, GrowsOver DEF Onwards
<1>4. FitsInv'
  <2> SUFFICES ASSUME NEW k \in DOMAIN Given'
               PROVE  Fits(asked[hmi][k], Given[k])'
    BY DEF FitsInv
  <2>1. CASE k = l + 1
    <3>1. Given'[k] = res /\ asked'[hmi][k] = q
      BY <1>2, <2>1
    <3> QED BY <3>1
  <2>2. CASE k \in 1..l
    <3> DEFINE req == asked[hmi][k]
               rs == Given[k]
    <3>1. Given'[k] = rs /\ asked'[hmi][k] = req
      BY <1>2, <1>3, <2>2
    <3>2. Fits(req, rs)
      BY <1>2, <2>2 DEF ServiceInv, FitsInv
    <3> HIDE DEF req, rs
    <3>3. \A rq, r : Fits(rq, r) => Fits(rq, r)'
      BY <1>1, FitsStays DEF Onwards
    <3> QED BY <3>1, <3>2, <3>3
  <2> QED BY <1>1, <1>2, <2>1, <2>2
<1>5. ASSUME NEW j \in 1..l, IsList(res)
      PROVE  /\ IsList(Given[j]) => Given[j].size <= res.size
             /\ IsAddition(Given[j]) => Given[j].rows \subseteq 1..res.size
  <2>1. Fits(asked[hmi][j], Given[j])
    BY <1>2 DEF ServiceInv, FitsInv
  <2>2. /\ IsAddition(Given[j]) => \E id \in DOMAIN registry : Given[j].rows = {id}
        /\ IsList(Given[j]) => Given[j].size \in 0..Len(registry)
    BY <2>1, FitsSays
  <2>3. DOMAIN registry = 1..Len(registry) /\ Len(registry) \in Nat
    BY <1>1
  <2> QED BY <1>5, <2>2, <2>3
<1>6. OrderInv'
  <2> SUFFICES ASSUME NEW j \in 1..(l + 1), NEW k \in 1..(l + 1), j < k, IsList(Given'[k])
               PROVE  /\ IsList(Given'[j]) => Given'[j].size <= Given'[k].size
                      /\ IsAddition(Given'[j]) => Given'[j].rows \subseteq 1..Given'[k].size
    BY <1>2 DEF OrderInv, IsList, IsAddition
  <2>0. l \in Nat
    BY <1>1
  <2> HIDE DEF l
  <2>1. j \in 1..l /\ (k \in 1..l \/ k = l + 1)
    BY <2>0
  <2>2. CASE k \in 1..l
    BY <1>2, <2>1, <2>2 DEF ServiceInv, OrderInv
  <2>3. CASE k = l + 1
    BY <1>2, <1>5, <2>1, <2>3
  <2> QED BY <2>1, <2>2, <2>3
<1> QED BY <1>4, <1>6

LEMMA CountTo ==
  ASSUME NEW n \in Nat
  PROVE  IsFiniteSet(1..n) /\ Cardinality(1..n) = n
<1>1. IsFiniteSet(1..n) /\ Cardinality(1..n) = IF 1 > n THEN 0 ELSE n - 1 + 1
  BY FS_Interval
<1> QED BY <1>1

(* A sequence that names nothing twice.                                    *)
LEMMA DistinctCount ==
  ASSUME NEW n \in Nat, NEW R, NEW s \in [1..n -> R],
         \A i, j \in 1..n : s[i] = s[j] => i = j,
         \A y \in R : \E k \in 1..n : s[k] = y
  PROVE  Cardinality(R) = n
<1>1. s \in Injection(1..n, R) /\ s \in Surjection(1..n, R)
  BY DEF Injection, Surjection, IsInjective
<1> QED BY <1>1, CountTo, FS_Surjection

LEMMA NamesLimitRegistry ==
  ASSUME NEW s \in Seq(Names), \A i, j \in DOMAIN s : s[i] = s[j] => i = j
  PROVE  Len(s) \in 0..Cardinality(Names)
<1> DEFINE n == Len(s)
<1>1. n \in Nat /\ s \in [1..n -> Names]
  OBVIOUS
<1>2. s \in Injection(1..n, Names)
  BY <1>1 DEF Injection, IsInjective
<1>3. IsFiniteSet(Names)
  BY HmiAssumption
<1> HIDE DEF n
<1>4. IsFiniteSet(1..n) /\ Cardinality(1..n) = n
  BY <1>1, CountTo
<1>5. Cardinality(1..n) <= Cardinality(Names) /\ Cardinality(Names) \in Nat
  BY <1>2, <1>3, FS_Injection, FS_CardinalityType
<1> QED BY <1>1, <1>4, <1>5 DEF n

LEMMA AsksAre ==
  ASSUME NEW req \in Asks
  PROVE  \/ req.msg_type = "REQUEST_ADD_VAR" /\ req.name \in Names /\ req # GetVariables
         \/ req.msg_type = "REQUEST_GET_VALUES" /\ req # GetVariables
         \/ req.msg_type = "REQUEST_GET_VARIABLES" /\ req = GetVariables
<1>1. SeedName \in Names
  BY HmiAssumption
<1>2. GetVariables.msg_type = "REQUEST_GET_VARIABLES"
  BY DEF GetVariables
<1>3. ASSUME NEW n, NEW c
      PROVE  AddVar(n, c).msg_type = "REQUEST_ADD_VAR" /\ AddVar(n, c).name = n
  BY DEF AddVar
<1>4. ASSUME NEW n, NEW s, NEW e
      PROVE  GetValues(n, s, e).msg_type = "REQUEST_GET_VALUES"
  BY DEF GetValues
<1>5. \/ \E n \in Names : req = AddVar(n, Color)
      \/ req = GetVariables
      \/ \E n, s, e : req = GetValues(n, s, e)
  BY DEF Asks, FirstValues
<1> QED BY <1>2, <1>3, <1>4, <1>5

(* A name that was not registered is added to those that were.             *)
LEMMA Registers ==
  ASSUME ServiceTypes, NEW n \in Names, Svc!Log!Register(n)
  PROVE  /\ registry' \in Seq(Names) /\ Grows(registry, registry')
         /\ \A i, j \in DOMAIN registry' : registry'[i] = registry'[j] => i = j
         /\ readings' = readings
         /\ Len(registry) + 1 \in DOMAIN registry' /\ registry'[Len(registry) + 1] = n
<1>1. /\ \A k \in 1..Len(registry) : registry[k] # n
      /\ registry' = Append(registry, n) /\ readings' = readings
  BY DEF Svc!Log!Register, Svc!Log!Registered
<1>2. registry \in Seq(Names) /\ \A i, j \in DOMAIN registry : registry[i] = registry[j] => i = j
  BY DEF ServiceTypes
<1> DEFINE l == Len(registry)
<1>3. /\ DOMAIN registry = 1..l /\ DOMAIN registry' = 1..(l + 1) /\ l \in Nat
      /\ registry'[l + 1] = n /\ \A k \in 1..l : registry'[k] = registry[k]
  BY <1>1, <1>2
<1>4. registry' \in Seq(Names) /\ Grows(registry, registry')
  BY <1>1, <1>2, GrowsByOne
<1>5. ASSUME NEW i \in DOMAIN registry', NEW j \in DOMAIN registry', registry'[i] = registry'[j]
      PROVE  i = j
  <2>1. (i \in 1..l \/ i = l + 1) /\ (j \in 1..l \/ j = l + 1)
    BY <1>3
  <2> QED BY <1>1, <1>2, <1>3, <1>5, <2>1
<1> QED BY <1>1, <1>3, <1>4, <1>5

LEMMA SameResponses ==
  /\ Svc!Failed = Failed
  /\ \A p, id : Svc!OkTo(p, id) = OkTo(p, id)
  /\ \A rows, size : Svc!ValuesResponse(rows, size) = ValuesResponse(rows, size)
  /\ \A rows, size : Svc!VariablesResponse(rows, size) = VariablesResponse(rows, size)
  /\ \A S : Svc!Cardinality(S) = Cardinality(S)
BY DEF Svc!Failed, Failed, Svc!OkTo, OkTo, Svc!ValuesResponse, ValuesResponse,
       Svc!VariablesResponse, VariablesResponse, Svc!Response, Response,
       Svc!Cardinality, Cardinality

LEMMA AnswerIs ==
  ASSUME NEW req, NEW res, Svc!Answer(req, res), req.msg_type # "REQUEST_SAVE_VALUE"
  PROVE  \/ res = Failed /\ UNCHANGED <<registry, readings>>
         \/ /\ req.msg_type = "REQUEST_ADD_VAR" /\ Svc!Log!Register(req.name)
            /\ res = OkTo("REQUEST_ADD_VAR", Len(registry) + 1)
         \/ /\ req.msg_type = "REQUEST_GET_VALUES" /\ UNCHANGED <<registry, readings>>
            /\ res = ValuesResponse(Svc!AskedFor(req),
                                    Svc!AtMost(Limit, Cardinality(Svc!AskedFor(req))))
         \/ /\ req.msg_type = "REQUEST_GET_VARIABLES" /\ UNCHANGED <<registry, readings>>
            /\ res = VariablesResponse(DOMAIN registry, Len(registry))
BY SameResponses
   DEF Svc!Answer, Svc!Register, Svc!Read, Svc!List, Svc!Rejected, Svc!logVars

LEMMA Answered ==
  ASSUME ServiceTypes, NEW req \in Asks, NEW res, Svc!Answer(req, res)
  PROVE  /\ registry' \in Seq(Names) /\ Grows(registry, registry')
         /\ \A i, j \in DOMAIN registry' : registry'[i] = registry'[j] => i = j
         /\ readings' = readings
         /\ Fits(req, res)'
         /\ res \in Responses
         /\ IsList(res) => res.size = Len(registry)
<1>1. /\ registry \in Seq(Names) /\ Grows(registry, registry)
      /\ \A i, j \in DOMAIN registry : registry[i] = registry[j] => i = j
      /\ readings \in Seq(Reading) /\ Len(readings) <= MaxReadings
  BY GrowsSelf DEF ServiceTypes
<1>2. Failed \in Responses /\ ~IsList(Failed)
  BY HmiAssumption DEF Answers, IsList, Failed, Response
<1>3. CASE res = Failed /\ UNCHANGED <<registry, readings>>
  <2>1. Fits(req, res)'
    BY <1>3 DEF Fits
  <2> QED BY <1>1, <1>2, <1>3, <2>1
<1>4. CASE /\ req.msg_type = "REQUEST_ADD_VAR" /\ Svc!Log!Register(req.name)
           /\ res = OkTo("REQUEST_ADD_VAR", Len(registry) + 1)
  <2>1. req.name \in Names
    BY <1>4, AsksAre DEF GetVariables
  <2>2. /\ registry' \in Seq(Names) /\ Grows(registry, registry')
        /\ \A i, j \in DOMAIN registry' : registry'[i] = registry'[j] => i = j
        /\ readings' = readings
        /\ Len(registry) + 1 \in DOMAIN registry' /\ registry'[Len(registry) + 1] = req.name
    BY <1>4, <2>1, Registers
  <2>3. Fits(req, res)'
    BY <1>4, <2>2 DEF Fits
  <2>4. res \in Responses
    <3>1. Len(registry) + 1 \in 1..Cardinality(Names)
      <4>1. Len(registry') \in 0..Cardinality(Names)
        BY <2>2, NamesLimitRegistry
      <4>2. Cardinality(Names) \in Nat
        BY HmiAssumption, FS_CardinalityType
      <4> QED BY <2>2, <4>1, <4>2
    <3> QED BY <1>4, <3>1, HmiAssumption DEF Answers
  <2>5. ~IsList(res)
    BY <1>4 DEF IsList, OkTo, Response
  <2> QED BY <2>2, <2>3, <2>4, <2>5
<1>5. CASE /\ req.msg_type = "REQUEST_GET_VALUES" /\ UNCHANGED <<registry, readings>>
           /\ res = ValuesResponse(Svc!AskedFor(req),
                                   Svc!AtMost(Limit, Cardinality(Svc!AskedFor(req))))
  <2> DEFINE rows == Svc!AskedFor(req)
  <2>1. rows' = rows
    BY <1>5 DEF Svc!AskedFor
  <2>2. res = ValuesResponse(rows, Svc!AtMost(Limit, Cardinality(rows)))
    BY <1>5
  <2>3. rows \in SUBSET (1..MaxReadings)
    <3>1. 1..Len(readings) \subseteq 1..MaxReadings
      BY <1>1, HmiAssumption
    <3> QED BY <1>1, <3>1 DEF Svc!AskedFor
  <2>4. Fits(req, res)'
    BY <1>5, <2>1, <2>2 DEF Fits
  <2> HIDE DEF rows
  <2>5. res \in Responses
    BY <2>2, <2>3, HmiAssumption DEF Answers
  <2>6. ~IsList(res)
    BY <2>2 DEF IsList, ValuesResponse, Response
  <2> QED BY <1>1, <1>5, <2>4, <2>5, <2>6
<1>6. CASE /\ req.msg_type = "REQUEST_GET_VARIABLES" /\ UNCHANGED <<registry, readings>>
           /\ res = VariablesResponse(DOMAIN registry, Len(registry))
  <2> DEFINE n == Len(registry)
  <2>1. n \in 0..Cardinality(Names) /\ res = VariablesResponse(1..n, n) /\ n \in Nat
    BY <1>1, <1>6, NamesLimitRegistry
  <2>2. req = GetVariables
    BY <1>6, AsksAre
  <2>3. n \in 0..Len(registry')
    BY <1>6, <2>1
  <2>4. Fits(req, res)'
    BY <2>1, <2>2, <2>3 DEF Fits
  <2>5. res \in Responses /\ res.size = n
    <3> HIDE DEF n
    <3> QED BY <2>1, HmiAssumption DEF Answers, VariablesResponse, Response
  <2> QED BY <1>1, <1>6, <2>4, <2>5
<1>7. req.msg_type # "REQUEST_SAVE_VALUE"
  BY AsksAre
<1> QED BY <1>3, <1>4, <1>5, <1>6, <1>7, AnswerIs

LEMMA OnwardsSame ==
  ASSUME ServiceTypes
  PROVE  /\ Grows(registry, registry) /\ Grows(readings, readings)
         /\ Grows(asked[hmi], asked[hmi]) /\ Grows(replies[hmi], replies[hmi])
         /\ Grows(Given, Given)
<1>1. /\ registry \in Seq(Names) /\ readings \in Seq(Reading)
      /\ asked[hmi] \in Seq(Asks) /\ replies[hmi] \in Seq(Responses)
      /\ Given \in Seq(Responses)
  BY GivenIs DEF ServiceTypes
<1> QED BY <1>1, GrowsSelf

(* The interface's own steps leave the service alone.                      *)
LEMMA ServiceKept ==
  ASSUME ServiceInv, UNCHANGED serviceVars, out' \in Seq(Asks),
         socket' = "connected" <=> socket = "connected",
         socket' \in {"unconnected", "connecting"} => socket \in {"unconnected", "connecting"}
  PROVE  ServiceInv' /\ Onwards
<1>1. UNCHANGED <<registry, readings, link, asked, owed, held, replies>>
  BY DEF serviceVars, linkVars
<1>2. Given' = Given
  BY <1>1 DEF Given
<1>3. ServiceTypes'
  BY <1>1 DEF ServiceInv, ServiceTypes
<1>4. LinkInv'
  BY <1>1, <1>2 DEF ServiceInv, LinkInv
<1>5. Onwards
  BY <1>1, OnwardsSame DEF ServiceInv, Onwards
<1>6. Grows(Given', Given)
  BY <1>2, OnwardsSame DEF ServiceInv
<1> QED BY <1>3, <1>4, <1>5, <1>6, GivenKept DEF ServiceInv

LEMMA ConnectedService ==
  ASSUME ServiceInv, Connected
  PROVE  ServiceInv' /\ Onwards
<1>1. /\ link[hmi] = "none" /\ link' = [link EXCEPT ![hmi] = "open"]
      /\ UNCHANGED <<registry, readings, asked, owed, held, replies, out>>
      /\ socket = "connecting" /\ socket' = "connected"
  BY DEF Connected, Svc!Open, Svc!logVars, Cl!Connected
<1>2. Given' = Given
  BY <1>1 DEF Given
<1>3. ServiceTypes' /\ link'[hmi] = "open"
  BY <1>1 DEF ServiceInv, ServiceTypes
<1>4. /\ asked[hmi] = <<>> /\ owed[hmi] = <<>> /\ held[hmi] = <<>>
      /\ Len(Given) <= Len(asked[hmi]) /\ Given \in Seq(Responses)
  BY <1>1, GivenIs DEF ServiceInv, LinkInv
<1>5. Len(Given) = 0 /\ DOMAIN owed[hmi] = {}
  BY <1>4
<1>6. LinkInv'
  BY <1>1, <1>2, <1>3, <1>4, <1>5 DEF LinkInv
<1>7. Onwards
  BY <1>1, OnwardsSame DEF ServiceInv, Onwards
<1>8. Grows(Given', Given)
  BY <1>2, OnwardsSame DEF ServiceInv
<1> QED BY <1>3, <1>6, <1>7, <1>8, GivenKept DEF ServiceInv

LEMMA SendService ==
  ASSUME ServiceInv, Send
  PROVE  ServiceInv' /\ Onwards
<1> DEFINE req == Head(out)
<1>1. /\ link[hmi] = "open" /\ out # <<>> /\ socket = "connected" /\ socket' = socket
      /\ asked' = [asked EXCEPT ![hmi] = Append(asked[hmi], req)]
      /\ owed' = [owed EXCEPT ![hmi] = Append(owed[hmi], req)]
      /\ out' = Tail(out)
      /\ UNCHANGED <<registry, readings, link, held, replies>>
  BY DEF Send, Svc!Ask, Svc!logVars, Cl!Flush
<1>2. ServiceTypes /\ LinkInv
  BY DEF ServiceInv
<1>3. /\ out \in Seq(Asks) /\ asked[hmi] \in Seq(Asks) /\ owed[hmi] \in Seq(Asks)
      /\ asked \in [{hmi} -> Seq(Asks)] /\ owed \in [{hmi} -> Seq(Asks)]
  BY <1>2 DEF ServiceTypes
<1>4. req \in Asks /\ out' \in Seq(Asks)
  BY <1>1, <1>3
<1> HIDE DEF req
<1>5. /\ asked'[hmi] = Append(asked[hmi], req) /\ owed'[hmi] = Append(owed[hmi], req)
      /\ asked'[hmi] \in Seq(Asks) /\ owed'[hmi] \in Seq(Asks)
      /\ Grows(asked[hmi], asked'[hmi])
  BY <1>1, <1>3, <1>4, GrowsByOne
<1>6. ServiceTypes'
  BY <1>1, <1>2, <1>3, <1>4, <1>5 DEF ServiceTypes
<1>7. Given' = Given /\ Given \in Seq(Responses)
  BY <1>1, <1>2, GivenIs DEF Given
<1>8. LinkInv'
  <2> DEFINE a == Len(asked[hmi])
             o == Len(owed[hmi])
             g == Len(Given)
  <2>1. /\ a = g + o /\ a \in Nat /\ o \in Nat /\ g \in Nat
        /\ \A i \in 1..o : owed[hmi][i] = asked[hmi][g + i]
    <3>1. /\ Len(asked[hmi]) = Len(Given) + Len(owed[hmi])
          /\ \A i \in DOMAIN owed[hmi] : owed[hmi][i] = asked[hmi][Len(Given) + i]
      BY <1>1, <1>2 DEF LinkInv
    <3>2. a \in Nat /\ o \in Nat /\ g \in Nat /\ DOMAIN owed[hmi] = 1..o
      BY <1>3, <1>7
    <3> QED BY <3>1, <3>2
  <2>2. /\ Len(asked'[hmi]) = a + 1 /\ Len(owed'[hmi]) = o + 1 /\ DOMAIN owed'[hmi] = 1..(o + 1)
        /\ asked'[hmi][a + 1] = req /\ owed'[hmi][o + 1] = req
        /\ \A i \in 1..a : asked'[hmi][i] = asked[hmi][i]
        /\ \A i \in 1..o : owed'[hmi][i] = owed[hmi][i]
    BY <1>3, <1>4, <1>5
  <2>3. held' = held /\ link' = link /\ Len(held[hmi]) <= 1 /\ socket' = socket
    BY <1>1, <1>2 DEF LinkInv
  <2> HIDE DEF a, o, g
  <2>4. \A i \in DOMAIN owed'[hmi] : owed'[hmi][i] = asked'[hmi][g + i]
    <3> TAKE i \in DOMAIN owed'[hmi]
    <3>1. CASE i \in 1..o
      <4>1. g + i \in 1..a
        BY <2>1, <3>1
      <4> QED BY <2>1, <2>2, <3>1, <4>1
    <3>2. CASE i = o + 1
      <4>1. g + i = a + 1
        BY <2>1, <3>2
      <4> QED BY <2>2, <3>2, <4>1
    <3> QED BY <2>1, <2>2, <3>1, <3>2
  <2>5. g <= a + 1 /\ a + 1 = g + (o + 1)
    BY <2>1
  <2> QED BY <1>1, <1>7, <2>2, <2>3, <2>4, <2>5 DEF LinkInv, g
<1>9. Onwards /\ Grows(Given', Given)
  BY <1>1, <1>2, <1>5, <1>7, OnwardsSame DEF Onwards
<1> QED BY <1>6, <1>8, <1>9, GivenKept DEF ServiceInv

LEMMA OthersService ==
  ASSUME ServiceInv, Others
  PROVE  ServiceInv' /\ Onwards
<1>1. UNCHANGED <<link, asked, owed, held, replies, socket, out>>
  BY DEF Others, linkVars, socketVars
<1>2. ServiceTypes /\ LinkInv
  BY DEF ServiceInv
<1>3. /\ registry \in Seq(Names) /\ Grows(registry, registry)
      /\ \A i, j \in DOMAIN registry : registry[i] = registry[j] => i = j
      /\ readings \in Seq(Reading) /\ Grows(readings, readings)
      /\ Len(readings) <= MaxReadings
  BY <1>2, OnwardsSame DEF ServiceTypes
<1>4. /\ registry' \in Seq(Names) /\ Grows(registry, registry')
      /\ \A i, j \in DOMAIN registry' : registry'[i] = registry'[j] => i = j
      /\ readings' \in Seq(Reading) /\ Grows(readings, readings')
      /\ Len(readings') <= MaxReadings
  <2>1. CASE \E n \in Names : Svc!Log!Register(n)
    BY <1>2, <1>3, <2>1, Registers
  <2>2. ASSUME Len(readings) < MaxReadings, NEW n \in Names, NEW v \in Reals, NEW t \in Times,
               Svc!Log!Log(n, v, t)
        PROVE  /\ registry' = registry
               /\ readings' \in Seq(Reading) /\ Grows(readings, readings')
               /\ Len(readings') <= MaxReadings
    <3> DEFINE r == [name |-> n, val |-> v, timestamp |-> t]
    <3>1. r \in Reading
      BY DEF Reading
    <3>2. readings' = Append(readings, r) /\ registry' = registry
      BY <2>2 DEF Svc!Log!Log
    <3> HIDE DEF r
    <3>3. readings' \in Seq(Reading) /\ Grows(readings, readings')
      BY <1>3, <3>1, <3>2, GrowsByOne
    <3>4. Len(readings') = Len(readings) + 1 /\ Len(readings) \in Nat
      BY <1>3, <3>1, <3>2
    <3> QED BY <2>2, <3>2, <3>3, <3>4, HmiAssumption
  <2> QED BY <1>3, <2>1, <2>2 DEF Others
<1>5. ServiceTypes'
  BY <1>1, <1>2, <1>4 DEF ServiceTypes
<1>6. Given' = Given
  BY <1>1 DEF Given
<1>7. LinkInv'
  BY <1>1, <1>2, <1>6 DEF LinkInv
<1>8. Onwards /\ Grows(Given', Given)
  BY <1>1, <1>2, <1>4, <1>6, OnwardsSame DEF Onwards
<1> QED BY <1>5, <1>7, <1>8, GivenKept DEF ServiceInv

LEMMA LostService ==
  ASSUME ServiceInv, Lost
  PROVE  ServiceInv' /\ Onwards
<1>1. /\ link[hmi] # "none" /\ link' = [link EXCEPT ![hmi] = "broken"]
      /\ held' = [held EXCEPT ![hmi] = <<>>]
      /\ UNCHANGED <<registry, readings, asked, replies>>
      /\ \E k \in 0..Len(owed[hmi]) : owed' = [owed EXCEPT ![hmi] = SubSeq(owed[hmi], 1, k)]
      /\ socket' = "closed" /\ out' = <<>>
  BY DEF Lost, Svc!Break, Svc!logVars, Cl!Closed
<1>2. ServiceTypes /\ LinkInv
  BY DEF ServiceInv
<1>3. /\ link' \in [{hmi} -> {"none", "open", "broken"}] /\ link'[hmi] = "broken"
      /\ held' \in [{hmi} -> Seq(Responses)] /\ held'[hmi] = <<>>
  <2>1. <<>> \in Seq(Responses)
    OBVIOUS
  <2> QED BY <1>1, <1>2, <2>1 DEF ServiceTypes
<1>4. owed' \in [{hmi} -> Seq(Asks)]
  <2>1. PICK k \in 0..Len(owed[hmi]) : owed' = [owed EXCEPT ![hmi] = SubSeq(owed[hmi], 1, k)]
    BY <1>1
  <2>2. owed[hmi] \in Seq(Asks) /\ owed \in [{hmi} -> Seq(Asks)]
    BY <1>2 DEF ServiceTypes
  <2>3. SubSeq(owed[hmi], 1, k) \in Seq(Asks)
    BY <2>2
  <2> QED BY <2>1, <2>2, <2>3
<1>5. ServiceTypes'
  <2>1. out' \in Seq(Asks)
    BY <1>1
  <2> QED BY <1>1, <1>2, <1>3, <1>4, <2>1 DEF ServiceTypes
<1>6. Given' = replies[hmi] /\ Grows(replies[hmi], Given) /\ Given \in Seq(Responses)
      /\ replies[hmi] \in Seq(Responses)
  <2>1. replies'[hmi] \in Seq(Responses)
    BY <1>5 DEF ServiceTypes
  <2>2. Given' = replies[hmi]
    BY <1>1, <1>3, <2>1, ConcatEmptySeq DEF Given
  <2> QED BY <1>1, <1>2, <2>1, <2>2, GivenIs
<1>7. LinkInv'
  <2>1. Len(Given) <= Len(asked[hmi]) /\ Len(replies[hmi]) <= Len(Given)
    BY <1>2, <1>6 DEF LinkInv, Grows
  <2>2. Len(asked[hmi]) \in Nat /\ Len(Given) \in Nat /\ Len(replies[hmi]) \in Nat
    BY <1>2, <1>6 DEF ServiceTypes
  <2>3. Len(Given') <= Len(asked'[hmi])
    BY <1>1, <1>6, <2>1, <2>2
  <2>4. Len(held'[hmi]) <= 1
    BY <1>3
  <2> QED BY <1>1, <1>3, <2>3, <2>4 DEF LinkInv
<1>8. Onwards /\ Grows(Given', Given)
  BY <1>1, <1>2, <1>6, OnwardsSame DEF Onwards
<1> QED BY <1>5, <1>7, <1>8, GivenKept DEF ServiceInv

LEMMA OneElement ==
  ASSUME NEW S, NEW s \in Seq(S), NEW t \in Seq(S), t # <<>>, Len(t) <= 1
  PROVE  t[1] \in S /\ s \o t = Append(s, t[1])
<1>1. Len(t) \in Nat /\ Len(t) # 0
  OBVIOUS
<1>4. \A n \in Nat : n # 0 /\ n <= 1 => n = 1
  OBVIOUS
<1>2. Len(t) = 1
  BY <1>1, <1>4, Zenon
<1>3. t[1] \in S /\ t = <<t[1]>>
  BY <1>2
<1> QED BY <1>3

LEMMA DeliverService ==
  ASSUME ServiceInv, Deliver
  PROVE  /\ ServiceInv' /\ Onwards
         /\ held[hmi][1] \in Responses
         /\ replies'[hmi] = Append(replies[hmi], held[hmi][1])
<1>1. /\ held[hmi] # <<>> /\ held' = [held EXCEPT ![hmi] = <<>>]
      /\ replies' = [replies EXCEPT ![hmi] = replies[hmi] \o held[hmi]]
      /\ UNCHANGED <<registry, readings, link, asked, owed, socket, out>>
  BY DEF Deliver, Svc!Deliver, Svc!logVars, socketVars
<1>2. ServiceTypes /\ LinkInv
  BY DEF ServiceInv
<1>3. /\ held[hmi] \in Seq(Responses) /\ replies[hmi] \in Seq(Responses)
      /\ held \in [{hmi} -> Seq(Responses)] /\ replies \in [{hmi} -> Seq(Responses)]
  BY <1>2 DEF ServiceTypes
<1>4. /\ replies'[hmi] = replies[hmi] \o held[hmi] /\ held'[hmi] = <<>>
      /\ replies'[hmi] \in Seq(Responses) /\ Grows(replies[hmi], replies'[hmi])
  BY <1>1, <1>3, Concat
<1>5. Given' = Given
  BY <1>3, <1>4, ConcatEmptySeq DEF Given
<1>6. ServiceTypes'
  <2>1. <<>> \in Seq(Responses)
    OBVIOUS
  <2>2. held' \in [{hmi} -> Seq(Responses)]
    BY <1>1, <1>3, <2>1
  <2>3. replies' \in [{hmi} -> Seq(Responses)]
    BY <1>1, <1>3, <1>4
  <2> QED BY <1>1, <1>2, <2>2, <2>3 DEF ServiceTypes
<1>7. LinkInv'
  BY <1>1, <1>2, <1>4, <1>5 DEF LinkInv
<1>8. Onwards /\ Grows(Given', Given)
  BY <1>1, <1>2, <1>4, <1>5, OnwardsSame DEF Onwards
<1>9. held[hmi][1] \in Responses /\ replies'[hmi] = Append(replies[hmi], held[hmi][1])
  <2>1. Len(held[hmi]) <= 1
    BY <1>2 DEF LinkInv
  <2>2. /\ held[hmi][1] \in Responses
        /\ replies[hmi] \o held[hmi] = Append(replies[hmi], held[hmi][1])
    BY <1>1, <1>3, <2>1, OneElement
  <2> QED BY <1>4, <2>2
<1> QED BY <1>6, <1>7, <1>8, <1>9, GivenKept DEF ServiceInv

LEMMA ExecuteService ==
  ASSUME ServiceInv, Execute
  PROVE  ServiceInv' /\ Onwards
<1>1. /\ held[hmi] = <<>> /\ owed[hmi] # <<>>
      /\ owed' = [owed EXCEPT ![hmi] = Tail(owed[hmi])]
      /\ UNCHANGED <<link, asked, replies, socket, out>>
  BY DEF Execute, Svc!Execute, socketVars
<1>3. ServiceTypes /\ LinkInv
  BY DEF ServiceInv
<1>4. /\ owed[hmi] \in Seq(Asks) /\ owed \in [{hmi} -> Seq(Asks)]
      /\ held \in [{hmi} -> Seq(Responses)]
      /\ replies[hmi] \in Seq(Responses) /\ asked[hmi] \in Seq(Asks)
  BY <1>3 DEF ServiceTypes
<1>5. /\ Head(owed[hmi]) \in Asks /\ Head(owed[hmi]) = owed[hmi][1]
      /\ Tail(owed[hmi]) \in Seq(Asks) /\ Len(Tail(owed[hmi])) = Len(owed[hmi]) - 1
      /\ \A i \in 1..(Len(owed[hmi]) - 1) : Tail(owed[hmi])[i] = owed[hmi][i + 1]
      /\ Len(owed[hmi]) \in Nat \ {0}
  BY <1>1, <1>4
<1>13. PICK req \in Asks : req = Head(owed[hmi])
  BY <1>5
<1>2. PICK res : /\ Svc!Answer(req, res)
                 /\ held' = IF link[hmi] = "open" THEN [held EXCEPT ![hmi] = <<res>>]
                                                  ELSE held
  BY <1>13 DEF Execute, Svc!Execute
<1>6. /\ registry' \in Seq(Names) /\ Grows(registry, registry')
      /\ \A i, j \in DOMAIN registry' : registry'[i] = registry'[j] => i = j
      /\ readings' = readings
      /\ Fits(req, res)'
      /\ res \in Responses
      /\ IsList(res) => res.size = Len(registry)
  BY <1>2, <1>3, Answered
<1>7. owed' \in [{hmi} -> Seq(Asks)] /\ owed'[hmi] = Tail(owed[hmi])
  BY <1>1, <1>4, <1>5
<1>8. held' \in [{hmi} -> Seq(Responses)]
  <2>1. <<res>> \in Seq(Responses)
    BY <1>6
  <2> QED BY <1>2, <1>4, <2>1
<1>9. ServiceTypes'
  BY <1>1, <1>3, <1>6, <1>7, <1>8 DEF ServiceTypes
<1>10. Onwards /\ Given = replies[hmi]
  BY <1>1, <1>3, <1>6, GivenIs, OnwardsSame DEF Onwards
<1>11. CASE link[hmi] = "open"
  <2> DEFINE g == Len(replies[hmi])
             o == Len(owed[hmi])
  <2>1. held'[hmi] = <<res>>
    BY <1>2, <1>4, <1>11
  <2>2. Given' = Append(Given, res)
    BY <1>1, <1>4, <1>6, <1>10, <2>1 DEF Given
  <2>3. /\ Len(asked[hmi]) = g + o
        /\ \A i \in 1..o : owed[hmi][i] = asked[hmi][g + i]
        /\ g \in Nat /\ o \in Nat \ {0}
    <3>1. /\ Len(asked[hmi]) = Len(Given) + Len(owed[hmi])
          /\ \A i \in DOMAIN owed[hmi] : owed[hmi][i] = asked[hmi][Len(Given) + i]
      BY <1>3, <1>11 DEF LinkInv
    <3>2. g \in Nat /\ DOMAIN owed[hmi] = 1..o
      BY <1>4
    <3> QED BY <1>5, <1>10, <3>1, <3>2
  <2>4. Len(Given') = g + 1 /\ Len(held'[hmi]) = 1
    BY <1>4, <1>6, <1>10, <2>1, <2>2
  <2>5. /\ Len(owed'[hmi]) = o - 1 /\ DOMAIN owed'[hmi] = 1..(o - 1)
        /\ \A i \in 1..(o - 1) : owed'[hmi][i] = owed[hmi][i + 1]
    BY <1>5, <1>7
  <2>11. g \in Nat /\ o \in Nat \ {0}
    BY <2>3
  <2> HIDE DEF g, o
  <2>6. \A i \in DOMAIN owed'[hmi] : owed'[hmi][i] = asked'[hmi][(g + 1) + i]
    <3> TAKE i \in DOMAIN owed'[hmi]
    <3>1. i \in 1..(o - 1)
      BY <2>5
    <3>2. i + 1 \in 1..o /\ g + (i + 1) = (g + 1) + i
      BY <2>11, <3>1
    <3>3. owed[hmi][i + 1] = asked[hmi][g + (i + 1)]
      BY <2>3, <3>2
    <3> QED BY <1>1, <2>5, <3>1, <3>2, <3>3
  <2>7. g + 1 <= g + o /\ g + o = (g + 1) + (o - 1)
    BY <2>11
  <2>8. LinkInv'
    <3>1. /\ Len(Given') <= Len(asked'[hmi]) /\ Len(held'[hmi]) <= 1
          /\ Len(asked'[hmi]) = Len(Given') + Len(owed'[hmi])
          /\ \A i \in DOMAIN owed'[hmi] : owed'[hmi][i] = asked'[hmi][Len(Given') + i]
      <4>1. Len(asked'[hmi]) = g + o /\ Len(asked'[hmi]) = (g + 1) + (o - 1)
        BY <1>1, <2>3, <2>7
      <4>2. Len(Given') <= Len(asked'[hmi]) /\ Len(held'[hmi]) <= 1
        BY <2>4, <2>7, <4>1
      <4>3. Len(asked'[hmi]) = Len(Given') + Len(owed'[hmi])
        BY <2>4, <2>5, <4>1
      <4>4. \A i \in DOMAIN owed'[hmi] : owed'[hmi][i] = asked'[hmi][Len(Given') + i]
        BY <2>4, <2>6, Zenon
      <4> QED BY <4>2, <4>3, <4>4
    <3> QED BY <1>1, <1>3, <1>11, <3>1 DEF LinkInv
  <2>9. req = asked'[hmi][Len(Given) + 1]
    <3>1. 1 \in 1..o
      BY <2>11
    <3> QED BY <1>1, <1>5, <1>10, <1>13, <2>3, <3>1 DEF g
  <2>10. FitsInv' /\ OrderInv'
    BY <1>6, <1>9, <1>10, <2>2, <2>9, GivenMore
  <2> QED BY <1>9, <1>10, <2>8, <2>10 DEF ServiceInv
<1>12. CASE link[hmi] # "open"
  <2>1. held' = held /\ Given' = Given
    BY <1>1, <1>2, <1>12 DEF Given
  <2>2. LinkInv'
    BY <1>1, <1>3, <1>12, <2>1 DEF LinkInv
  <2>3. Grows(Given', Given)
    BY <1>3, <2>1, OnwardsSame
  <2> QED BY <1>9, <1>10, <2>2, <2>3, GivenKept DEF ServiceInv
<1> QED BY <1>11, <1>12
-----------------------------------------------------------------------------
(* What has been issued.                                                   *)

LEMMA IssuedIs ==
  ASSUME ServiceTypes
  PROVE  /\ Issued \in Seq(Asks)
         /\ Len(Issued) = Len(asked[hmi]) + Len(out)
         /\ Grows(asked[hmi], Issued)
         /\ out = <<>> => Issued = asked[hmi]
<1>1. asked[hmi] \in Seq(Asks) /\ out \in Seq(Asks)
  BY DEF ServiceTypes
<1> QED BY <1>1, Concat DEF Issued

LEMMA MoveHead ==
  ASSUME NEW S, NEW s \in Seq(S), NEW t \in Seq(S), t # <<>>
  PROVE  Append(s, Head(t)) \o Tail(t) = s \o t
<1>1. Head(t) \in S /\ Tail(t) \in Seq(S) /\ <<Head(t)>> \o Tail(t) = t
  OBVIOUS
<1>2. Append(s, Head(t)) = s \o <<Head(t)>>
  BY <1>1
<1>3. <<Head(t)>> \in Seq(S)
  BY <1>1
<1>4. (s \o <<Head(t)>>) \o Tail(t) = s \o (<<Head(t)>> \o Tail(t))
  BY <1>1, <1>3, ConcatAssociative
<1> QED BY <1>1, <1>2, <1>4

LEMMA AppendLater ==
  ASSUME NEW S, NEW s \in Seq(S), NEW t \in Seq(S), NEW e \in S
  PROVE  s \o Append(t, e) = Append(s \o t, e)
<1>1. <<e>> \in Seq(S) /\ Append(t, e) = t \o <<e>>
  OBVIOUS
<1>2. s \o (t \o <<e>>) = (s \o t) \o <<e>>
  BY <1>1, ConcatAssociative
<1>3. s \o t \in Seq(S)
  BY ConcatProperties
<1> QED BY <1>1, <1>2, <1>3

LEMMA WriteAdds ==
  ASSUME out \in Seq(Asks), NEW req \in Asks, Cl!write(req)
  PROVE  /\ out' \in Seq(Asks)
         /\ out' = out \/ out' = Append(out, req)
         /\ socket \in {"connecting", "connected"} => out' = Append(out, req)
BY DEF Cl!write

LEMMA AsksHas ==
  /\ GetVariables \in Asks
  /\ FirstValues \in Asks \ {GetVariables}
  /\ \A n \in Names : AddVar(n, Color) \in Asks \ {GetVariables}
  /\ \A start, end \in Times : /\ GetValues(SeedName, start, end) \in Asks \ {GetVariables}
                               /\ IsSelection(GetValues(SeedName, start, end))
<1>1. \A n, c : AddVar(n, c) # GetVariables
  BY DEF AddVar, GetVariables
<1>2. \A n, s, e : GetValues(n, s, e) # GetVariables
  BY DEF GetValues, GetVariables
<1>3. \A n, s, e : s # Absent => IsSelection(GetValues(n, s, e))
  BY DEF GetValues, IsSelection
<1>4. Absent \notin Times
  BY HmiAssumption
<1> QED BY <1>1, <1>2, <1>3, <1>4 DEF Asks, FirstValues

(* The steps of the program and its user, and a refused connection.        *)
Own ==
  \/ main \/ Refused \/ timeout
  \/ \E n \in Names : onAccepted(n)
  \/ \E start, end \in Times : onSlectedChanged(start, end)

LEMMA OwnStep ==
  ASSUME ServiceTypes, Cl!TypeOK, Own
  PROVE  /\ UNCHANGED <<serviceVars, ends, readVars, m_vars, m_vals>>
         /\ socket' = "connected" <=> socket = "connected"
         /\ socket' \in {"unconnected", "connecting"} => socket \in {"unconnected", "connecting"}
         /\ socket = "closed" => socket' = "closed"
         /\ socket' \in {"unconnected", "connecting", "connected", "closed"}
         /\ out' \in Seq(Asks)
         /\ \/ out' = out
            \/ \E req \in Asks \ {GetVariables} : out' = Append(out, req)
            \/ socket' = "closed" /\ out' = <<>>
         /\ \/ UNCHANGED axes
            \/ /\ xTime' = Zoomed /\ yAxis' = Zoomed
               /\ socket' # "closed" =>
                    \E req \in Asks : out' = Append(out, req) /\ IsSelection(req)
         /\ m_wTimer' \in {m_wTimer, "fired"}
<1>1. out \in Seq(Asks) /\ socket \in {"unconnected", "connecting", "connected", "closed"}
  BY DEF ServiceTypes, Cl!TypeOK
<1>2. CASE main
  BY <1>1, <1>2 DEF main, Cl!connect, models, axes, Cl!streamVars, readVars, Cl!readVars
<1>3. CASE Refused
  BY <1>1, <1>3 DEF Refused, Cl!Closed, App, models, axes, Cl!streamVars
<1>4. ASSUME Served, NEW req \in Asks \ {GetVariables}, Cl!write(req)
      PROVE  /\ UNCHANGED <<serviceVars, ends, readVars, m_vars, m_vals, socket>>
             /\ out' \in Seq(Asks)
             /\ out' = out \/ out' = Append(out, req)
             /\ socket' # "closed" => out' = Append(out, req)
  <2>1. UNCHANGED <<serviceVars, ends, readVars, m_vars, m_vals, socket>> /\ socket # "unconnected"
    BY <1>4, Zenon DEF Served
  <2>2. /\ out' \in Seq(Asks)
        /\ out' = out \/ out' = Append(out, req)
        /\ socket \in {"connecting", "connected"} => out' = Append(out, req)
    BY <1>1, <1>4, WriteAdds
  <2> QED BY <1>1, <2>1, <2>2
<1>5. CASE timeout
  <2>1. Served /\ Cl!write(FirstValues) /\ UNCHANGED axes /\ m_wTimer' = "fired"
    BY <1>5, Zenon DEF timeout, Cl!request_var_values, FirstValues, Cl!GetValues, GetValues
  <2> QED BY <1>1, <1>4, <2>1, AsksHas
<1>6. ASSUME NEW n \in Names, onAccepted(n)
      PROVE  /\ Served /\ Cl!write(AddVar(n, Color)) /\ UNCHANGED axes
             /\ m_wTimer' = m_wTimer
  BY <1>6, Zenon DEF onAccepted, UserMayAsk, Cl!send_var, AddVar, Cl!AddVar
<1>7. ASSUME NEW n \in Names, onAccepted(n)
      PROVE  /\ UNCHANGED <<serviceVars, ends, readVars, m_vars, m_vals, socket, axes, m_wTimer>>
             /\ out' \in Seq(Asks)
             /\ \/ out' = out
                \/ \E req \in Asks \ {GetVariables} : out' = Append(out, req)
  BY <1>4, <1>6, <1>7, AsksHas
<1>8. ASSUME NEW start \in Times, NEW end \in Times, onSlectedChanged(start, end)
      PROVE  /\ Served /\ Cl!write(GetValues(SeedName, start, end))
             /\ xTime' = Zoomed /\ yAxis' = Zoomed
             /\ m_wTimer' = m_wTimer
  BY <1>8, Zenon DEF onSlectedChanged, UserMayAsk, Cl!request_var_values_between,
                     GetValues, Cl!GetValues
<1>9. ASSUME NEW start \in Times, NEW end \in Times, onSlectedChanged(start, end)
      PROVE  /\ UNCHANGED <<serviceVars, ends, readVars, m_vars, m_vals, socket, m_wTimer>>
             /\ xTime' = Zoomed /\ yAxis' = Zoomed
             /\ out' \in Seq(Asks)
             /\ \/ out' = out
                \/ \E req \in Asks \ {GetVariables} : out' = Append(out, req)
             /\ socket' # "closed" =>
                  \E req \in Asks : out' = Append(out, req) /\ IsSelection(req)
  <2> DEFINE req == GetValues(SeedName, start, end)
  <2>1. req \in Asks \ {GetVariables} /\ IsSelection(req)
    BY AsksHas
  <2>2. /\ Served /\ Cl!write(req) /\ xTime' = Zoomed /\ yAxis' = Zoomed
        /\ m_wTimer' = m_wTimer
    BY <1>8, <1>9
  <2> HIDE DEF req
  <2> QED BY <1>4, <2>1, <2>2
<1>10. CASE \E n \in Names : onAccepted(n)
  BY <1>1, <1>7, <1>10
<1>11. CASE \E start, end \in Times : onSlectedChanged(start, end)
  BY <1>1, <1>9, <1>11
<1> QED BY <1>2, <1>3, <1>5, <1>10, <1>11 DEF Own

LEMMA OwnIssued ==
  ASSUME ServiceTypes, ServiceTypes', UNCHANGED asked,
         socket = "closed" => socket' = "closed",
         \/ out' = out
         \/ \E req \in Asks \ {GetVariables} : out' = Append(out, req)
         \/ socket' = "closed" /\ out' = <<>>
  PROVE  /\ socket' # "closed" => socket # "closed" /\ Grows(Issued, Issued')
         /\ Refreshing' => Refreshing
<1>1. /\ asked[hmi] \in Seq(Asks) /\ out \in Seq(Asks) /\ Issued \in Seq(Asks)
      /\ asked'[hmi] = asked[hmi] /\ Grows(asked[hmi], Issued)
  BY IssuedIs DEF ServiceTypes
<1>2. CASE out' = out
  <2>1. Issued' = Issued
    BY <1>1, <1>2 DEF Issued
  <2> QED BY <1>1, <2>1, GrowsSelf DEF Refreshing
<1>3. ASSUME NEW req \in Asks \ {GetVariables}, out' = Append(out, req)
      PROVE  /\ socket' # "closed" => socket # "closed" /\ Grows(Issued, Issued')
             /\ Refreshing' => Refreshing
  <2>1. Issued' = Append(Issued, req)
    <3>1. \A s, t \in Seq(Asks) : s \o Append(t, req) = Append(s \o t, req)
      BY AppendLater
    <3> QED BY <1>1, <1>3, <3>1 DEF Issued
  <2>2. Grows(Issued, Issued')
    BY <1>1, <2>1, GrowsByOne
  <2>3. /\ DOMAIN Issued' = DOMAIN Issued \cup {Len(Issued) + 1}
        /\ Issued'[Len(Issued) + 1] = req
        /\ \A k \in DOMAIN Issued : Issued'[k] = Issued[k]
    BY <1>1, <2>1
  <2> QED BY <2>2, <2>3 DEF Refreshing
<1>4. CASE socket' = "closed" /\ out' = <<>>
  <2>1. Issued' = asked[hmi]
    BY <1>1, <1>4, ConcatEmptySeq DEF Issued
  <2>2. DOMAIN asked[hmi] \subseteq DOMAIN Issued /\ \A k \in DOMAIN asked[hmi] : Issued[k] = asked[hmi][k]
    BY <1>1, GrowsOver
  <2> QED BY <1>4, <2>1, <2>2 DEF Refreshing
<1> QED BY <1>2, <1>3, <1>4

LEMMA SendIssued ==
  ASSUME ServiceTypes, Send
  PROVE  Issued' = Issued
<1>1. /\ out # <<>> /\ out' = Tail(out)
      /\ asked' = [asked EXCEPT ![hmi] = Append(asked[hmi], Head(out))]
  BY DEF Send, Svc!Ask, Cl!Flush
<1>2. /\ out \in Seq(Asks) /\ asked[hmi] \in Seq(Asks) /\ asked \in [{hmi} -> Seq(Asks)]
  BY DEF ServiceTypes
<1>3. asked'[hmi] = Append(asked[hmi], Head(out))
  BY <1>1, <1>2
<1> QED BY <1>1, <1>2, <1>3, MoveHead DEF Issued

(* What the slots may write.                                               *)
LEMMA SlotsWrite ==
  ASSUME out \in Seq(Asks), Slots
  PROVE  out' \in Seq(Asks) /\ (out' = out \/ out' = Append(out, GetVariables))
<1>1. GetVariables \in Asks /\ Cl!GetVariables = GetVariables
  BY AsksHas DEF GetVariables, Cl!GetVariables
<1>2. ASSUME Cl!request_vars
      PROVE  out' \in Seq(Asks) /\ (out' = out \/ out' = Append(out, GetVariables))
  <2>1. Cl!write(GetVariables)
    BY <1>1, <1>2 DEF Cl!request_vars
  <2> QED BY <1>1, <2>1, WriteAdds
<1>3. CASE signals' = signals
  BY <1>3 DEF Slots
<1>4. CASE signals' # signals
  <2> DEFINE k == signals'[Len(signals')]
  <2>1. IF k = 0 THEN Misled ELSE Received(replies[hmi][k])
    BY <1>4 DEF Slots
  <2> HIDE DEF k
  <2>2. CASE Misled
    <3>1. out' = out \/ Cl!request_vars
      BY <2>2, Zenon DEF Misled
    <3> QED BY <1>2, <3>1
  <2>3. CASE Received(replies[hmi][k])
    <3>1. out' = out \/ Cl!request_vars
      BY <2>3, Zenon DEF Received, variablesReceived, responseReceived, valuesReceived
    <3> QED BY <1>2, <3>1
  <2> QED BY <2>1, <2>2, <2>3
<1> QED BY <1>3, <1>4

LEMMA ReceiveService ==
  ASSUME ServiceInv, CP!IInv, Receive
  PROVE  /\ ServiceInv' /\ Onwards
         /\ UNCHANGED <<socket, serviceVars, ends, m_wTimer>>
         /\ out' = out \/ out' = Append(out, GetVariables)
<1>1. UNCHANGED <<serviceVars, m_wTimer>> /\ Cl!Read /\ Slots
  BY Zenon DEF Receive
<1>2. UNCHANGED <<socket, ends>>
  BY <1>1, SameRead, CP!ReadSignals, ClientHere
<1>3. out' \in Seq(Asks) /\ (out' = out \/ out' = Append(out, GetVariables))
  BY <1>1, SlotsWrite DEF ServiceInv, ServiceTypes
<1> QED BY <1>1, <1>2, <1>3, ServiceKept

LEMMA NextService ==
  ASSUME ServiceInv, Cl!TypeOK, CP!IInv, Next
  PROVE  ServiceInv' /\ Onwards
<1>1. CASE Own
  BY <1>1, OwnStep, ServiceKept DEF ServiceInv
<1>2. CASE Connected \/ Lost \/ Send \/ Execute \/ Deliver \/ Others
  BY <1>2, ConnectedService, LostService, SendService, ExecuteService, DeliverService, OthersService
<1>3. CASE Receive
  BY <1>3, ReceiveService
<1> QED BY <1>1, <1>2, <1>3 DEF Next, Own, Environment
-----------------------------------------------------------------------------
(* The client's invariant.                                                 *)

LEMMA NextClient ==
  ASSUME ServiceInv, ServiceInv', Cl!TypeOK, CP!IInv, Next
  PROVE  CP!IInv'
<1>1. /\ out \in Seq(Asks) /\ out' \in Seq(Asks) /\ Asks \subseteq Requests
      /\ socket \in {"unconnected", "connecting", "connected", "closed"}
  BY HmiAssumption DEF ServiceInv, ServiceTypes, Cl!TypeOK
<1>2. out' \in Seq(Requests)
  BY <1>1
<1>3. ASSUME UNCHANGED <<replies, ends, readVars>>,
             socket' \in {"unconnected", "connecting", "connected", "closed"}
      PROVE  CP!IInv'
  BY <1>2, <1>3, CP!OthersInv, ClientHere DEF CP!streamVars, CP!readVars, readVars
<1>4. CASE Own
  <2>1. UNCHANGED <<serviceVars, ends, readVars>>
        /\ socket' \in {"unconnected", "connecting", "connected", "closed"}
    BY <1>4, OwnStep DEF ServiceInv
  <2> QED BY <1>3, <2>1 DEF serviceVars, linkVars
<1>5. CASE Connected
  BY <1>3, <1>5 DEF Connected, Svc!Open, Cl!Connected, Cl!streamVars, App
<1>6. CASE Lost
  BY <1>3, <1>6 DEF Lost, Svc!Break, Cl!Closed, Cl!streamVars, App
<1>7. CASE Send
  BY <1>1, <1>3, <1>7 DEF Send, Svc!Ask, Cl!Flush, Cl!streamVars, App
<1>8. CASE Execute
  BY <1>1, <1>3, <1>8 DEF Execute, Svc!Execute, socketVars, App
<1>9. CASE Others
  BY <1>1, <1>3, <1>9 DEF Others, linkVars, socketVars, App
<1>10. CASE Deliver
  <2>1. /\ held[hmi][1] \in Responses
        /\ replies'[hmi] = Append(replies[hmi], held[hmi][1])
    BY <1>10, DeliverService
  <2>2. CP!Extend(held[hmi][1]) /\ UNCHANGED <<socket, out, CP!readVars>>
    BY <1>10, SameExtend DEF Deliver, socketVars, App, readVars, CP!readVars
  <2>3. PICK res \in Responses : res = held[hmi][1]
    BY <2>1
  <2> QED BY <2>1, <2>2, <2>3, CP!RespondInv, ClientHere
<1>11. CASE Receive
  <2>1. CP!Read
    BY <1>11, SameRead, Zenon DEF Receive
  <2> QED BY <1>2, <2>1, CP!ReadInv, ClientHere
<1> QED BY <1>4, <1>5, <1>6, <1>7, <1>8, <1>9, <1>10, <1>11 DEF Next, Own, Environment
-----------------------------------------------------------------------------
(* The least and the greatest of a finite set of integers.                 *)

LEMMA LeastNat ==
  ASSUME NEW T, T \subseteq Nat, T # {}
  PROVE  \E x \in T : \A y \in T : x <= y
<1> DEFINE R == {ss \in Nat \X Nat : ss[1] < ss[2]}
<1>1. IsWellFoundedOn(R, Nat)
  BY NatLessThanWellFounded DEF OpToRel
<1>2. PICK x \in T : \A y \in T : ~(<<y, x>> \in R)
  BY <1>1, WFMin
<1>3. ASSUME NEW y \in T PROVE x <= y
  <2>1. ~(<<y, x>> \in R)
    BY <1>2
  <2>2. ~(y < x)
    BY <2>1
  <2> QED BY <2>2
<1> QED BY <1>3

HasEnds(S) == /\ \E x \in S : \A y \in S : x <= y
              /\ \E x \in S : \A y \in S : x >= y

LEMMA EndsExist ==
  ASSUME NEW S, S \subseteq Int, IsFiniteSet(S), S # {}
  PROVE  HasEnds(S)
<1> DEFINE Without(n) == \E V \in SUBSET S : V # {} /\ Cardinality(V) = n /\ ~HasEnds(V)
           T == {n \in Nat : Without(n)}
<1>1. SUFFICES ASSUME ~HasEnds(S) PROVE FALSE
  OBVIOUS
<1>2. Cardinality(S) \in T
  BY <1>1, FS_CardinalityType
<1>3. PICK n \in T : \A m \in T : n <= m
  <2>1. T \subseteq Nat /\ T # {}
    BY <1>2
  <2> HIDE DEF T
  <2> QED BY <2>1, LeastNat
<1>4. PICK V \in SUBSET S : V # {} /\ Cardinality(V) = n /\ ~HasEnds(V)
  BY <1>3
<1>5. PICK x \in V : TRUE
  BY <1>4
<1> DEFINE U == V \ {x}
<1>6. n \in Nat /\ U \in SUBSET S /\ V = U \cup {x} /\ x \in Int /\ U \subseteq Int
  BY <1>3, <1>4, <1>5
<1>7. Cardinality(U) = n - 1 /\ Cardinality(U) \in Nat
  <2>1. IsFiniteSet(V)
    BY <1>4, FS_Subset
  <2> QED BY <1>4, <1>5, <2>1, FS_RemoveElement, FS_CardinalityType
<1> HIDE DEF U
<1>8. U # {}
  BY <1>4, <1>6 DEF HasEnds
<1>9. HasEnds(U)
  <2>1. n - 1 \notin T
    BY <1>3, <1>6, <1>7
  <2> QED BY <1>6, <1>7, <1>8, <2>1
<1>10. HasEnds(V)
  <2>1. PICK a \in U : \A y \in U : a <= y
    BY <1>9 DEF HasEnds
  <2>2. PICK b \in U : \A y \in U : b >= y
    BY <1>9 DEF HasEnds
  <2>3. \E z \in V : \A y \in V : z <= y
    <3>1. CASE x <= a
      BY <1>6, <2>1, <3>1
    <3>2. CASE a <= x
      BY <1>6, <2>1, <3>2
    <3> QED BY <1>6, <3>1, <3>2
  <2>4. \E z \in V : \A y \in V : z >= y
    <3>1. CASE x >= b
      BY <1>6, <2>2, <3>1
    <3>2. CASE b >= x
      BY <1>6, <2>2, <3>2
    <3> QED BY <1>6, <3>1, <3>2
  <2> QED BY <2>3, <2>4 DEF HasEnds
<1> QED BY <1>4, <1>10

LEMMA MinMax ==
  ASSUME NEW S, S \subseteq Int, IsFiniteSet(S), S # {}
  PROVE  /\ Min(S) \in S /\ Max(S) \in S
         /\ \A x \in S : Min(S) <= x /\ x <= Max(S)
<1>1. /\ \E x \in S : \A y \in S : x <= y
      /\ \E x \in S : \A y \in S : x >= y
  BY EndsExist DEF HasEnds
<1>2. Min(S) \in S /\ \A y \in S : Min(S) <= y
  BY <1>1 DEF Min
<1>3. Max(S) \in S /\ \A y \in S : Max(S) >= y
  BY <1>1 DEF Max
<1>4. \A x \in S : x <= Max(S)
  BY <1>3
<1> QED BY <1>2, <1>3, <1>4

(* The greatest is known by what it is.                                    *)
LEMMA MaxIs ==
  ASSUME NEW S, S \subseteq Int, NEW k \in S, \A j \in S : j <= k
  PROVE  Max(S) = k
<1>1. Max(S) \in S /\ \A y \in S : Max(S) >= y
  <2>1. \E x \in S : \A y \in S : x >= y
    OBVIOUS
  <2> QED BY <2>1 DEF Max
<1>2. Max(S) \in Int /\ k \in Int /\ Max(S) >= k /\ Max(S) <= k
  BY <1>1
<1>3. \A m, n \in Int : m >= n /\ m <= n => m = n
  OBVIOUS
<1> QED BY <1>2, <1>3, Zenon

(* The axes Historic.qml makes for some readings hold these.               *)
LEMMA RangesHold ==
  ASSUME ServiceTypes, NEW vals, vals \subseteq DOMAIN readings, vals # {}
  PROVE  /\ Min(vals) \in vals /\ Max(vals) \in vals
         /\ \A id \in vals : Min(vals) <= id /\ id <= Max(vals)
         /\ XRange(vals) \in Nat \X Nat /\ YRange(vals) \in Int \X Int
         /\ XRange(vals)[1] = readings[Min(vals)].timestamp
         /\ readings[Min(vals)].timestamp <= readings[Max(vals)].timestamp =>
              /\ XRange(vals)[1] < XRange(vals)[2]
              /\ readings[Max(vals)].timestamp <= XRange(vals)[2]
         /\ YRange(vals)[1] < YRange(vals)[2]
         /\ \A id \in vals : /\ YRange(vals)[1] <= readings[id].val
                             /\ readings[id].val <= YRange(vals)[2]
<1>1. /\ readings \in Seq(Reading) /\ DOMAIN readings = 1..Len(readings)
      /\ Len(readings) \in Nat
  BY DEF ServiceTypes
<1>2. IsFiniteSet(vals) /\ vals \subseteq Int
  <2>1. IsFiniteSet(1..Len(readings))
    BY <1>1, CountTo
  <2>2. vals \in SUBSET (1..Len(readings))
    BY <1>1
  <2> QED BY <2>1, <2>2, FS_Subset
<1>3. /\ Min(vals) \in vals /\ Max(vals) \in vals
      /\ \A id \in vals : Min(vals) <= id /\ id <= Max(vals)
  BY <1>2, MinMax
<1>4. \A id \in vals : readings[id].val \in Int /\ readings[id].timestamp \in Nat
  <2>1. \A id \in vals : readings[id] \in Reading
    BY <1>1
  <2>2. \A r \in Reading : r.val \in Reals /\ r.timestamp \in Times
    BY DEF Reading
  <2>3. Reals \subseteq Int /\ Times \subseteq Nat
    BY HmiAssumption
  <2> QED BY <2>1, <2>2, <2>3
<1> DEFINE first == readings[Min(vals)].timestamp
           last == readings[Max(vals)].timestamp
           shown == {0} \cup {readings[id].val : id \in vals}
           low == Min(shown)
           high == Max(shown)
<1>5. first \in Nat /\ last \in Nat
  BY <1>3, <1>4
<1>6. /\ low \in Int /\ high \in Int /\ low <= high
      /\ \A id \in vals : low <= readings[id].val /\ readings[id].val <= high
  <2> DEFINE vs == {readings[id].val : id \in vals}
             f == [id \in vals |-> readings[id].val]
  <2>1. f \in Surjection(vals, vs)
    BY DEF Surjection
  <2>2. IsFiniteSet(vs)
    <3> HIDE DEF vs, f
    <3> QED BY <1>2, <2>1, FS_Surjection
  <2>3. shown = vs \cup {0} /\ shown \subseteq Int /\ \A id \in vals : readings[id].val \in shown
    BY <1>4
  <2> HIDE DEF vs
  <2>4. IsFiniteSet(shown) /\ shown # {} /\ 0 \in shown
    BY <2>2, <2>3, FS_AddElement
  <2> HIDE DEF shown
  <2>5. /\ low \in shown /\ high \in shown
        /\ \A x \in shown : low <= x /\ x <= high
    BY <2>3, <2>4, MinMax
  <2> QED BY <2>3, <2>4, <2>5
<1>7. XRange(vals) = <<first, IF last = first THEN last + 1000 ELSE last>>
  BY DEF XRange
<1>8. YRange(vals) = <<low, IF low = high THEN high + One ELSE high>>
  BY DEF YRange
<1>9. One \in Nat \ {0}
  BY HmiAssumption
<1> HIDE DEF low, high, shown
<1>10. /\ YRange(vals) \in Int \X Int
       /\ YRange(vals)[1] = low /\ low < YRange(vals)[2] /\ high <= YRange(vals)[2]
  BY <1>6, <1>8, <1>9
<1>11. \A id \in vals : /\ YRange(vals)[1] <= readings[id].val
                        /\ readings[id].val <= YRange(vals)[2]
  <2> TAKE id \in vals
  <2>1. YRange(vals)[2] \in Int
    BY <1>10
  <2> QED BY <1>4, <1>6, <1>10, <2>1
<1> HIDE DEF first, last
<1>12. /\ XRange(vals) \in Nat \X Nat
       /\ XRange(vals)[1] = first
       /\ first <= last => first < XRange(vals)[2] /\ last <= XRange(vals)[2]
  BY <1>5, <1>7
<1> QED BY <1>3, <1>10, <1>11, <1>12 DEF first, last
-----------------------------------------------------------------------------
(* What the models are told, and what they show of it.                     *)

LEMMA ReplyFits ==
  ASSUME ServiceInv, NEW k \in DOMAIN replies[hmi]
  PROVE  /\ k \in DOMAIN Given /\ Given[k] = replies[hmi][k]
         /\ k \in DOMAIN asked[hmi] /\ k \in Nat
         /\ Fits(asked[hmi][k], replies[hmi][k])
<1>1. /\ replies[hmi] \in Seq(Responses) /\ Given \in Seq(Responses)
      /\ Grows(replies[hmi], Given) /\ asked[hmi] \in Seq(Asks)
  BY GivenIs DEF ServiceInv, ServiceTypes
<1>2. k \in DOMAIN Given /\ Given[k] = replies[hmi][k]
  BY <1>1, GrowsOver
<1>3. Len(Given) <= Len(asked[hmi])
  BY DEF ServiceInv, LinkInv
<1>4. k \in DOMAIN asked[hmi] /\ k \in Nat
  <2>1. k \in 1..Len(Given) /\ Len(Given) \in Nat /\ Len(asked[hmi]) \in Nat
    BY <1>1, <1>2
  <2>2. k \in 1..Len(asked[hmi])
    BY <1>3, <2>1
  <2> QED BY <1>1, <2>1, <2>2
<1>5. Fits(asked[hmi][k], replies[hmi][k])
  <2>1. Fits(asked[hmi][k], Given[k])
    BY <1>2 DEF ServiceInv, FitsInv
  <2> QED BY <1>2, <2>1
<1> QED BY <1>2, <1>4, <1>5

LEMMA RowsAreReadings ==
  ASSUME NEW req
  PROVE  Svc!AskedFor(req) \subseteq DOMAIN readings
BY DEF Svc!AskedFor

(* Readings are heard of when there are any.                               *)
LEMMA HeardOf ==
  ASSUME ServiceInv, NEW k \in DOMAIN replies[hmi], IsValues(replies[hmi][k])
  PROVE  /\ replies[hmi][k].rows \subseteq DOMAIN readings
         /\ replies[hmi][k].size \in Nat
         /\ ~CP!Silent(replies[hmi][k]) <=> replies[hmi][k].size > 0
         /\ replies[hmi][k].size > 0 => replies[hmi][k].rows # {}
<1> DEFINE res == replies[hmi][k]
<1>1. /\ res.rows \subseteq Svc!AskedFor(asked[hmi][k])
      /\ res.size = Svc!AtMost(Limit, Cardinality(res.rows))
      /\ res.msg_type = "RESPONSE_VALUES"
      /\ res \in Responses
  <2>1. Fits(asked[hmi][k], res)
    BY ReplyFits
  <2>2. res \in Responses
    BY DEF ServiceInv, ServiceTypes
  <2> QED BY <2>1, <2>2, FitsSays DEF IsValues
<1>2. res.rows \subseteq DOMAIN readings
  BY <1>1, RowsAreReadings
<1>3. res.size \in Nat /\ EntrySize \in Nat \ {0}
  BY <1>1, ClientHere DEF CP!ClientAssumption
<1> HIDE DEF res
<1>4. CP!Silent(res) <=> EntrySize * res.size = 0
  BY <1>1 DEF CP!Silent, CP!BodySize
<1>5. \A a \in Nat \ {0}, b \in Nat : a * b = 0 <=> ~(b > 0)
  BY Z3
<1>6. res.rows = {} => ~(res.size > 0)
  <2> SUFFICES ASSUME res.rows = {} PROVE res.size = 0
    BY <1>3
  <2>1. Cardinality(res.rows) = 0
    BY FS_EmptySet
  <2>2. Limit \in Nat
    BY HmiAssumption
  <2> QED BY <1>1, <2>1, <2>2 DEF Svc!AtMost
<1>7. ~CP!Silent(res) <=> res.size > 0
  BY <1>3, <1>4, <1>5
<1> QED BY <1>2, <1>3, <1>6, <1>7 DEF res

LEMMA FirstNames ==
  ASSUME registry \in Seq(Names), NEW n \in 0..Len(registry)
  PROVE  FirstOf(n) \in Seq(Names) /\ Len(FirstOf(n)) = n
<1>1. n \in Nat /\ \A id \in 1..n : registry[id] \in Names
  OBVIOUS
<1> QED BY <1>1 DEF FirstOf

(* A response of which the models are told, one slot each.                 *)
LEMMA ReceivedShows ==
  ASSUME ServiceInv, NEW k \in DOMAIN replies[hmi], ~CP!Silent(replies[hmi][k]),
         Received(replies[hmi][k])
  PROVE  \/ /\ IsList(replies[hmi][k])
            /\ m_vars' = FirstOf(replies[hmi][k].size)
            /\ replies[hmi][k].size \in 0..Len(registry)
            /\ UNCHANGED <<out, m_vals, xTime, yAxis>>
         \/ /\ IsValues(replies[hmi][k])
            /\ m_vals' = replies[hmi][k].rows
            /\ m_vals' # {} /\ m_vals' \subseteq DOMAIN readings
            /\ xTime' = XRange(replies[hmi][k].rows)
            /\ yAxis' = YRange(replies[hmi][k].rows)
            /\ UNCHANGED <<out, m_vars>>
         \/ /\ ~IsList(replies[hmi][k]) /\ ~IsValues(replies[hmi][k])
            /\ UNCHANGED <<m_vars, m_vals, xTime, yAxis>>
            /\ IF IsAddition(replies[hmi][k]) THEN Cl!request_vars ELSE UNCHANGED out
<1> DEFINE res == replies[hmi][k]
<1>1. Fits(asked[hmi][k], res)
  BY ReplyFits
<1>2. /\ IsList(res) => res.size \in 0..Len(registry)
      /\ res.status = "OK" /\ res.prev_msg = "REQUEST_ADD_VAR" <=> IsAddition(res)
  BY <1>1, FitsSays
<1>3. IsValues(res) => res.rows # {} /\ res.rows \subseteq DOMAIN readings
  BY HeardOf
<1> HIDE DEF res
<1>4. Received(res)
  BY DEF res
<1>5. CASE res.msg_type = "RESPONSE_VARIABLES" /\ variablesReceived(res)
  BY <1>2, <1>5, Zenon DEF variablesReceived, axes, IsList, FirstOf, res
<1>6. CASE res.msg_type = "RESPONSE_FAILURE" /\ responseReceived(res)
  <2>1. ~IsList(res) /\ ~IsValues(res)
    BY <1>6 DEF IsList, IsValues
  <2> QED BY <1>2, <1>6, <2>1, Zenon DEF responseReceived, models, axes, res
<1>7. CASE res.msg_type = "RESPONSE_VALUES" /\ valuesReceived(res)
  <2>1. IsValues(res)
    BY <1>7 DEF IsValues
  <2>2. xTime' = XRange(res.rows) /\ yAxis' = YRange(res.rows)
    BY <1>7, Zenon DEF valuesReceived, onValsChanged, XRange, YRange
  <2> QED BY <1>3, <1>7, <2>1, <2>2, Zenon DEF valuesReceived, res
<1> QED BY <1>4, <1>5, <1>6, <1>7, Zenon DEF Received

(* Whatever is made up of what is no response.                             *)
LEMMA MisledShows ==
  ASSUME Misled
  PROVE  /\ m_vars' \in {m_vars, Garbled}
         /\ m_vals' \in {m_vals, Garbled}
         /\ UNCHANGED axes \/ (xTime' = Garbled /\ yAxis' = Garbled)
BY Zenon DEF Misled, models, axes

(* The slots run for the signal onReadyRead has made, if it has made one.  *)
LEMMA ReceiveIs ==
  ASSUME ServiceInv, CP!IInv, Receive
  PROVE  \/ signals' = signals /\ UNCHANGED <<out, models>>
         \/ signals' # signals /\ Misled
         \/ /\ signals' # signals
            /\ \E k \in DOMAIN replies[hmi] :
                 /\ signals'[Len(signals')] = k
                 /\ ~CP!Silent(replies[hmi][k])
                 /\ Received(replies[hmi][k])
<1>1. Cl!Read /\ Slots
  BY Zenon DEF Receive
<1>2. \/ signals' = signals
      \/ \E k \in {0} \cup DOMAIN ends : /\ signals' = Append(signals, k)
                                         /\ k # 0 => ~CP!Silent(replies[hmi][k])
  BY <1>1, SameRead, CP!ReadSignals, ClientHere
<1>3. /\ signals \in Seq(Nat) /\ DOMAIN ends = DOMAIN replies[hmi]
      /\ DOMAIN ends \subseteq Nat
  BY DEF CP!IInv, CP!TypeOK
<1>4. CASE signals' = signals
  BY <1>1, <1>4 DEF Slots
<1>5. ASSUME signals' # signals, NEW k \in {0} \cup DOMAIN ends, signals' = Append(signals, k),
             k # 0 => ~CP!Silent(replies[hmi][k])
      PROVE  \/ Misled
             \/ \E j \in DOMAIN replies[hmi] :
                  /\ signals'[Len(signals')] = j
                  /\ ~CP!Silent(replies[hmi][j])
                  /\ Received(replies[hmi][j])
  <2>1. signals'[Len(signals')] = k
    BY <1>3, <1>5
  <2>2. IF k = 0 THEN Misled ELSE Received(replies[hmi][k])
    BY <1>1, <1>5, <2>1 DEF Slots
  <2> QED BY <1>3, <1>5, <2>1, <2>2
<1> QED BY <1>2, <1>4, <1>5

LEMMA NextTypes ==
  ASSUME TypeOK, ServiceInv, ServiceInv', CP!IInv, CP!IInv', Onwards, Next
  PROVE  TypeOK'
<1>1. Cl!TypeOK'
  <2>1. (Cl!TypeOK <=> CP!TypeOK)'
    BY SameState, PTL
  <2> QED BY <2>1 DEF CP!IInv
<1>2. /\ m_vars \in {Placeholders, Garbled} \/ m_vars \in Seq(Names)
      /\ m_vals = Garbled \/ m_vals \subseteq DOMAIN readings
      /\ m_wTimer \in {"running", "fired"}
      /\ xTime \in {Zoomed, Garbled} \/ xTime \in Nat \X Nat
      /\ yAxis \in {Zoomed, Garbled} \/ yAxis \in Int \X Int
  BY DEF TypeOK
<1>3. DOMAIN readings \subseteq DOMAIN readings'
  BY GrowsOver DEF ServiceInv, ServiceTypes, Onwards
<1>4. ASSUME UNCHANGED <<m_vars, m_vals>>, m_wTimer' \in {m_wTimer, "fired"},
             UNCHANGED axes \/ (xTime' = Zoomed /\ yAxis' = Zoomed)
      PROVE  TypeOK'
  BY <1>1, <1>2, <1>3, <1>4 DEF TypeOK, axes
<1>5. CASE Own
  BY <1>4, <1>5, OwnStep DEF ServiceInv, TypeOK
<1>6. CASE Connected \/ Lost \/ Send \/ Execute \/ Deliver \/ Others
  <2>1. UNCHANGED App
    BY <1>6, Zenon DEF Connected, Lost, Send, Execute, Deliver, Others
  <2> QED BY <1>4, <2>1 DEF App, models
<1>7. CASE Receive
  <2>1. UNCHANGED <<registry, readings, m_wTimer>>
    BY <1>7, ReceiveService DEF serviceVars
  <2>2. ASSUME /\ m_vars' \in {m_vars, Garbled} \/ m_vars' \in Seq(Names)
               /\ m_vals' \in {m_vals, Garbled} \/ m_vals' \subseteq DOMAIN readings
               /\ xTime' \in {xTime, Garbled} \/ xTime' \in Nat \X Nat
               /\ yAxis' \in {yAxis, Garbled} \/ yAxis' \in Int \X Int
        PROVE  TypeOK'
    BY <1>1, <1>2, <2>1, <2>2 DEF TypeOK
  <2>3. CASE signals' = signals /\ UNCHANGED <<out, models>>
    BY <2>2, <2>3 DEF models, axes
  <2>4. CASE Misled
    BY <2>2, <2>4, MisledShows DEF axes
  <2>5. ASSUME NEW k \in DOMAIN replies[hmi], ~CP!Silent(replies[hmi][k]),
               Received(replies[hmi][k])
        PROVE  TypeOK'
    <3> DEFINE res == replies[hmi][k]
    <3>1. CASE /\ m_vars' = FirstOf(res.size)
               /\ res.size \in 0..Len(registry)
               /\ UNCHANGED <<out, m_vals, xTime, yAxis>>
      <4>1. FirstOf(res.size) \in Seq(Names)
        BY <3>1, FirstNames DEF ServiceInv, ServiceTypes
      <4> QED BY <2>2, <3>1, <4>1
    <3>2. CASE /\ m_vals' = res.rows
               /\ m_vals' # {} /\ m_vals' \subseteq DOMAIN readings
               /\ xTime' = XRange(res.rows) /\ yAxis' = YRange(res.rows)
               /\ UNCHANGED <<out, m_vars>>
      <4>1. xTime' \in Nat \X Nat /\ yAxis' \in Int \X Int
        BY <3>2, RangesHold DEF ServiceInv
      <4> QED BY <2>2, <3>2, <4>1
    <3>3. CASE UNCHANGED <<m_vars, m_vals, xTime, yAxis>>
      BY <2>2, <3>3
    <3> QED BY <2>5, <3>1, <3>2, <3>3, ReceivedShows
  <2> QED BY <1>7, <2>3, <2>4, <2>5, ReceiveIs
<1> QED BY <1>5, <1>6, <1>7 DEF Next, Own, Environment
-----------------------------------------------------------------------------
(* What is shown, when nothing is told.                                    *)

LEMMA ToldType ==
  ASSUME ServiceInv, NEW k \in Told
  PROVE  /\ k \in DOMAIN replies[hmi] /\ k \in Nat
         /\ k \in DOMAIN asked[hmi] /\ k <= Len(Issued)
<1>1. k \in DOMAIN replies[hmi]
  BY DEF Told
<1>2. k \in DOMAIN asked[hmi] /\ k \in Nat
  BY <1>1, ReplyFits
<1>3. k <= Len(Issued)
  <2>1. asked[hmi] \in Seq(Asks) /\ out \in Seq(Asks)
    BY DEF ServiceInv, ServiceTypes
  <2>2. Len(Issued) = Len(asked[hmi]) + Len(out)
    BY IssuedIs DEF ServiceInv
  <2>3. Len(asked[hmi]) \in Nat /\ Len(out) \in Nat /\ k \in 1..Len(asked[hmi])
    BY <1>2, <2>1
  <2> QED BY <2>2, <2>3
<1> QED BY <1>1, <1>2, <1>3

LEMMA ToldKept ==
  ASSUME ServiceInv, ServiceTypes', CP!IInv, ~cut, Onwards, UNCHANGED signals
  PROVE  /\ Told' = Told
         /\ \A k \in Told : replies'[hmi][k] = replies[hmi][k]
         /\ ToldLists' = ToldLists /\ ToldValues' = ToldValues /\ Added' = Added
<1>1. \A k \in DOMAIN replies[hmi] : /\ k \in DOMAIN replies'[hmi]
                                     /\ replies'[hmi][k] = replies[hmi][k]
  BY GrowsOver DEF ServiceInv, ServiceTypes, Onwards
<1>2. \A i \in DOMAIN signals : signals[i] \in Told
  BY SignalsAreTold DEF SignalsTold
<1>3. \A k \in Told : k \in DOMAIN replies[hmi]
  BY DEF Told
<1>4. Told' = Told
  <2>1. \A k : k \in Told => k \in Told'
    BY <1>1 DEF Told
  <2>2. \A k : k \in Told' => k \in Told
    BY <1>2 DEF Told
  <2> QED BY <2>1, <2>2
<1>5. \A k \in Told : replies'[hmi][k] = replies[hmi][k]
  BY <1>1, <1>3
<1>6. ToldLists' = ToldLists /\ ToldValues' = ToldValues
  BY <1>4, <1>5 DEF ToldLists, ToldValues, IsList, IsValues
<1>7. Added' = Added
  BY <1>4, <1>5 DEF Added
<1> QED BY <1>4, <1>5, <1>6, <1>7

LEMMA FirstOfKept ==
  ASSUME registry \in Seq(Names), registry' \in Seq(Names), Grows(registry, registry'),
         NEW n \in 0..Len(registry)
  PROVE  FirstOf(n)' = FirstOf(n)
<1>1. \A id \in 1..n : registry'[id] = registry[id]
  BY DEF Grows
<1> QED BY <1>1 DEF FirstOf

LEMMA RangesKept ==
  ASSUME ServiceTypes, ServiceTypes', Onwards,
         NEW vals, vals \subseteq DOMAIN readings, vals # {}
  PROVE  XRange(vals)' = XRange(vals) /\ YRange(vals)' = YRange(vals)
<1>1. \A id \in DOMAIN readings : readings'[id] = readings[id]
  BY GrowsOver DEF ServiceTypes, Onwards
<1>2. Min(vals) \in vals /\ Max(vals) \in vals
  BY RangesHold
<1>3. XRange(vals)' = XRange(vals)
  <2>1. readings'[Min(vals)] = readings[Min(vals)] /\ readings'[Max(vals)] = readings[Max(vals)]
    BY <1>1, <1>2
  <2> QED BY <2>1 DEF XRange
<1>4. YRange(vals)' = YRange(vals)
  <2>1. {readings'[id].val : id \in vals} = {readings[id].val : id \in vals}
    BY <1>1
  <2> QED BY <2>1 DEF YRange
<1> QED BY <1>3, <1>4

LEMMA NothingTold ==
  ASSUME ServiceInv, ServiceInv', CP!IInv, Onwards, WindowInv,
         UNCHANGED <<signals, cut, m_vars, m_vals>>,
         socket' # "closed" => socket # "closed" /\ Grows(Issued, Issued'),
         Refreshing' => Refreshing,
         \/ UNCHANGED axes
         \/ /\ xTime' = Zoomed
            /\ socket' # "closed" =>
                 \E k \in DOMAIN Issued' : k > Len(Issued) /\ IsSelection(Issued'[k])
  PROVE  WindowInv'
<1>1. CASE cut
  BY <1>1 DEF WindowInv
<1>2. CASE ~cut
  <2>1. ListInv /\ ChartInv /\ AxesInv /\ ZoomInv /\ RefreshInv /\ CauseInv
    BY <1>2 DEF WindowInv
  <2>2. ServiceTypes /\ ServiceTypes'
    BY DEF ServiceInv
  <2>3. /\ Told' = Told
        /\ \A k \in Told : replies'[hmi][k] = replies[hmi][k]
        /\ ToldLists' = ToldLists /\ ToldValues' = ToldValues /\ Added' = Added
    BY <1>2, <2>2, ToldKept
  <2>4. ToldLists \subseteq Told /\ ToldValues \subseteq Told
    BY DEF ToldLists, ToldValues
  <2>5. ListInv'
    <3>1. CASE ToldLists = {} /\ m_vars = Placeholders
      BY <2>3, <3>1 DEF ListInv
    <3>2. ASSUME NEW k \in ToldLists, \A j \in ToldLists : j <= k,
                 m_vars = FirstOf(replies[hmi][k].size)
          PROVE  ListInv'
      <4> DEFINE n == replies[hmi][k].size
      <4>1. n \in 0..Len(registry)
        <5>1. k \in DOMAIN replies[hmi] /\ IsList(replies[hmi][k])
          BY DEF ToldLists, Told
        <5> QED BY <5>1, ReplyFits, FitsSays
      <4>2. replies'[hmi][k].size = n
        BY <2>3, <2>4
      <4>3. PICK m \in 0..Len(registry) : m = n
        BY <4>1
      <4>4. FirstOf(m)' = FirstOf(m)
        BY <2>2, FirstOfKept DEF ServiceTypes, Onwards
      <4> HIDE DEF n
      <4>5. m_vars' = FirstOf(m)' /\ replies'[hmi][k].size = m
        BY <3>2, <4>2, <4>3, <4>4 DEF n
      <4>6. (m_vars = FirstOf(replies[hmi][k].size))'
        BY <4>5 DEF FirstOf
      <4> QED BY <2>3, <3>2, <4>6 DEF ListInv
    <3> QED BY <2>1, <3>1, <3>2 DEF ListInv
  <2>6. ChartInv'
    BY <2>1, <2>3, <2>4 DEF ChartInv
  <2>7. AxesInv'
    <3>1. CASE UNCHANGED axes /\ m_vals # {} /\ xTime # Zoomed
      <4>1. m_vals \subseteq DOMAIN readings
        <5>1. PICK k \in ToldValues : m_vals = replies[hmi][k].rows
          BY <2>1, <3>1 DEF ChartInv
        <5>2. k \in DOMAIN replies[hmi] /\ IsValues(replies[hmi][k])
          BY DEF ToldValues, Told
        <5> QED BY <5>1, <5>2, HeardOf
      <4>2. PICK vals : vals = m_vals
        OBVIOUS
      <4>3. XRange(vals)' = XRange(vals) /\ YRange(vals)' = YRange(vals)
        BY <2>2, <3>1, <4>1, <4>2, RangesKept
      <4>4. xTime = XRange(vals) /\ yAxis = YRange(vals)
        BY <2>1, <3>1, <4>2 DEF AxesInv
      <4>5. xTime' = XRange(vals)' /\ yAxis' = YRange(vals)' /\ m_vals' = vals
        BY <3>1, <4>2, <4>3, <4>4 DEF axes
      <4> QED BY <4>5 DEF AxesInv, XRange, YRange
    <3>2. CASE UNCHANGED axes /\ ~(m_vals # {} /\ xTime # Zoomed)
      BY <3>2 DEF AxesInv, axes
    <3>3. CASE xTime' = Zoomed
      BY <3>3 DEF AxesInv
    <3> QED BY <3>1, <3>2, <3>3
  <2>8. ZoomInv'
    <3> SUFFICES ASSUME socket' # "closed", xTime' = Zoomed
                 PROVE  \E k \in DOMAIN Issued' : /\ IsSelection(Issued'[k])
                                                  /\ \A j \in ToldValues' : j < k
      BY DEF ZoomInv, IsSelection
    <3>0. /\ Issued \in Seq(Asks) /\ Issued' \in Seq(Asks)
      <4>1. (ServiceTypes => Issued \in Seq(Asks))'
        BY IssuedIs, PTL
      <4> QED BY <2>2, <4>1, IssuedIs
    <3>1. CASE UNCHANGED axes
      <4>1. PICK k \in DOMAIN Issued : IsSelection(Issued[k]) /\ \A j \in ToldValues : j < k
        BY <2>1, <3>1 DEF ZoomInv, axes
      <4>2. k \in DOMAIN Issued' /\ Issued'[k] = Issued[k]
        BY <3>0, GrowsOver
      <4> QED BY <2>3, <4>1, <4>2
    <3>2. CASE \E k \in DOMAIN Issued' : k > Len(Issued) /\ IsSelection(Issued'[k])
      <4>1. PICK k \in DOMAIN Issued' : k > Len(Issued) /\ IsSelection(Issued'[k])
        BY <3>2
      <4>2. k \in Nat /\ Len(Issued) \in Nat
        BY <3>0
      <4>3. \A j \in ToldValues : j < k
        <5> TAKE j \in ToldValues
        <5>1. j \in Nat /\ j <= Len(Issued)
          BY <2>4, ToldType
        <5> QED BY <4>1, <4>2, <5>1
      <4> QED BY <2>3, <4>1, <4>3
    <3> QED BY <3>1, <3>2
  <2>9. RefreshInv'
    <3> SUFFICES ASSUME socket' # "closed", NEW k \in Added
                 PROVE  \E j \in DOMAIN Issued' : j > k /\ Issued'[j] = GetVariables
      BY <2>3 DEF RefreshInv
    <3>1. PICK j \in DOMAIN Issued : j > k /\ Issued[j] = GetVariables
      BY <2>1 DEF RefreshInv
    <3>2. j \in DOMAIN Issued' /\ Issued'[j] = Issued[j]
      <4>1. (ServiceTypes => Issued \in Seq(Asks))'
        BY IssuedIs, PTL
      <4> QED BY <2>2, <4>1, IssuedIs, GrowsOver
    <3> QED BY <3>1, <3>2
  <2>10. CauseInv'
    BY <2>1, <2>3 DEF CauseInv
  <2> QED BY <2>5, <2>6, <2>7, <2>8, <2>9, <2>10 DEF WindowInv
<1> QED BY <1>1, <1>2

LEMMA IssuedMore ==
  ASSUME ServiceTypes, UNCHANGED asked, NEW req \in Asks, out' = Append(out, req)
  PROVE  /\ Issued' = Append(Issued, req)
         /\ Grows(Issued, Issued')
         /\ Len(Issued) \in Nat
         /\ Len(Issued) + 1 \in DOMAIN Issued' /\ Issued'[Len(Issued) + 1] = req
<1>1. /\ asked[hmi] \in Seq(Asks) /\ out \in Seq(Asks) /\ Issued \in Seq(Asks)
      /\ asked'[hmi] = asked[hmi]
  BY IssuedIs DEF ServiceTypes
<1>2. Issued' = Append(Issued, req)
  <2>1. \A s, t \in Seq(Asks) : s \o Append(t, req) = Append(s \o t, req)
    BY AppendLater
  <2> QED BY <1>1, <2>1 DEF Issued
<1> QED BY <1>1, <1>2, GrowsByOne

(* What is shown, when the models are told of a response.                  *)
LEMMA SomethingTold ==
  ASSUME IInv, ServiceInv', CP!IInv', Receive, ~cut', signals' # signals
  PROVE  WindowInv'
<1>1. /\ TypeOK /\ CP!IInv /\ ServiceInv /\ WindowInv
      /\ ServiceTypes /\ Cl!Read /\ Slots
  BY Zenon DEF IInv, ServiceInv, Receive
<1>2. /\ UNCHANGED <<socket, registry, readings, asked, replies>>
      /\ out' = out \/ out' = Append(out, GetVariables)
  BY <1>1, ReceiveService DEF serviceVars, linkVars
<1>3. PICK k \in DOMAIN replies[hmi] :
         /\ ~cut
         /\ signals'[Len(signals')] = k
         /\ ~CP!Silent(replies[hmi][k])
         /\ Told' = Told \cup {k}
         /\ \A j \in Told : j < k
  BY <1>1, <1>2, ReadTells
<1>4. ListInv /\ ChartInv /\ AxesInv /\ ZoomInv /\ RefreshInv /\ CauseInv
  BY <1>1, <1>3 DEF WindowInv
<1> DEFINE res == replies[hmi][k]
<1>5. /\ k \in Nat /\ k \in DOMAIN asked[hmi]
      /\ Fits(asked[hmi][k], res)
  BY <1>1, ReplyFits
<1>6. Received(res)
  <2>1. k # 0
    BY <1>1, <1>3 DEF ServiceTypes
  <2> QED BY <1>1, <1>3, <2>1 DEF Slots
<1>7. /\ IsAddition(res) => ~IsList(res) /\ ~IsValues(res)
      /\ IsList(res) => ~IsValues(res)
  <2>1. IsAddition(res) => res.msg_type = "RESPONSE_FAILURE"
    BY <1>5, FitsSays
  <2> QED BY <2>1 DEF IsList, IsValues
<1>8. \/ /\ IsList(res)
         /\ m_vars' = FirstOf(res.size)
         /\ res.size \in 0..Len(registry)
         /\ UNCHANGED <<out, m_vals, xTime, yAxis>>
      \/ /\ IsValues(res)
         /\ m_vals' = res.rows
         /\ m_vals' # {} /\ m_vals' \subseteq DOMAIN readings
         /\ xTime' = XRange(res.rows)
         /\ yAxis' = YRange(res.rows)
         /\ UNCHANGED <<out, m_vars>>
      \/ /\ ~IsList(res) /\ ~IsValues(res)
         /\ UNCHANGED <<m_vars, m_vals, xTime, yAxis>>
         /\ IF IsAddition(res) THEN Cl!request_vars ELSE UNCHANGED out
  BY <1>1, <1>3, <1>6, ReceivedShows
<1>9. /\ ToldLists' = ToldLists \cup (IF IsList(res) THEN {k} ELSE {})
      /\ ToldValues' = ToldValues \cup (IF IsValues(res) THEN {k} ELSE {})
      /\ Added' = Added \cup (IF IsAddition(res) THEN {k} ELSE {})
      /\ \A j \in ToldLists \cup ToldValues : j < k
  <2>1. ToldLists' = ToldLists \cup (IF IsList(res) THEN {k} ELSE {})
    BY <1>2, <1>3 DEF ToldLists, IsList
  <2>2. ToldValues' = ToldValues \cup (IF IsValues(res) THEN {k} ELSE {})
    BY <1>2, <1>3 DEF ToldValues, IsValues
  <2>3. Added' = Added \cup (IF IsAddition(res) THEN {k} ELSE {})
    BY <1>2, <1>3 DEF Added, IsAddition
  <2>4. \A j \in ToldLists \cup ToldValues : j < k
    BY <1>3 DEF ToldLists, ToldValues
  <2> QED BY <2>1, <2>2, <2>3, <2>4
<1>10. /\ Grows(Issued, Issued') /\ Issued \in Seq(Asks) /\ Issued' \in Seq(Asks)
  <2>1. GetVariables \in Asks /\ Issued \in Seq(Asks)
    BY <1>1, AsksHas, IssuedIs
  <2>2. (ServiceTypes => Issued \in Seq(Asks))'
    BY IssuedIs, PTL
  <2>3. CASE out' = out
    <3>1. Issued' = Issued
      BY <1>2, <2>3 DEF Issued
    <3> QED BY <2>1, <3>1, GrowsSelf
  <2>4. CASE out' = Append(out, GetVariables)
    <3>1. Grows(Issued, Issued')
      BY <1>1, <1>2, <2>1, <2>4, IssuedMore
    <3> QED BY <2>1, <2>2, <3>1 DEF ServiceInv
  <2> QED BY <1>2, <2>3, <2>4
<1>11. /\ \A j \in DOMAIN Issued : j \in DOMAIN Issued' /\ Issued'[j] = Issued[j]
  BY <1>10, GrowsOver
<1>12. ToldLists \cup ToldValues \subseteq Nat
  <2>1. \A j \in Told : j \in Nat
    BY <1>1, ToldType
  <2> QED BY <2>1 DEF ToldLists, ToldValues
<1>13. replies'[hmi] = replies[hmi] /\ \A n : FirstOf(n)' = FirstOf(n)
  BY <1>2 DEF FirstOf
<1>14. ListInv'
  <2>1. CASE IsList(res)
    <3>1. k \in ToldLists' /\ \A j \in ToldLists' : j <= k
      BY <1>5, <1>9, <1>12, <2>1
    <3>2. m_vars' = FirstOf(replies[hmi][k].size)
      BY <1>7, <1>8, <2>1
    <3>3. (m_vars = FirstOf(replies[hmi][k].size))'
      BY <1>2, <1>13, <3>2 DEF FirstOf
    <3> QED BY <3>1, <3>3 DEF ListInv
  <2>2. CASE ~IsList(res)
    <3>1. ToldLists' = ToldLists /\ m_vars' = m_vars
      BY <1>8, <1>9, <2>2
    <3> QED BY <1>2, <1>4, <3>1 DEF ListInv, FirstOf
  <2> QED BY <2>1, <2>2
<1>15. ChartInv'
  <2>1. CASE IsValues(res)
    <3>1. k \in ToldValues' /\ \A j \in ToldValues' : j <= k
      BY <1>5, <1>9, <1>12, <2>1
    <3>2. m_vals' = replies'[hmi][k].rows
      BY <1>7, <1>8, <1>13, <2>1
    <3> QED BY <3>1, <3>2 DEF ChartInv
  <2>2. CASE ~IsValues(res)
    <3>1. ToldValues' = ToldValues /\ m_vals' = m_vals
      BY <1>8, <1>9, <2>2
    <3> QED BY <1>13, <1>4, <3>1 DEF ChartInv
  <2> QED BY <2>1, <2>2
<1>16. AxesInv'
  <2>1. CASE IsValues(res)
    <3>1. m_vals' = res.rows /\ xTime' = XRange(res.rows) /\ yAxis' = YRange(res.rows)
      BY <1>7, <1>8, <2>1
    <3> QED BY <1>2, <3>1 DEF AxesInv, XRange, YRange
  <2>2. CASE ~IsValues(res)
    <3>1. UNCHANGED <<m_vals, xTime, yAxis>>
      BY <1>8, <2>2
    <3> QED BY <1>2, <1>4, <3>1 DEF AxesInv, XRange, YRange
  <2> QED BY <2>1, <2>2
<1>17. ZoomInv'
  <2>1. CASE IsValues(res)
    <3>1. xTime' \in Nat \X Nat
      <4>1. xTime' = XRange(res.rows) /\ res.rows # {} /\ res.rows \subseteq DOMAIN readings
        BY <1>7, <1>8, <2>1
      <4> HIDE DEF res
      <4> QED BY <1>1, <4>1, RangesHold
    <3>2. xTime' # Zoomed
      BY <3>1, HmiAssumption
    <3> QED BY <3>2 DEF ZoomInv
  <2>2. CASE ~IsValues(res)
    <3>1. ToldValues' = ToldValues /\ xTime' = xTime
      BY <1>8, <1>9, <2>2
    <3> QED BY <1>2, <1>4, <1>11, <3>1 DEF ZoomInv
  <2> QED BY <2>1, <2>2
<1>18. RefreshInv'
  <2> SUFFICES ASSUME socket # "closed", NEW a \in Added'
               PROVE  \E j \in DOMAIN Issued' : j > a /\ Issued'[j] = GetVariables
    BY <1>2 DEF RefreshInv
  <2>1. CASE a \in Added
    BY <1>4, <1>11, <2>1 DEF RefreshInv
  <2>2. CASE IsAddition(res) /\ a = k
    <3>1. socket = "connected"
      <4>1. asked[hmi] # <<>>
        BY <1>5
      <4>2. socket \notin {"unconnected", "connecting"}
        BY <1>1, <4>1 DEF ServiceInv, LinkInv
      <4> QED BY <1>1, <4>2 DEF TypeOK, Cl!TypeOK
    <3>2. Cl!write(GetVariables)
      BY <1>7, <1>8, <2>2 DEF Cl!request_vars, GetVariables, Cl!GetVariables
    <3>3. out' = Append(out, GetVariables)
      BY <3>1, <3>2 DEF Cl!write
    <3>4. /\ Len(Issued) + 1 \in DOMAIN Issued'
          /\ Issued'[Len(Issued) + 1] = GetVariables /\ Len(Issued) \in Nat
      BY <1>1, <1>2, <3>3, IssuedMore, AsksHas
    <3>5. k <= Len(Issued)
      <4>1. k \in 1..Len(asked[hmi]) /\ Len(asked[hmi]) \in Nat /\ Len(out) \in Nat
        BY <1>1, <1>5 DEF ServiceTypes
      <4>2. Len(Issued) = Len(asked[hmi]) + Len(out)
        BY <1>1, IssuedIs
      <4> QED BY <4>1, <4>2
    <3>6. Len(Issued) + 1 > k
      BY <1>5, <3>4, <3>5
    <3> QED BY <2>2, <3>4, <3>6
  <2> QED BY <1>9, <2>1, <2>2
<1>19. CauseInv'
  <2>1. CASE IsAddition(res)
    BY <1>9, <2>1 DEF CauseInv
  <2>2. CASE ~IsAddition(res)
    <3>1. out' = out
      BY <1>8, <2>2
    <3>2. Issued' = Issued
      BY <1>2, <3>1 DEF Issued
    <3>3. Added' = Added
      BY <1>9, <2>2
    <3>4. Refreshing' => Refreshing
      BY <3>2 DEF Refreshing
    <3> QED BY <1>4, <3>3, <3>4 DEF CauseInv
  <2> QED BY <2>1, <2>2
<1> QED BY <1>14, <1>15, <1>16, <1>17, <1>18, <1>19 DEF WindowInv
-----------------------------------------------------------------------------
(* The invariant holds at the start and every step preserves it.           *)

LEMMA NextWindow ==
  ASSUME IInv, ServiceInv', CP!IInv', Onwards, Next
  PROVE  WindowInv'
<1>1. /\ TypeOK /\ CP!IInv /\ ServiceInv /\ WindowInv /\ Cl!TypeOK
      /\ ServiceTypes /\ ServiceTypes' /\ LinkInv
  BY DEF IInv, ServiceInv, TypeOK
<1>2. Issued \in Seq(Asks) /\ asked \in [{hmi} -> Seq(Asks)]
  BY <1>1, IssuedIs DEF ServiceTypes
<1>3. ASSUME UNCHANGED <<signals, cut, m_vars, m_vals, axes>>, Issued' = Issued,
             socket' # "closed" => socket # "closed"
      PROVE  WindowInv'
  <2>1. Grows(Issued, Issued')
    BY <1>2, <1>3, GrowsSelf
  <2>2. Refreshing' => Refreshing
    BY <1>3 DEF Refreshing
  <2> QED BY <1>1, <1>3, <2>1, <2>2, NothingTold
<1>4. CASE Own
  <2>1. /\ UNCHANGED <<serviceVars, ends, readVars, m_vars, m_vals>>
        /\ socket = "closed" => socket' = "closed"
        /\ \/ out' = out
           \/ \E req \in Asks \ {GetVariables} : out' = Append(out, req)
           \/ socket' = "closed" /\ out' = <<>>
        /\ \/ UNCHANGED axes
           \/ /\ xTime' = Zoomed /\ yAxis' = Zoomed
              /\ socket' # "closed" =>
                   \E req \in Asks : out' = Append(out, req) /\ IsSelection(req)
    BY <1>1, <1>4, OwnStep
  <2>2. UNCHANGED <<asked, signals, cut, m_vars, m_vals>>
    BY <2>1 DEF serviceVars, linkVars, readVars
  <2>3. /\ socket' # "closed" => socket # "closed" /\ Grows(Issued, Issued')
        /\ Refreshing' => Refreshing
    BY <1>1, <2>1, <2>2, OwnIssued
  <2>4. \/ UNCHANGED axes
        \/ /\ xTime' = Zoomed
           /\ socket' # "closed" =>
                \E k \in DOMAIN Issued' : k > Len(Issued) /\ IsSelection(Issued'[k])
    <3>1. ASSUME NEW req \in Asks, out' = Append(out, req), IsSelection(req)
          PROVE  \E k \in DOMAIN Issued' : k > Len(Issued) /\ IsSelection(Issued'[k])
      <4>1. /\ Len(Issued) + 1 \in DOMAIN Issued' /\ Issued'[Len(Issued) + 1] = req
            /\ Len(Issued) \in Nat
        BY <1>1, <2>2, <3>1, IssuedMore
      <4>2. Len(Issued) + 1 > Len(Issued)
        BY <4>1
      <4> QED BY <3>1, <4>1, <4>2
    <3> QED BY <2>1, <3>1
  <2> QED BY <1>1, <2>2, <2>3, <2>4, NothingTold
<1>5. CASE Connected
  <2>1. UNCHANGED <<asked, out, signals, cut, m_vars, m_vals, axes>> /\ socket = "connecting"
    BY <1>5 DEF Connected, Svc!Open, Cl!Connected, App, readVars, models
  <2> QED BY <1>3, <2>1 DEF Issued
<1>6. CASE Lost
  <2>1. /\ UNCHANGED <<asked, signals, cut, m_vars, m_vals, axes>>
        /\ socket' = "closed" /\ out' = <<>>
    BY <1>6 DEF Lost, Svc!Break, Cl!Closed, App, readVars, models
  <2>2. Refreshing' => Refreshing
    BY <1>1, <2>1, OwnIssued
  <2> QED BY <1>1, <2>1, <2>2, NothingTold
<1>7. CASE Send
  <2>1. UNCHANGED <<socket, signals, cut, m_vars, m_vals, axes>>
    BY <1>7 DEF Send, Cl!Flush, App, readVars, models
  <2>2. Issued' = Issued
    BY <1>1, <1>7, SendIssued
  <2> QED BY <1>3, <2>1, <2>2
<1>8. CASE Execute \/ Deliver \/ Others
  <2>1. UNCHANGED <<socket, out, asked, App>>
    <3>1. CASE Execute
      BY <3>1 DEF Execute, Svc!Execute, socketVars
    <3>2. CASE Deliver
      BY <3>2 DEF Deliver, Svc!Deliver, socketVars
    <3>3. CASE Others
      BY <3>3 DEF Others, linkVars, socketVars
    <3> QED BY <1>8, <3>1, <3>2, <3>3
  <2>2. UNCHANGED <<signals, cut, m_vars, m_vals, axes>>
    BY <2>1 DEF App, readVars, models
  <2> QED BY <1>3, <2>1, <2>2 DEF Issued
<1>9. CASE Receive
  <2>1. /\ UNCHANGED <<socket, asked>>
        /\ cut => cut'
        /\ cut \in BOOLEAN /\ cut' \in BOOLEAN
    <3>1. Cl!Read
      BY <1>9, Zenon DEF Receive
    <3>2. cut => cut'
      BY <1>1, <3>1, SameRead, CP!ReadSignals, ClientHere
    <3>3. cut \in BOOLEAN /\ cut' \in BOOLEAN
      BY <1>1 DEF CP!IInv, CP!TypeOK
    <3> QED BY <1>1, <1>9, <3>2, <3>3, ReceiveService DEF serviceVars, linkVars
  <2>2. CASE cut'
    BY <2>2 DEF WindowInv
  <2>3. CASE ~cut' /\ signals' # signals
    BY <1>9, <2>3, SomethingTold
  <2>4. CASE ~cut' /\ signals' = signals
    <3>1. UNCHANGED <<out, models>>
      BY <1>9, <2>4, Zenon DEF Receive, Slots
    <3>2. cut' = cut
      <4>1. \A b, c \in BOOLEAN : ~b /\ ~c => c = b
        OBVIOUS
      <4>2. cut \in BOOLEAN /\ cut' \in BOOLEAN
        BY <2>1
      <4>3. ~cut /\ ~cut'
        BY <2>1, <2>4
      <4> QED BY <4>1, <4>2, <4>3, Zenon
    <3> QED BY <1>3, <2>1, <2>4, <3>1, <3>2 DEF models, Issued
  <2> QED BY <2>2, <2>3, <2>4
<1> QED BY <1>4, <1>5, <1>6, <1>7, <1>8, <1>9 DEF Next, Own, Environment

LEMMA InitIInv == Init => IInv
<1> SUFFICES ASSUME Init PROVE IInv
  OBVIOUS
<1>1. /\ registry = <<>> /\ readings = <<>>
      /\ link = [c \in {hmi} |-> "none"] /\ asked = [c \in {hmi} |-> <<>>]
      /\ owed = [c \in {hmi} |-> <<>>] /\ held = [c \in {hmi} |-> <<>>]
      /\ replies = [c \in {hmi} |-> <<>>]
  BY DEF Init, Svc!Init, Svc!Log!Init
<1>2. socket = "unconnected" /\ out = <<>> /\ signals = <<>> /\ Cl!Init
  BY DEF Init, Cl!Init
<1>3. CP!IInv
  BY <1>2, SameInit, CP!InitIInv, ClientHere
<1>4. /\ replies[hmi] = <<>> /\ asked[hmi] = <<>> /\ owed[hmi] = <<>> /\ held[hmi] = <<>>
      /\ link[hmi] = "none"
  BY <1>1
<1>5. Given = <<>>
  BY <1>4 DEF Given
<1>6. ServiceTypes
  <2>1. <<>> \in Seq(Names) /\ <<>> \in Seq(Reading) /\ <<>> \in Seq(Asks) /\ <<>> \in Seq(Responses)
    OBVIOUS
  <2>2. Len(readings) <= MaxReadings
    BY <1>1, HmiAssumption
  <2>3. \A i, j \in DOMAIN registry : registry[i] = registry[j] => i = j
    BY <1>1
  <2> QED BY <1>1, <1>2, <2>1, <2>2, <2>3 DEF ServiceTypes
<1>7. LinkInv
  BY <1>2, <1>4, <1>5 DEF LinkInv
<1>8. FitsInv /\ OrderInv
  BY <1>5 DEF FitsInv, OrderInv
<1>9. TypeOK
  <2>1. Cl!TypeOK
    BY <1>3, SameState DEF CP!IInv
  <2>2. /\ m_vars = Placeholders /\ m_vals = {} /\ m_wTimer = "running"
        /\ xTime = <<0, 0>> /\ yAxis = <<-10 * One, 10 * One>>
    BY DEF Init
  <2>3. xTime \in Nat \X Nat /\ yAxis \in Int \X Int
    <3>1. One \in Nat
      BY HmiAssumption
    <3>2. -10 * One \in Int /\ 10 * One \in Int
      BY <3>1
    <3> QED BY <2>2, <3>2
  <2> QED BY <2>1, <2>2, <2>3 DEF TypeOK
<1>10. WindowInv
  <2>1. Told = {}
    BY <1>4 DEF Told
  <2>2. ToldLists = {} /\ ToldValues = {} /\ Added = {}
    BY <2>1 DEF ToldLists, ToldValues, Added
  <2>3. Issued = <<>>
    BY <1>2, <1>4 DEF Issued
  <2>4. m_vars = Placeholders /\ m_vals = {} /\ xTime # Zoomed
    <3>1. <<0, 0>> \in Nat \X Nat
      OBVIOUS
    <3> QED BY <3>1, HmiAssumption DEF Init
  <2>5. ListInv /\ ChartInv /\ AxesInv /\ ZoomInv
    BY <2>2, <2>4 DEF ListInv, ChartInv, AxesInv, ZoomInv
  <2>6. RefreshInv /\ CauseInv
    BY <2>2, <2>3 DEF RefreshInv, CauseInv, Refreshing
  <2> QED BY <2>5, <2>6 DEF WindowInv
<1> QED BY <1>3, <1>6, <1>7, <1>8, <1>9, <1>10 DEF IInv, ServiceInv

LEMMA NextIInv ==
  ASSUME IInv, [Next]_vars
  PROVE  IInv'
<1>1. TypeOK /\ CP!IInv /\ ServiceInv /\ WindowInv /\ Cl!TypeOK
  BY DEF IInv, TypeOK
<1>2. CASE Next
  <2>1. ServiceInv' /\ Onwards
    BY <1>1, <1>2, NextService
  <2>2. CP!IInv'
    BY <1>1, <1>2, <2>1, NextClient
  <2>3. TypeOK'
    BY <1>1, <1>2, <2>1, <2>2, NextTypes
  <2>4. WindowInv'
    BY <1>2, <2>1, <2>2, NextWindow
  <2> QED BY <2>1, <2>2, <2>3, <2>4 DEF IInv
<1>3. CASE UNCHANGED vars
  <2>1. UNCHANGED <<socket, out, ends, arrived, taken, phase, signals, cut, joined,
                    registry, readings, link, asked, owed, held, replies,
                    m_vars, m_vals, m_wTimer, xTime, yAxis>>
    BY <1>3 DEF vars, socketVars, readVars, serviceVars, linkVars, models, axes
  <2>2. ServiceInv' /\ Onwards
    <3>1. /\ UNCHANGED serviceVars /\ out' \in Seq(Asks)
          /\ socket' = socket
      BY <1>1, <2>1 DEF serviceVars, linkVars, ServiceInv, ServiceTypes
    <3> QED BY <1>1, <3>1, ServiceKept
  <2>3. CP!IInv'
    <3>1. /\ UNCHANGED <<CP!streamVars, CP!readVars>>
          /\ socket' \in {"unconnected", "connecting", "connected", "closed"}
          /\ out' \in Seq(Requests)
      BY <1>1, <2>1 DEF CP!streamVars, CP!readVars, Cl!TypeOK
    <3> QED BY <1>1, <3>1, CP!OthersInv, ClientHere
  <2>4. TypeOK'
    <3>1. (Cl!TypeOK <=> CP!TypeOK)'
      BY SameState, PTL
    <3>2. Cl!TypeOK'
      BY <2>3, <3>1 DEF CP!IInv
    <3> QED BY <1>1, <2>1, <3>2 DEF TypeOK
  <2>5. WindowInv'
    <3>1. Issued' = Issued
      BY <2>1 DEF Issued
    <3>2. Grows(Issued, Issued') /\ (Refreshing' => Refreshing)
      BY <1>1, <3>1, IssuedIs, GrowsSelf DEF ServiceInv, Refreshing
    <3>3. UNCHANGED axes
      BY <2>1 DEF axes
    <3> QED BY <1>1, <2>1, <2>2, <3>2, <3>3, NothingTold
  <2> QED BY <2>2, <2>3, <2>4, <2>5 DEF IInv
<1> QED BY <1>2, <1>3

LEMMA Inductive == Spec => []IInv
<1>1. Init => IInv
  BY InitIInv
<1>2. IInv /\ [Next]_vars => IInv'
  BY NextIInv
<1> QED BY <1>1, <1>2, PTL DEF Spec

(* The models and the client keep to their types: the list shown is made   *)
(* of names, the chart of readings there are, the axes of numbers, unless  *)
(* a made-up signal or a zoom sets them.                                   *)
THEOREM TypeCorrect == Spec => []TypeOK
<1>1. IInv => TypeOK
  BY DEF IInv
<1> QED BY <1>1, Inductive, PTL
-----------------------------------------------------------------------------
(* What the invariant says of the interface.                               *)

LEMMA QuietIs ==
  ASSUME IInv, Quiet, ~cut
  PROVE  /\ Issued = asked[hmi]
         /\ DOMAIN asked[hmi] = DOMAIN replies[hmi]
         /\ Told = {k \in DOMAIN replies[hmi] : ~CP!Silent(replies[hmi][k])}
<1>1. ServiceTypes /\ LinkInv /\ CP!IInv
  BY DEF IInv, ServiceInv
<1>2. /\ socket = "connected" /\ out = <<>> /\ owed[hmi] = <<>> /\ held[hmi] = <<>>
      /\ taken = CP!Written
  BY SameState DEF Quiet
<1>3. /\ asked[hmi] \in Seq(Asks) /\ replies[hmi] \in Seq(Responses)
      /\ DOMAIN asked[hmi] = 1..Len(asked[hmi]) /\ DOMAIN replies[hmi] = 1..Len(replies[hmi])
  BY <1>1 DEF ServiceTypes
<1>4. Issued = asked[hmi] /\ Given = replies[hmi]
  BY <1>1, <1>2, IssuedIs, GivenIs
<1>5. Len(asked[hmi]) = Len(replies[hmi])
  <2>1. Len(asked[hmi]) = Len(Given) + Len(owed[hmi])
    BY <1>1, <1>2 DEF LinkInv
  <2>2. Len(owed[hmi]) = 0 /\ Len(replies[hmi]) \in Nat
    BY <1>2, <1>3
  <2> QED BY <1>4, <2>1, <2>2
<1>6. CP!Handled = Len(replies[hmi])
  <2>1. CP!Handled = Len(ends)
    BY <1>1, <1>2, CP!AllHandled, ClientHere
  <2> QED BY <1>1, <2>1 DEF CP!IInv, CP!TypeOK
<1>7. Told = {k \in 1..CP!Handled : ~CP!Silent(replies[hmi][k])}
  BY <1>1, ToldIs
<1> QED BY <1>3, <1>4, <1>5, <1>6, <1>7

(* A list that is answered holds what was added before.                    *)
LEMMA AnsweredRefresh ==
  ASSUME ServiceInv, NEW k \in DOMAIN replies[hmi], NEW j \in DOMAIN replies[hmi],
         k < j, IsAddition(replies[hmi][k]), asked[hmi][j] = GetVariables
  PROVE  \/ replies[hmi][j] = Failed
         \/ /\ IsList(replies[hmi][j])
            /\ ~CP!Silent(replies[hmi][j])
            /\ \E id \in 1..replies[hmi][j].size : registry[id] = asked[hmi][k].name
<1>1. /\ Fits(asked[hmi][k], replies[hmi][k]) /\ Fits(asked[hmi][j], replies[hmi][j])
      /\ j \in DOMAIN Given /\ k \in DOMAIN Given
      /\ Given[j] = replies[hmi][j] /\ Given[k] = replies[hmi][k]
  BY ReplyFits
<1>2. PICK id \in DOMAIN registry : /\ registry[id] = asked[hmi][k].name
                                    /\ replies[hmi][k].rows = {id}
  BY <1>1, FitsSays
<1> DEFINE res == replies[hmi][j]
<1>3. CASE res # Failed
  <2>1. IsList(res)
    <3>1. GetVariables.msg_type = "REQUEST_GET_VARIABLES"
      BY DEF GetVariables
    <3>2. \E n \in 0..Len(registry) : res = VariablesResponse(1..n, n)
      BY <1>1, <1>3, <3>1 DEF Fits
    <3> QED BY <3>2 DEF IsList, VariablesResponse, Response
  <2>2. id \in 1..res.size
    <3>1. replies[hmi][k].rows \subseteq 1..res.size
      BY <1>1, <2>1 DEF ServiceInv, OrderInv
    <3> QED BY <1>2, <3>1
  <2>3. ~CP!Silent(res)
    <3>1. res \in Responses
      BY DEF ServiceInv, ServiceTypes
    <3>2. res.size \in Nat /\ EntrySize \in Nat \ {0}
      BY <3>1, ClientHere DEF CP!ClientAssumption
    <3>3. res.msg_type # "RESPONSE_FAILURE"
      BY <2>1 DEF IsList
    <3> HIDE DEF res
    <3>4. CP!Silent(res) <=> EntrySize * res.size = 0
      BY <3>3 DEF CP!Silent, CP!BodySize
    <3>5. res.size # 0
      BY <2>2, <3>2
    <3>6. \A a \in Nat \ {0}, b \in Nat : b # 0 => a * b # 0
      BY Z3
    <3> QED BY <3>2, <3>4, <3>5, <3>6
  <2> QED BY <1>2, <2>1, <2>2, <2>3
<1> QED BY <1>3

LEMMA ListIsComplete == IInv => ListComplete
<1> SUFFICES ASSUME IInv, Quiet, ~cut, NEW k \in Added
             PROVE  \/ asked[hmi][k].name \in Listed
                    \/ \E j \in DOMAIN replies[hmi] : /\ j > k
                                                      /\ asked[hmi][j] = GetVariables
                                                      /\ replies[hmi][j] = Failed
  BY DEF ListComplete
<1>1. ServiceInv /\ WindowInv /\ TypeOK
  BY DEF IInv
<1>2. ListInv /\ RefreshInv /\ socket = "connected"
  BY <1>1 DEF WindowInv, Quiet
<1>3. /\ Issued = asked[hmi] /\ DOMAIN asked[hmi] = DOMAIN replies[hmi]
      /\ Told = {i \in DOMAIN replies[hmi] : ~CP!Silent(replies[hmi][i])}
  BY QuietIs
<1>4. PICK j \in DOMAIN replies[hmi] : j > k /\ asked[hmi][j] = GetVariables
  BY <1>2, <1>3 DEF RefreshInv
<1>5. k \in DOMAIN replies[hmi] /\ IsAddition(replies[hmi][k]) /\ k < j
  <2>1. k \in DOMAIN replies[hmi] /\ IsAddition(replies[hmi][k])
    BY DEF Added, Told, IsAddition
  <2>2. j \in Nat /\ k \in Nat
    BY <1>1, <2>1, ReplyFits
  <2> QED BY <1>4, <2>1, <2>2
<1>6. CASE replies[hmi][j] = Failed
  BY <1>4, <1>6
<1>7. ASSUME IsList(replies[hmi][j]), ~CP!Silent(replies[hmi][j]),
             NEW id \in 1..replies[hmi][j].size, registry[id] = asked[hmi][k].name
      PROVE  asked[hmi][k].name \in Listed
  <2>1. j \in ToldLists
    BY <1>3, <1>7 DEF ToldLists
  <2>2. PICK m \in ToldLists : /\ \A i \in ToldLists : i <= m
                               /\ m_vars = FirstOf(replies[hmi][m].size)
    BY <1>2, <2>1 DEF ListInv
  <2>3. m \in DOMAIN replies[hmi] /\ IsList(replies[hmi][m]) /\ j <= m
    BY <2>1, <2>2 DEF ToldLists, Told
  <2>4. /\ j \in Nat /\ m \in Nat
        /\ j \in DOMAIN Given /\ m \in DOMAIN Given
        /\ Given[j] = replies[hmi][j] /\ Given[m] = replies[hmi][m]
        /\ Fits(asked[hmi][m], replies[hmi][m]) /\ Fits(asked[hmi][j], replies[hmi][j])
    BY <1>1, <2>3, ReplyFits
  <2> DEFINE n == replies[hmi][m].size
             p == replies[hmi][j].size
  <2>5. n \in 0..Len(registry) /\ p \in 0..Len(registry) /\ registry \in Seq(Names)
    BY <1>1, <1>7, <2>3, <2>4, FitsSays DEF ServiceInv, ServiceTypes
  <2>6. p <= n
    <3>1. CASE j < m
      BY <1>1, <1>7, <2>3, <2>4, <3>1 DEF ServiceInv, OrderInv
    <3>2. CASE j = m
      BY <2>5, <3>2
    <3> QED BY <2>3, <2>4, <3>1, <3>2
  <2> HIDE DEF n, p
  <2>7. id \in 1..n
    <3>1. id \in 1..p
      BY DEF p
    <3> QED BY <2>5, <2>6, <3>1
  <2>8. m_vars = FirstOf(n) /\ m_vars \in Seq(Names)
    BY <2>2, <2>5, FirstNames DEF n
  <2>9. m_vars \notin {Placeholders, Garbled}
    BY <2>8, HmiAssumption
  <2>10. id \in DOMAIN m_vars /\ m_vars[id] = registry[id]
    BY <2>7, <2>8 DEF FirstOf
  <2> QED BY <1>7, <2>9, <2>10 DEF Listed
<1> QED BY <1>1, <1>4, <1>5, <1>6, <1>7, AnsweredRefresh

(* Once nothing is on its way, the list names every variable the user was  *)
(* told has been added, or a later list could not be fetched: the refresh  *)
(* that responseReceived asks for is answered after the addition and shown *)
(* after it, whatever else was asked for in between.                       *)
THEOREM ListIsCompleteWhenQuiet == Spec => []ListComplete
BY ListIsComplete, Inductive, PTL

LEMMA PlaceholdersFirst == IInv => PlaceholdersUntilAddition
<1> SUFFICES ASSUME IInv, ~cut, m_vars # Placeholders PROVE Added # {}
  BY DEF PlaceholdersUntilAddition
<1>1. ServiceInv /\ ListInv /\ CauseInv
  BY DEF IInv, WindowInv
<1>2. PICK k \in DOMAIN replies[hmi] : IsList(replies[hmi][k])
  BY <1>1 DEF ListInv, ToldLists, Told
<1>3. k \in DOMAIN asked[hmi] /\ asked[hmi][k] = GetVariables
  BY <1>1, <1>2, ReplyFits, FitsSays
<1>4. k \in DOMAIN Issued /\ Issued[k] = asked[hmi][k]
  <2>1. /\ asked[hmi] \in Seq(Asks) /\ Issued \in Seq(Asks)
        /\ Grows(asked[hmi], Issued)
    BY <1>1, IssuedIs DEF ServiceInv, ServiceTypes
  <2> QED BY <1>3, <2>1, GrowsOver
<1> QED BY <1>1, <1>3, <1>4 DEF CauseInv, Refreshing

(* The list is fetched only after the server has accepted a variable of    *)
(* this user: whatever is registered already, placeholders are shown until *)
(* then.                                                                   *)
THEOREM PlaceholdersAtFirst == Spec => []PlaceholdersUntilAddition
BY PlaceholdersFirst, Inductive, PTL

(* The readings shown are readings there are.                              *)
LEMMA ShownAreReadings ==
  ASSUME ServiceInv, ChartInv
  PROVE  m_vals \subseteq DOMAIN readings
<1>1. ASSUME NEW k \in ToldValues, m_vals = replies[hmi][k].rows
      PROVE  m_vals \subseteq DOMAIN readings
  <2>1. k \in DOMAIN replies[hmi] /\ IsValues(replies[hmi][k])
    BY DEF ToldValues, Told
  <2> QED BY <1>1, <2>1, HeardOf
<1> QED BY <1>1 DEF ChartInv

LEMMA ChartIsOfLastFilled == IInv => HistoricOfLastFilledPeriod
<1> SUFFICES ASSUME IInv, Quiet, ~cut PROVE HistoricOfLastFilledPeriod
  BY DEF HistoricOfLastFilledPeriod
<1>1. /\ ServiceInv /\ ChartInv /\ ZoomInv /\ socket = "connected"
  BY DEF IInv, WindowInv, Quiet
<1>2. /\ Issued = asked[hmi] /\ DOMAIN asked[hmi] = DOMAIN replies[hmi]
      /\ Told = {i \in DOMAIN replies[hmi] : ~CP!Silent(replies[hmi][i])}
  BY QuietIs
<1> DEFINE filled == {k \in DOMAIN replies[hmi] :
                        /\ replies[hmi][k].msg_type = "RESPONSE_VALUES"
                        /\ replies[hmi][k].size > 0}
<1>3. filled = ToldValues
  <2>1. \A k \in DOMAIN replies[hmi] :
          IsValues(replies[hmi][k]) =>
            (~CP!Silent(replies[hmi][k]) <=> replies[hmi][k].size > 0)
    BY <1>1, HeardOf
  <2> QED BY <1>2, <2>1 DEF ToldValues, IsValues
<1>4. CASE filled = {}
  <2>1. m_vals = {}
    BY <1>1, <1>3, <1>4 DEF ChartInv
  <2> QED BY <1>4, <2>1 DEF HistoricOfLastFilledPeriod
<1>5. CASE filled # {}
  <2>1. PICK k \in ToldValues : /\ \A j \in ToldValues : j <= k
                                /\ m_vals = replies[hmi][k].rows
    BY <1>1, <1>3, <1>5 DEF ChartInv
  <2>2. Max(filled) = k
    <3>1. ToldValues \subseteq Int
      <4>1. \A j \in Told : j \in Nat
        BY <1>1, ToldType
      <4> QED BY <4>1 DEF ToldValues
    <3> HIDE DEF filled
    <3> QED BY <1>3, <2>1, <3>1, MaxIs
  <2>3. k \in DOMAIN replies[hmi] /\ IsValues(replies[hmi][k]) /\ k \in Nat
    BY <1>1, <2>1, ToldType DEF ToldValues
  <2>4. m_vals \subseteq Svc!AskedFor(asked[hmi][k])
    BY <1>1, <2>1, <2>3, ReplyFits, FitsSays
  <2>5. xTime = Zoomed => \E j \in DOMAIN asked[hmi] : j > k /\ Selects(j)
    <3> SUFFICES ASSUME xTime = Zoomed
                 PROVE  \E j \in DOMAIN asked[hmi] : j > k /\ Selects(j)
      OBVIOUS
    <3>1. PICK j \in DOMAIN asked[hmi] : IsSelection(asked[hmi][j]) /\ k < j
      BY <1>1, <1>2, <2>1 DEF ZoomInv
    <3>2. j \in Nat
      BY <1>1, <1>2, ReplyFits
    <3> QED BY <2>3, <3>1, <3>2 DEF Selects, IsSelection
  <2> HIDE DEF filled
  <2>6. IF filled = {} THEN m_vals = {}
        ELSE /\ m_vals = replies[hmi][Max(filled)].rows
             /\ m_vals \subseteq Svc!AskedFor(asked[hmi][Max(filled)])
             /\ xTime = Zoomed =>
                  \E j \in DOMAIN asked[hmi] : j > Max(filled) /\ Selects(j)
    BY <1>5, <2>1, <2>2, <2>4, <2>5
  <2> QED BY <2>6, Zenon DEF HistoricOfLastFilledPeriod, filled
<1> QED BY <1>4, <1>5

(* Once nothing is on its way, the chart shows the readings of the last    *)
(* period asked for that had any, all of them of that period, and it is    *)
(* zoomed in only for a later selection: an empty answer, which onReadyRead*)
(* drops, leaves the chart before it.                                      *)
THEOREM ChartOfLastFilledPeriod == Spec => []HistoricOfLastFilledPeriod
BY ChartIsOfLastFilled, Inductive, PTL

LEMMA AxesHold == IInv => AxesHoldPoints
<1> SUFFICES ASSUME IInv, ~cut, m_vals # {}, xTime # Zoomed, TimeOrdered(m_vals)
             PROVE  /\ xTime[1] < xTime[2]
                    /\ yAxis[1] < yAxis[2]
                    /\ \A id \in m_vals :
                         /\ readings[id].timestamp \in xTime[1]..xTime[2]
                         /\ yAxis[1] <= readings[id].val /\ readings[id].val <= yAxis[2]
  BY DEF AxesHoldPoints
<1>1. ServiceInv /\ ServiceTypes /\ ChartInv /\ AxesInv
  BY DEF IInv, WindowInv, ServiceInv
<1>2. m_vals \subseteq DOMAIN readings
  BY <1>1, ShownAreReadings
<1>3. xTime = XRange(m_vals) /\ yAxis = YRange(m_vals)
  BY <1>1 DEF AxesInv
<1> DEFINE low == Min(m_vals)
           high == Max(m_vals)
<1>4. /\ low \in m_vals /\ high \in m_vals
      /\ \A id \in m_vals : low <= id /\ id <= high
      /\ xTime \in Nat \X Nat /\ yAxis \in Int \X Int
      /\ xTime[1] = readings[low].timestamp
      /\ readings[low].timestamp <= readings[high].timestamp =>
           /\ xTime[1] < xTime[2] /\ readings[high].timestamp <= xTime[2]
      /\ yAxis[1] < yAxis[2]
      /\ \A id \in m_vals : /\ yAxis[1] <= readings[id].val
                            /\ readings[id].val <= yAxis[2]
  BY <1>1, <1>2, <1>3, RangesHold
<1> HIDE DEF low, high
<1>5. \A id \in m_vals : id \in Nat /\ readings[id].timestamp \in Nat
  <2>1. \A id \in m_vals : id \in Nat /\ readings[id] \in Reading
    BY <1>1, <1>2 DEF ServiceTypes
  <2>2. \A r \in Reading : r.timestamp \in Times
    BY DEF Reading
  <2> QED BY <2>1, <2>2, HmiAssumption
<1>6. ASSUME NEW i \in m_vals, NEW j \in m_vals, i <= j
      PROVE  readings[i].timestamp <= readings[j].timestamp
  <2>1. CASE i < j
    BY <1>6, <2>1 DEF TimeOrdered
  <2>2. CASE i = j
    BY <1>5, <2>2
  <2> QED BY <1>5, <1>6, <2>1, <2>2
<1>7. /\ readings[low].timestamp <= readings[high].timestamp
      /\ \A id \in m_vals : /\ readings[low].timestamp <= readings[id].timestamp
                            /\ readings[id].timestamp <= readings[high].timestamp
  BY <1>4, <1>6
<1>8. xTime[1] < xTime[2] /\ readings[high].timestamp <= xTime[2]
  BY <1>4, <1>7
<1>9. xTime[2] \in Nat
  BY <1>4
<1>10. \A id \in m_vals : readings[id].timestamp \in xTime[1]..xTime[2]
  <2> TAKE id \in m_vals
  <2>1. /\ readings[id].timestamp \in Nat /\ readings[high].timestamp \in Nat
        /\ readings[low].timestamp \in Nat
    BY <1>4, <1>5
  <2>2. /\ xTime[1] <= readings[id].timestamp
        /\ readings[id].timestamp <= readings[high].timestamp
    BY <1>4, <1>7
  <2> QED BY <1>4, <1>8, <1>9, <2>1, <2>2
<1> QED BY <1>4, <1>8, <1>10

(* The axes have a width and hold every point of the chart, readings of    *)
(* one moment and of one value included, unless the user has zoomed in or  *)
(* the server's clock stepped back.                                        *)
THEOREM ChartWithinAxes == Spec => []AxesHoldPoints
BY AxesHold, Inductive, PTL
-----------------------------------------------------------------------------
(* What a step may never do.                                               *)

LEMMA ToldStay ==
  ASSUME IInv, IInv', Onwards, Next, ~cut'
  PROVE  /\ ~cut
         /\ \A k \in Told : k \in Told' /\ replies'[hmi][k] = replies[hmi][k]
<1>1. ServiceInv /\ CP!IInv /\ CP!IInv' /\ ServiceTypes' /\ ServiceTypes /\ Cl!TypeOK
  BY DEF IInv, ServiceInv, TypeOK
<1>2. ASSUME UNCHANGED <<signals, cut>>
      PROVE  /\ ~cut
             /\ \A k \in Told : k \in Told' /\ replies'[hmi][k] = replies[hmi][k]
  <2>1. ~cut
    BY <1>2
  <2> QED BY <1>1, <1>2, <2>1, ToldKept
<1>3. CASE Own
  <2>1. UNCHANGED <<signals, cut>>
    BY <1>1, <1>3, OwnStep DEF readVars
  <2> QED BY <1>2, <2>1
<1>4. CASE Connected \/ Lost \/ Send \/ Execute \/ Deliver \/ Others
  <2>1. UNCHANGED App
    BY <1>4, Zenon DEF Connected, Lost, Send, Execute, Deliver, Others
  <2> QED BY <1>2, <2>1 DEF App, readVars
<1>5. CASE Receive
  <2>1. Cl!Read /\ replies' = replies
    BY <1>5, Zenon DEF Receive, serviceVars, linkVars
  <2>2. ~cut /\ Told \subseteq Told'
    BY <1>1, <2>1, ReadTells
  <2> QED BY <2>1, <2>2
<1> QED BY <1>3, <1>4, <1>5 DEF Next, Own, Environment

(* The names a list of the first n variables shows.                        *)
LEMMA NamesOnce ==
  ASSUME ServiceTypes, NEW n \in 0..Len(registry), m_vars = FirstOf(n)
  PROVE  Cardinality(Listed) = Len(m_vars)
<1>1. registry \in Seq(Names) /\ n \in Nat
  BY DEF ServiceTypes
<1>2. FirstOf(n) \in Seq(Names) /\ Len(FirstOf(n)) = n
  BY <1>1, FirstNames
<1>3. m_vars \notin {Placeholders, Garbled} /\ DOMAIN m_vars = 1..n
  BY <1>2, HmiAssumption DEF FirstOf
<1>4. \A i \in 1..n : i \in DOMAIN registry /\ FirstOf(n)[i] = registry[i]
  BY <1>1 DEF FirstOf
<1>5. PICK s : s = FirstOf(n)
  OBVIOUS
<1>6. PICK R : R = {s[k] : k \in 1..n}
  OBVIOUS
<1>7. /\ s \in [1..n -> R]
      /\ \A y \in R : \E k \in 1..n : s[k] = y
  <2>1. DOMAIN s = 1..n /\ s = [i \in 1..n |-> s[i]]
    BY <1>5 DEF FirstOf
  <2> QED BY <1>6, <2>1
<1>8. \A i, j \in 1..n : s[i] = s[j] => i = j
  BY <1>4, <1>5 DEF ServiceTypes
<1>9. Cardinality(R) = n
  BY <1>1, <1>7, <1>8, DistinctCount
<1>10. Listed = R
  BY <1>3, <1>5, <1>6 DEF Listed
<1> QED BY <1>2, <1>9, <1>10

NamedOnce == \A n \in 0..Len(registry) :
               m_vars = FirstOf(n) => Cardinality(Listed) = Len(m_vars)

LEMMA EachNamedOnce == ServiceTypes => NamedOnce
BY NamesOnce DEF NamedOnce

LEMMA FirstOfFirst ==
  ASSUME registry \in Seq(Names), NEW n \in 0..Len(registry), NEW m \in 0..Len(registry),
         m <= n
  PROVE  FirstOf(m) = SubSeq(FirstOf(n), 1, m)
<1>1. /\ FirstOf(m) \in Seq(Names) /\ Len(FirstOf(m)) = m
      /\ FirstOf(n) \in Seq(Names) /\ Len(FirstOf(n)) = n
  BY FirstNames
<1>2. /\ SubSeq(FirstOf(n), 1, m) \in Seq(Names) /\ Len(SubSeq(FirstOf(n), 1, m)) = m
      /\ \A i \in 1..m : SubSeq(FirstOf(n), 1, m)[i] = FirstOf(n)[i]
  <2> DEFINE s == FirstOf(n)
  <2>1. s \in Seq(Names) /\ Len(s) = n /\ m \in Nat /\ n \in Nat
    BY <1>1
  <2> HIDE DEF s
  <2>2. /\ SubSeq(s, 1, m) \in Seq(Names) /\ Len(SubSeq(s, 1, m)) = m
        /\ \A i \in 1..m : SubSeq(s, 1, m)[i] = s[i]
    BY <2>1
  <2> QED BY <2>2 DEF s
<1>3. \A i \in 1..m : FirstOf(m)[i] = FirstOf(n)[i]
  BY DEF FirstOf
<1> DEFINE s == FirstOf(m)
           t == SubSeq(FirstOf(n), 1, m)
<1>4. /\ s \in Seq(Names) /\ t \in Seq(Names) /\ Len(s) = m /\ Len(t) = m
      /\ \A i \in 1..m : s[i] = t[i]
  BY <1>1, <1>2, <1>3
<1> HIDE DEF s, t
<1>5. s = t
  BY <1>4
<1> QED BY <1>5 DEF s, t

ShorterFirst == \A n, m \in 0..Len(registry) :
                  m <= n => FirstOf(m) = SubSeq(FirstOf(n), 1, m)

LEMMA ShorterIsFirst == registry \in Seq(Names) => ShorterFirst
BY FirstOfFirst DEF ShorterFirst

LEMMA ListsFit ==
  ServiceInv => \A i \in DOMAIN replies[hmi] :
                  IsList(replies[hmi][i]) =>
                    /\ replies[hmi][i].size \in 0..Len(registry)
                    /\ i \in Nat /\ i \in DOMAIN Given /\ Given[i] = replies[hmi][i]
BY ReplyFits, FitsSays

LEMMA ListStep ==
  ASSUME IInv, IInv', Next, ~cut', m_vars # Placeholders
  PROVE  /\ Cardinality(Listed') = Len(m_vars')
         /\ m_vars = SubSeq(m_vars', 1, Len(m_vars))
<1>1. ServiceInv /\ Cl!TypeOK /\ CP!IInv /\ ServiceInv' /\ ServiceTypes /\ ServiceTypes'
  BY DEF IInv, TypeOK, ServiceInv
<1>2. Onwards
  BY <1>1, NextService
<1>3. ~cut /\ \A k \in Told : k \in Told' /\ replies'[hmi][k] = replies[hmi][k]
  BY <1>2, ToldStay
<1>4. ListInv /\ ListInv'
  BY <1>3 DEF IInv, WindowInv
<1>5. PICK k \in ToldLists : m_vars = FirstOf(replies[hmi][k].size)
  BY <1>4 DEF ListInv
<1>6. k \in ToldLists'
  BY <1>3 DEF ToldLists, IsList
<1>7. PICK j \in ToldLists' : /\ \A i \in ToldLists' : i <= j
                              /\ (m_vars = FirstOf(replies[hmi][j].size))'
  BY <1>4, <1>6 DEF ListInv
<1>8. /\ k \in DOMAIN replies[hmi] /\ IsList(replies[hmi][k])
      /\ k \in DOMAIN replies'[hmi] /\ j \in DOMAIN replies'[hmi]
      /\ IsList(replies'[hmi][k]) /\ IsList(replies'[hmi][j])
      /\ replies'[hmi][k] = replies[hmi][k]
      /\ k <= j
  BY <1>3, <1>6, <1>7 DEF ToldLists, Told, IsList
<1>9. PICK m \in 0..Len(registry) : m = replies[hmi][k].size
  BY <1>1, <1>8, ReplyFits, FitsSays
<1>11. (ServiceInv => \A i \in DOMAIN replies[hmi] :
                       IsList(replies[hmi][i]) =>
                         /\ replies[hmi][i].size \in 0..Len(registry)
                         /\ i \in Nat /\ i \in DOMAIN Given /\ Given[i] = replies[hmi][i])'
  BY ListsFit, PTL
<1>12. /\ replies'[hmi][k].size \in 0..Len(registry')
       /\ replies'[hmi][j].size \in 0..Len(registry')
       /\ k \in Nat /\ j \in Nat
       /\ k \in DOMAIN Given' /\ Given'[k] = replies'[hmi][k]
       /\ j \in DOMAIN Given' /\ Given'[j] = replies'[hmi][j]
  BY <1>1, <1>8, <1>11 DEF IsList
<1>13. PICK n \in 0..Len(registry') : n = replies'[hmi][j].size
  BY <1>12
<1>14. m \in 0..Len(registry') /\ m <= n
  <2>1. CASE k < j
    <3>1. Given'[k].size <= Given'[j].size
      BY <1>1, <1>8, <1>12, <2>1 DEF ServiceInv, OrderInv, IsList
    <3> QED BY <1>8, <1>9, <1>12, <1>13, <3>1
  <2>2. CASE k = j
    BY <1>8, <1>9, <1>12, <1>13, <2>2
  <2> QED BY <1>8, <1>12, <2>1, <2>2
<1>15. registry \in Seq(Names) /\ registry' \in Seq(Names) /\ Grows(registry, registry')
  BY <1>1, <1>2 DEF ServiceTypes, Onwards
<1>16. m_vars = FirstOf(m)' /\ Len(m_vars) = m
  <2>1. FirstOf(m)' = FirstOf(m)
    BY <1>15, FirstOfKept
  <2>2. m_vars = FirstOf(m) /\ Len(FirstOf(m)) = m
    BY <1>5, <1>9, <1>15, FirstNames
  <2> QED BY <2>1, <2>2
<1>17. m_vars' = FirstOf(n)'
  BY <1>7, <1>13 DEF FirstOf
<1>18. Cardinality(Listed') = Len(m_vars')
  <2>1. (ServiceTypes => NamedOnce)'
    BY EachNamedOnce, PTL
  <2> QED BY <1>1, <1>17, <2>1 DEF NamedOnce, FirstOf
<1>19. FirstOf(m)' = SubSeq(FirstOf(n)', 1, m)
  <2>1. (registry \in Seq(Names) => ShorterFirst)'
    BY ShorterIsFirst, PTL
  <2> QED BY <1>14, <1>15, <2>1 DEF ShorterFirst, FirstOf
<1> QED BY <1>16, <1>17, <1>18, <1>19

(* The list names each variable once and never loses one: a list that the  *)
(* server made earlier is never shown after a later one, however refreshes *)
(* and additions, this user's and others', overlap.                        *)
THEOREM ListGrows == Spec => ListOnlyGrows
<1>1. IInv /\ IInv' /\ [Next]_vars =>
        [~cut' /\ m_vars # Placeholders =>
           /\ Cardinality(Listed') = Len(m_vars')
           /\ m_vars = SubSeq(m_vars', 1, Len(m_vars))]_vars
  BY ListStep
<1> QED BY <1>1, Inductive, PTL DEF Spec, ListOnlyGrows

LEMMA ClosedStep ==
  ASSUME IInv, Next, socket = "closed"
  PROVE  socket' = "closed" /\ UNCHANGED <<asked, m_vars, m_vals>>
<1>1. ServiceInv /\ ServiceTypes /\ Cl!TypeOK /\ CP!IInv /\ link[hmi] # "open"
  BY DEF IInv, ServiceInv, LinkInv, TypeOK
<1>2. CASE Own
  BY <1>1, <1>2, OwnStep DEF serviceVars, linkVars
<1>3. CASE Connected \/ Send
  BY <1>3 DEF Connected, Send, Cl!Connected, Cl!Flush
<1>4. CASE Lost
  BY <1>4 DEF Lost, Cl!Closed
<1>5. CASE Execute
  BY <1>5 DEF Execute, Svc!Execute, socketVars, App, models
<1>6. CASE Deliver
  BY <1>6 DEF Deliver, Svc!Deliver, socketVars, App, models
<1>7. CASE Others
  BY <1>7 DEF Others, linkVars, socketVars, App, models
<1>8. CASE Receive
  <2>1. Cl!Read /\ Slots
    BY <1>8, Zenon DEF Receive
  <2>2. signals' = signals
    <3>1. Cl!GiveUp
      BY <2>1 DEF Cl!Read, Cl!onReadyRead, Cl!ReadBody, Cl!ReadAstray, Cl!Segment
    <3> QED BY <3>1 DEF Cl!GiveUp
  <2>3. UNCHANGED <<socket, asked>>
    BY <1>1, <1>8, ReceiveService DEF serviceVars, linkVars
  <2> QED BY <2>1, <2>2, <2>3, Zenon DEF Slots, models
<1> QED BY <1>2, <1>3, <1>4, <1>5, <1>6, <1>7, <1>8 DEF Next, Own, Environment

(* Nothing replaces a connection that was refused or has ended: what is    *)
(* asked for afterwards never reaches the server, and what is shown never  *)
(* changes again, also when the client is left waiting for a body.         *)
THEOREM ClosedStaysClosed == Spec => ClosedForGood
<1>1. IInv /\ [Next]_vars =>
        [socket = "closed" => /\ socket' = "closed"
                              /\ UNCHANGED <<asked, m_vars, m_vals>>]_vars
  BY ClosedStep
<1> QED BY <1>1, Inductive, PTL DEF Spec, ClosedForGood
=============================================================================
