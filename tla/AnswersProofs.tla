----------------------------- MODULE AnswersProofs -----------------------------
(***************************************************************************)
(* Theorems about what the clients of the database server are answered,    *)
(* for any number of clients that pipeline any of the four requests and    *)
(* lose their connection anywhere.                                         *)
(*                                                                         *)
(* The inductive invariant follows every connection's stream: to each      *)
(* token that is not yet read belongs the number of the request it is      *)
(* part of, and the session is at a request of a known number.             *)
(***************************************************************************)
EXTENDS DatabaseServerProofs

(* The last token of its message: a GET_VARIABLES has no body.             *)
LastPart(tok) ==
  \/ tok.part = "Body"
  \/ tok.part = "Header" /\ tok.of.msg_type = "REQUEST_GET_VARIABLES"

(* The tokens s are a cut-out of the frames of the requests q, the i-th is *)
(* a part of the request number at[i].                                     *)
Stream(s, q, at) ==
  /\ at \in [1..Len(s) -> 1..Len(q)]
  /\ \A i \in 1..Len(s) : s[i].of = q[at[i]]
  /\ \A i \in 1..(Len(s) - 1) :
       IF LastPart(s[i])
       THEN at[i + 1] = at[i] + 1 /\ s[i + 1].part = "MetaHeader"
       ELSE /\ at[i + 1] = at[i]
            /\ s[i + 1].part = IF s[i].part = "MetaHeader" THEN "Header" ELSE "Body"

(* All of the request the session is at has been read.                     *)
Spent(c) ==
  \/ phase[c] = "write"
  \/ phase[c] = "body" /\ work[c].msg_type = "REQUEST_GET_VARIABLES"

(* The token the session is going to find.                                 *)
Expects(p, w, tok) ==
  CASE p \in {"unborn", "mh", "write"} -> tok.part = "MetaHeader"
    [] p = "h" -> tok.part = "Header"
    [] p = "body" -> IF w.msg_type = "REQUEST_GET_VARIABLES"
                     THEN tok.part = "MetaHeader"
                     ELSE tok.part = "Body" /\ tok.of = w
    [] OTHER -> TRUE

(* What a GET_VALUES has to be answered with, if vectors can hold it.      *)
Sees(acknowledged, req, res) ==
  /\ max_values_ammount <= VectorMax
  /\ req.msg_type = "REQUEST_GET_VALUES"
  /\ res.msg_type = "RESPONSE_VALUES"
  => acknowledged \cap AskedFor(req) \subseteq res.rows

(* The response to the k-th request of c.                                  *)
Fitting(c, k, res) ==
  Answers(sent[c][k], res) /\ Sees(floor[c][k], sent[c][k], res)

(* The stream of c, whose next token is of the request number next; what   *)
(* a client sends is cut off only when its connection breaks.              *)
StreamInv(c, next) ==
  LET s == inbox[c]
  IN  \E at :
        /\ Stream(s, sent[c], at)
        /\ s # <<>> =>
             /\ at[1] = next
             /\ Expects(phase[c], work[c], s[1])
             /\ conn[c] = "open" => LastPart(s[Len(s)]) /\ at[Len(s)] = Len(sent[c])

(* A client that is still there has been answered all but the request the  *)
(* session is at, and nothing it has sent is missing.                      *)
Attended(c, k) ==
  /\ k = Len(replies[c]) + 1
  /\ inbox[c] = <<>> =>
       /\ phase[c] # "h"
       /\ phase[c] = "body" => Spent(c)
       /\ Len(sent[c]) = IF Spent(c) THEN k ELSE k - 1
  /\ phase[c] = "write" => k \in DOMAIN sent[c] /\ Fitting(c, k, work[c])

(* The session of c is at its k-th request.                                *)
SessionInv(c, k) ==
  /\ phase[c] \notin {"lost", "astray"}
  /\ StreamInv(c, IF Spent(c) THEN k + 1 ELSE k)
  /\ phase[c] = "body" => k \in DOMAIN sent[c] /\ work[c] = sent[c][k]
  /\ conn[c] \in {"none", "open"} => Attended(c, k)
  /\ conn[c] = "none" => phase[c] = "unborn" /\ inbox[c] = <<>>

RepliesInv(c) ==
  /\ Len(replies[c]) <= Len(sent[c])
  /\ Len(sent[c]) <= MaxRequests
  /\ Len(floor[c]) = Len(sent[c])
  /\ \A k \in DOMAIN floor[c] : floor[c][k] \subseteq ValueIds
  /\ \A k \in DOMAIN replies[c] : Fitting(c, k, replies[c][k])

(* The reading id is what a request asks to be stored.                     *)
Stores(req, id) ==
  /\ req.msg_type = "REQUEST_SAVE_VALUE"
  /\ req.value # NotFinite
  /\ NameOf(id) = req.variable
  /\ variable_value[id].val = ToSixDecimals(req.value)

(* Every reading was stored by a request of its own, one the session has   *)
(* executed, and only this one is told so.                                 *)
Origin(cur, by) ==
  /\ by \in [ValueIds -> Conns \X (Nat \ {0})]
  /\ \A i, j \in ValueIds : by[i] = by[j] => i = j
  /\ \A id \in ValueIds, c \in Conns, k \in Nat :
       by[id] = <<c, k>> =>
         /\ k \in DOMAIN sent[c]
         /\ Stores(sent[c][k], id)
         /\ k <= cur[c]
         /\ phase[c] \in {"unborn", "mh", "h", "body"} => k < cur[c]
  /\ \A c \in Conns : \A k \in DOMAIN replies[c] :
       sent[c][k].msg_type = "REQUEST_SAVE_VALUE" =>
         \A id \in replies[c][k].rows : by[id] = <<c, k>>
  /\ \A c \in Conns :
       /\ phase[c] = "write"
       /\ conn[c] = "open"
       /\ sent[c][cur[c]].msg_type = "REQUEST_SAVE_VALUE"
       => \A id \in work[c].rows : by[id] = <<c, cur[c]>>

Sessions(cur) ==
  /\ cur \in [Conns -> Nat \ {0}]
  /\ \A c \in Conns : SessionInv(c, cur[c]) /\ RepliesInv(c)

AnswersInv == \E cur : Sessions(cur) /\ \E by : Origin(cur, by)

-----------------------------------------------------------------------------
(* Tokens are taken at the front, cut off and appended at the back.        *)

LEMMA TailFacts ==
  ASSUME NEW S, NEW s \in Seq(S), s # <<>>
  PROVE  /\ Len(s) \in Nat \ {0}
         /\ Head(s) = s[1]
         /\ Tail(s) \in Seq(S)
         /\ Len(Tail(s)) = Len(s) - 1
         /\ \A i \in 1..(Len(s) - 1) : Tail(s)[i] = s[i + 1]
         /\ Tail(s) = <<>> <=> Len(s) = 1
<1>1. Len(s) \in Nat \ {0} /\ Head(s) = s[1]
  OBVIOUS
<1>2. /\ Tail(s) \in Seq(S)
      /\ Len(Tail(s)) = Len(s) - 1
      /\ \A i \in 1..Len(Tail(s)) : Tail(s)[i] = s[i + 1]
  BY HeadTailProperties
<1>3. Tail(s) = <<>> <=> Len(Tail(s)) = 0
  BY <1>2
<1>4. Tail(s) = <<>> <=> Len(s) = 1
  BY <1>1, <1>2, <1>3
<1> QED BY <1>1, <1>2, <1>4

LEMMA StreamTail ==
  ASSUME NEW s \in Seq(Token), NEW q, NEW at, s # <<>>, Stream(s, q, at)
  PROVE  Stream(Tail(s), q, [i \in 1..(Len(s) - 1) |-> at[i + 1]])
<1> DEFINE t == Tail(s)
           l == Len(s)
           at2 == [i \in 1..(l - 1) |-> at[i + 1]]
<1>1. /\ l \in Nat \ {0} /\ Len(t) = l - 1
      /\ \A i \in 1..(l - 1) : t[i] = s[i + 1]
  BY TailFacts
<1>2. \A i \in 1..(l - 1) : i + 1 \in 1..l /\ at2[i] = at[i + 1]
  BY <1>1
<1>3. \A i \in 1..(l - 1 - 1) : i \in 1..(l - 1) /\ i + 1 \in 1..(l - 1)
  BY <1>1
<1>4. at \in [1..l -> 1..Len(q)]
  BY DEF Stream
<1>5. at2 \in [1..(l - 1) -> 1..Len(q)]
  BY <1>2, <1>4
<1> HIDE DEF t, l, at2
<1>6. \A i \in 1..(l - 1) : t[i].of = q[at2[i]]
  BY <1>1, <1>2 DEF Stream, l
<1>7. \A i \in 1..(l - 1 - 1) :
        IF LastPart(t[i])
        THEN at2[i + 1] = at2[i] + 1 /\ t[i + 1].part = "MetaHeader"
        ELSE /\ at2[i + 1] = at2[i]
             /\ t[i + 1].part = IF t[i].part = "MetaHeader" THEN "Header" ELSE "Body"
  <2> TAKE i \in 1..(l - 1 - 1)
  <2>1. /\ t[i] = s[i + 1] /\ t[i + 1] = s[i + 1 + 1]
        /\ at2[i] = at[i + 1] /\ at2[i + 1] = at[i + 1 + 1]
        /\ i + 1 \in 1..(l - 1)
    BY <1>1, <1>2, <1>3
  <2> QED BY <2>1 DEF Stream, l
<1> QED BY <1>1, <1>5, <1>6, <1>7 DEF Stream, t, l, at2

LEMMA PrefixFacts ==
  ASSUME NEW s \in Seq(Token), NEW j \in 0..Len(s)
  PROVE  /\ SubSeq(s, 1, j) \in Seq(Token)
         /\ Len(SubSeq(s, 1, j)) = j
         /\ \A i \in 1..j : SubSeq(s, 1, j)[i] = s[i]
<1>1. SubSeq(s, 1, j) \in Seq(Token)
  BY SliceType
<1>2. SubSeq(s, 1, j) = [i \in 1..j |-> s[i]]
  OBVIOUS
<1> QED BY <1>1, <1>2

LEMMA StreamPrefix ==
  ASSUME NEW s \in Seq(Token), NEW q, NEW at, Stream(s, q, at), NEW j \in 0..Len(s)
  PROVE  Stream(SubSeq(s, 1, j), q, [i \in 1..j |-> at[i]])
<1> DEFINE t == SubSeq(s, 1, j)
           l == Len(s)
           at2 == [i \in 1..j |-> at[i]]
<1>1. l \in Nat /\ Len(t) = j /\ \A i \in 1..j : t[i] = s[i] /\ i \in 1..l
  BY PrefixFacts
<1>2. \A i \in 1..j : at2[i] = at[i]
  OBVIOUS
<1>3. \A i \in 1..(j - 1) : i \in 1..j /\ i + 1 \in 1..j /\ i \in 1..(l - 1)
  BY <1>1
<1>4. at2 \in [1..j -> 1..Len(q)]
  BY <1>1 DEF Stream
<1> HIDE DEF t, l, at2
<1>5. \A i \in 1..j : t[i].of = q[at2[i]]
  BY <1>1, <1>2 DEF Stream, l
<1>6. \A i \in 1..(j - 1) :
        IF LastPart(t[i])
        THEN at2[i + 1] = at2[i] + 1 /\ t[i + 1].part = "MetaHeader"
        ELSE /\ at2[i + 1] = at2[i]
             /\ t[i + 1].part = IF t[i].part = "MetaHeader" THEN "Header" ELSE "Body"
  BY <1>1, <1>2, <1>3 DEF Stream, l
<1> QED BY <1>1, <1>4, <1>5, <1>6 DEF Stream, t, at2

(* A frame is a message of its own.                                        *)
LEMMA FrameFacts ==
  ASSUME NEW req \in Requests
  PROVE  /\ Frame(req) \in Seq(Token)
         /\ Len(Frame(req)) \in {2, 3}
         /\ \A i \in 1..Len(Frame(req)) : Frame(req)[i].of = req
         /\ Frame(req)[1].part = "MetaHeader"
         /\ Frame(req)[2].part = "Header"
         /\ IF req.msg_type = "REQUEST_GET_VARIABLES" THEN Len(Frame(req)) = 2
            ELSE Len(Frame(req)) = 3 /\ Frame(req)[3].part = "Body"
<1> DEFINE m == [part |-> "MetaHeader", of |-> req]
           h == [part |-> "Header", of |-> req]
           b == [part |-> "Body", of |-> req]
<1>1. /\ m.of = req /\ h.of = req /\ b.of = req
      /\ m.part = "MetaHeader" /\ h.part = "Header" /\ b.part = "Body"
  OBVIOUS
<1>2. Frame(req) \in Seq(Token)
  BY FrameType
<1>3. IF req.msg_type = "REQUEST_GET_VARIABLES" THEN Frame(req) = <<m, h>>
                                                ELSE Frame(req) = <<m, h, b>>
  BY DEF Frame
<1> HIDE DEF m, h, b
<1>4. CASE req.msg_type = "REQUEST_GET_VARIABLES"
  <2>1. /\ Len(Frame(req)) = 2 /\ Frame(req)[1] = m /\ Frame(req)[2] = h
        /\ \A i \in 1..2 : i = 1 \/ i = 2
    BY <1>3, <1>4
  <2> QED BY <1>1, <1>2, <1>4, <2>1
<1>5. CASE req.msg_type # "REQUEST_GET_VARIABLES"
  <2>1. /\ Len(Frame(req)) = 3
        /\ Frame(req)[1] = m /\ Frame(req)[2] = h /\ Frame(req)[3] = b
        /\ \A i \in 1..3 : i = 1 \/ i = 2 \/ i = 3
    BY <1>3, <1>5
  <2> QED BY <1>1, <1>2, <1>5, <2>1
<1> QED BY <1>4, <1>5

(* A whole request comes behind whole requests.                            *)
LEMMA StreamGrow ==
  ASSUME NEW s \in Seq(Token), NEW q \in Seq(Requests), NEW at, Stream(s, q, at),
         NEW req \in Requests,
         s # <<>> => LastPart(s[Len(s)]) /\ at[Len(s)] = Len(q)
  PROVE  LET t == s \o Frame(req)
             at2 == [i \in 1..Len(t) |-> IF i <= Len(s) THEN at[i] ELSE Len(q) + 1]
         IN  /\ Stream(t, Append(q, req), at2)
             /\ t \in Seq(Token) /\ t # <<>> /\ Len(t) > Len(s)
             /\ LastPart(t[Len(t)])
             /\ s = <<>> => t[1].part = "MetaHeader"
             /\ s # <<>> => t[1] = s[1]
<1> DEFINE f == Frame(req)
           t == s \o f
           l == Len(s)
           m == Len(f)
           q2 == Append(q, req)
           at2 == [i \in 1..Len(t) |-> IF i <= l THEN at[i] ELSE Len(q) + 1]
<1>1. /\ f \in Seq(Token)
      /\ m \in {2, 3}
      /\ \A i \in 1..m : f[i].of = req
      /\ f[1].part = "MetaHeader"
      /\ f[2].part = "Header"
      /\ IF req.msg_type = "REQUEST_GET_VARIABLES" THEN m = 2
         ELSE m = 3 /\ f[3].part = "Body"
  BY FrameFacts
<1>2. /\ l \in Nat /\ m \in Nat /\ t \in Seq(Token) /\ Len(t) = l + m
      /\ \A i \in 1..l : t[i] = s[i]
  BY <1>1, ConcatProperties
<1>3. \A i \in 1..m : t[l + i] = f[i]
  <2> TAKE i \in 1..m
  <2>1. l + i \in 1..(l + m) /\ ~(l + i <= l) /\ l + i - l = i
    BY <1>2
  <2> QED BY <1>1, <1>2, <2>1, ConcatProperties
<1>4. /\ Len(q) \in Nat /\ Len(q2) = Len(q) + 1 /\ q2[Len(q) + 1] = req
      /\ \A i \in 1..Len(q) : q2[i] = q[i]
  BY AppendRow
<1>5. s = <<>> <=> l = 0
  OBVIOUS
<1>6. /\ at \in [1..l -> 1..Len(q)]
      /\ \A i \in 1..l : s[i].of = q[at[i]]
      /\ \A i \in 1..(l - 1) :
           IF LastPart(s[i])
           THEN at[i + 1] = at[i] + 1 /\ s[i + 1].part = "MetaHeader"
           ELSE /\ at[i + 1] = at[i]
                /\ s[i + 1].part = IF s[i].part = "MetaHeader" THEN "Header" ELSE "Body"
  BY DEF Stream
<1>7. /\ \A i \in 1..l : at2[i] = at[i] /\ i \in 1..Len(t)
      /\ \A i \in 1..m : at2[l + i] = Len(q) + 1 /\ l + i \in 1..Len(t)
      /\ \A i \in 1..Len(t) : i \in 1..l \/ \E j \in 1..m : i = l + j
  <2>1. \A i \in 1..m : l + i \in 1..Len(t) /\ ~(l + i <= l)
    BY <1>2
  <2>2. \A i \in 1..l : i \in 1..Len(t) /\ i <= l
    BY <1>2
  <2>3. \A i \in 1..Len(t) : i \in 1..l \/ (i - l \in 1..m /\ i = l + (i - l))
    BY <1>2
  <2> QED BY <2>1, <2>2, <2>3
<1>8. at2 \in [1..Len(t) -> 1..Len(q2)]
  <2>1. \A i \in 1..Len(t) : (IF i <= l THEN at[i] ELSE Len(q) + 1) \in 1..Len(q2)
    <3> TAKE i \in 1..Len(t)
    <3>1. CASE i <= l
      <4>1. at[i] \in 1..Len(q)
        BY <1>2, <1>6, <3>1
      <4> QED BY <1>4, <3>1, <4>1
    <3>2. CASE ~(i <= l)
      BY <1>4, <3>2
    <3> QED BY <3>1, <3>2
  <2> QED BY <2>1
<1> HIDE DEF f, t, l, m, q2, at2
<1>9. \A i \in 1..Len(t) : t[i].of = q2[at2[i]]
  <2> TAKE i \in 1..Len(t)
  <2>1. CASE i \in 1..l
    <3>1. at[i] \in 1..Len(q) /\ at2[i] = at[i]
      BY <1>6, <1>7, <2>1
    <3>2. t[i] = s[i] /\ s[i].of = q[at[i]] /\ q2[at[i]] = q[at[i]]
      BY <1>2, <1>4, <1>6, <2>1, <3>1
    <3> QED BY <3>1, <3>2
  <2>2. CASE \E j \in 1..m : i = l + j
    <3>1. PICK j \in 1..m : i = l + j
      BY <2>2
    <3>2. t[i] = f[j] /\ f[j].of = req /\ at2[i] = Len(q) + 1
      BY <1>1, <1>3, <1>7, <3>1
    <3> QED BY <1>4, <3>2
  <2> QED BY <1>7, <2>1, <2>2
<1>10. \A i \in 1..(Len(t) - 1) :
         IF LastPart(t[i])
         THEN at2[i + 1] = at2[i] + 1 /\ t[i + 1].part = "MetaHeader"
         ELSE /\ at2[i + 1] = at2[i]
              /\ t[i + 1].part = IF t[i].part = "MetaHeader" THEN "Header" ELSE "Body"
  <2> TAKE i \in 1..(Len(t) - 1)
  <2>1. CASE i \in 1..(l - 1)
    <3>1. i \in 1..l /\ i + 1 \in 1..l
      BY <1>2, <2>1
    <3> QED BY <1>2, <1>6, <1>7, <2>1, <3>1
  <2>2. CASE i = l
    <3>1. i \in 1..l /\ l # 0 /\ 1 \in 1..m
      BY <1>1, <1>2, <2>2
    <3>2. LastPart(t[i]) /\ at2[i] = Len(q)
      BY <1>2, <1>5, <1>7, <2>2, <3>1 DEF l
    <3>3. at2[i + 1] = Len(q) + 1 /\ t[i + 1].part = "MetaHeader"
      BY <1>1, <1>3, <1>7, <2>2, <3>1
    <3> QED BY <3>2, <3>3
  <2>3. CASE i \notin 1..l
    <3>1. PICK j \in 1..m : i = l + j /\ j + 1 \in 1..m
      <4>1. i - l \in 1..m /\ i - l + 1 \in 1..m /\ i = l + (i - l)
        BY <1>2, <2>3
      <4> QED BY <4>1
    <3>2. i + 1 = l + (j + 1)
      BY <1>2, <3>1
    <3>3. at2[i] = Len(q) + 1 /\ at2[i + 1] = Len(q) + 1 /\ t[i] = f[j] /\ t[i + 1] = f[j + 1]
      BY <1>3, <1>7, <3>1, <3>2
    <3>4. /\ ~LastPart(f[j])
          /\ f[j + 1].part = IF f[j].part = "MetaHeader" THEN "Header" ELSE "Body"
      <4>1. j = 1 \/ (j = 2 /\ m = 3)
        BY <1>1, <3>1
      <4>2. CASE j = 1
        BY <1>1, <4>2 DEF LastPart
      <4>3. CASE j = 2 /\ m = 3
        <5>1. f[j].of = req /\ f[j].part = "Header" /\ f[j + 1].part = "Body"
              /\ req.msg_type # "REQUEST_GET_VARIABLES"
          BY <1>1, <4>3
        <5> QED BY <5>1 DEF LastPart
      <4> QED BY <4>1, <4>2, <4>3
    <3> QED BY <3>3, <3>4
  <2>4. i \in 1..(l - 1) \/ i = l \/ i \notin 1..l
    BY <1>2
  <2> QED BY <2>1, <2>2, <2>3, <2>4
<1>11. Stream(t, q2, at2)
  BY <1>8, <1>9, <1>10 DEF Stream
<1>12. t # <<>> /\ Len(t) > l
  BY <1>1, <1>2
<1>13. LastPart(t[Len(t)])
  <2>1. m \in 1..m /\ t[Len(t)] = f[m] /\ f[m].of = req
    BY <1>1, <1>2, <1>3
  <2>2. LastPart(f[m])
    BY <1>1, <2>1 DEF LastPart
  <2> QED BY <2>1, <2>2
<1>14. (s = <<>> => t[1].part = "MetaHeader") /\ (s # <<>> => t[1] = s[1])
  <2>1. CASE l = 0
    <3>1. 1 \in 1..m /\ l + 1 = 1
      BY <1>1, <2>1
    <3> QED BY <1>1, <1>3, <1>5, <2>1, <3>1
  <2>2. CASE l # 0
    BY <1>2, <1>5, <2>2
  <2> QED BY <2>1, <2>2
<1> QED BY <1>2, <1>11, <1>12, <1>13, <1>14 DEF t, q2, at2, l, f
-----------------------------------------------------------------------------
(* The tables only grow, so an answer that fits goes on fitting.           *)

LEMMA KnownKinds ==
  ASSUME NEW req \in Understood
  PROVE  /\ req.msg_type \in {"REQUEST_ADD_VAR", "REQUEST_SAVE_VALUE",
                              "REQUEST_GET_VALUES", "REQUEST_GET_VARIABLES"}
         /\ req.msg_type = "REQUEST_GET_VALUES" =>
              /\ req.variable \in Names
              /\ req.start \in Nat \cup {Absent} /\ req.end \in Nat \cup {Absent}
<1> QED BY RequestFields, TablesAssumption
        DEF Understood, KnownRequests, AddVar, SaveValue, GetValues, GetVariables

(* A request is read as what was sent.                                     *)
LEMMA ReadAsSent ==
  ASSUME Requests \subseteq Understood, NEW req \in Requests
  PROVE  AsRead(req) = req /\ req # Unknown
<1>1. req.msg_type # "UNLISTED" /\ req.msg_type # "UNKNOWN"
  BY KnownKinds
<1> QED BY <1>1 DEF AsRead, Unknown

LEMMA TablesGrow ==
  ASSUME TablesInv, Statement
  PROVE  /\ VariableIds \subseteq VariableIds' /\ ValueIds \subseteq ValueIds'
         /\ \A id \in VariableIds : variable'[id] = variable[id]
         /\ \A id \in ValueIds : variable_value'[id] = variable_value[id]
<1>1. variable \in Seq(VariableRow) /\ variable_value \in Seq(ValueRow)
  BY DEF TablesInv, TablesTypeOK
<1>2. CASE UNCHANGED <<variable, variable_value>>
  BY <1>2 DEF VariableIds, ValueIds
<1>3. ASSUME NEW n \in Names, NEW color \in Colors, InsertVariable(n, color)
      PROVE  /\ VariableIds \subseteq VariableIds' /\ ValueIds \subseteq ValueIds'
             /\ \A id \in VariableIds : variable'[id] = variable[id]
             /\ \A id \in ValueIds : variable_value'[id] = variable_value[id]
  <2>1. [name |-> n, color |-> color] \in VariableRow
    BY DEF VariableRow
  <2>2. /\ Len(variable') = Len(variable) + 1 /\ Len(variable) \in Nat
        /\ \A id \in 1..Len(variable) : variable'[id] = variable[id]
    BY <1>1, <1>3, <2>1, AppendRow DEF InsertVariable
  <2> QED BY <1>3, <2>2 DEF InsertVariable, VariableIds, ValueIds
<1>4. ASSUME NEW n \in Names, NEW v \in Vals, NEW now \in Clock, InsertValue(n, v, now)
      PROVE  /\ VariableIds \subseteq VariableIds' /\ ValueIds \subseteq ValueIds'
             /\ \A id \in VariableIds : variable'[id] = variable[id]
             /\ \A id \in ValueIds : variable_value'[id] = variable_value[id]
  <2>1. ValueRowOf(n, v, now) \in ValueRow
    BY <1>4, ValueRowType DEF InsertValue
  <2>2. /\ Len(variable_value') = Len(variable_value) + 1 /\ Len(variable_value) \in Nat
        /\ \A id \in 1..Len(variable_value) : variable_value'[id] = variable_value[id]
    BY <1>1, <1>4, <2>1, AppendRow DEF InsertValue
  <2> QED BY <1>4, <2>2 DEF InsertValue, VariableIds, ValueIds
<1> QED BY <1>2, <1>3, <1>4 DEF Statement, CreateTable, dbVars

LEMMA NamesStay ==
  ASSUME TablesInv, Statement, NEW id \in ValueIds
  PROVE  /\ id \in ValueIds' /\ NameOf(id)' = NameOf(id)
         /\ variable_value'[id] = variable_value[id]
<1>1. variable_value[id].variable_id \in VariableIds
  BY DEF TablesInv, Integrity, ReferencesResolve
<1> QED BY <1>1, TablesGrow DEF NameOf

LEMMA StoresStay ==
  ASSUME TablesInv, Statement, NEW id \in ValueIds, NEW req, Stores(req, id)
  PROVE  Stores(req, id)'
BY NamesStay DEF Stores

LEMMA AskedForStays ==
  ASSUME TablesInv, Statement, NEW req, NEW id \in ValueIds
  PROVE  id \in AskedFor(req) <=> id \in AskedFor(req)'
BY NamesStay DEF AskedFor

LEMMA AskedForGrows ==
  ASSUME TablesInv, Statement, NEW req
  PROVE  AskedFor(req) \subseteq AskedFor(req)'
BY AskedForStays DEF AskedFor

LEMMA AnswersStay ==
  ASSUME TablesInv, Statement, Requests \subseteq Understood,
         NEW req \in Requests, NEW res, Answers(req, res)
  PROVE  Answers(req, res)'
<1> SUFFICES ASSUME res # Failed PROVE Answers(req, res)'
  BY DEF Answers
<1>1. CASE req.msg_type = "REQUEST_ADD_VAR"
  <2>1. /\ res.status = "OK" /\ res.prev_msg = "REQUEST_ADD_VAR"
        /\ \A id \in res.rows : id \in VariableIds /\ variable[id].name = req.name
    BY <1>1 DEF Answers
  <2>2. \A id \in res.rows : id \in VariableIds' /\ variable'[id].name = req.name
    BY <2>1, TablesGrow
  <2> QED BY <1>1, <2>1, <2>2 DEF Answers
<1>2. CASE req.msg_type = "REQUEST_SAVE_VALUE"
  <2>1. /\ res.status = "OK" /\ res.msg_type = "RESPONSE_FAILURE"
        /\ \A id \in res.rows : /\ id \in ValueIds
                                /\ NameOf(id) = req.variable
                                /\ variable_value[id].val = ToSixDecimals(req.value)
    BY <1>2 DEF Answers
  <2>2. \A id \in res.rows : /\ id \in ValueIds'
                            /\ NameOf(id)' = req.variable
                            /\ variable_value'[id].val = ToSixDecimals(req.value)
    BY <2>1, NamesStay
  <2> QED BY <1>2, <2>1, <2>2 DEF Answers
<1>3. CASE req.msg_type = "REQUEST_GET_VALUES"
  <2>1. /\ res.status = "OK" /\ res.msg_type = "RESPONSE_VALUES"
        /\ res.rows \subseteq AskedFor(req) /\ res.size <= max_values_ammount
    BY <1>3 DEF Answers
  <2>2. res.rows \subseteq AskedFor(req)'
    BY <2>1, AskedForGrows
  <2> QED BY <1>3, <2>1, <2>2 DEF Answers
<1>4. CASE req.msg_type = "REQUEST_GET_VARIABLES"
  <2>1. /\ res.status = "OK" /\ res.msg_type = "RESPONSE_VARIABLES"
        /\ res.rows \subseteq VariableIds
    BY <1>4 DEF Answers
  <2>2. res.rows \subseteq VariableIds'
    BY <2>1, TablesGrow
  <2> QED BY <1>4, <2>1, <2>2 DEF Answers
<1> QED BY <1>1, <1>2, <1>3, <1>4, KnownKinds

LEMMA SeesStays ==
  ASSUME TablesInv, Statement, NEW acknowledged \in SUBSET ValueIds, NEW req, NEW res,
         Sees(acknowledged, req, res)
  PROVE  Sees(acknowledged, req, res)'
BY AskedForStays DEF Sees
-----------------------------------------------------------------------------
(* What a step leaves alone keeps its place.                               *)

(* Nothing of d's connection changes.                                      *)
Untouched(d) ==
  /\ conn'[d] = conn[d] /\ inbox'[d] = inbox[d]
  /\ phase'[d] = phase[d] /\ work'[d] = work[d]
  /\ sent'[d] = sent[d] /\ replies'[d] = replies[d] /\ floor'[d] = floor[d]

LEMMA FittingStays ==
  ASSUME TablesInv, HistoryType, Statement, Requests \subseteq Understood,
         NEW c \in Conns, NEW k \in DOMAIN sent[c], NEW res, Fitting(c, k, res),
         floor[c][k] \subseteq ValueIds,
         sent'[c][k] = sent[c][k], floor'[c][k] = floor[c][k]
  PROVE  Fitting(c, k, res)'
<1>1. sent[c][k] \in Requests
  BY DEF HistoryType
<1>2. Answers(sent[c][k], res)'
  BY <1>1, AnswersStay DEF Fitting
<1>3. Sees(floor[c][k], sent[c][k], res)'
  BY SeesStays DEF Fitting
<1> QED BY <1>2, <1>3 DEF Fitting

(* The requests and their answers stay, or there are more of both.         *)
LEMMA RepliesStay ==
  ASSUME TablesInv, HistoryType, Statement, Requests \subseteq Understood,
         NEW c \in Conns, RepliesInv(c),
         sent'[c] = sent[c], replies'[c] = replies[c], floor'[c] = floor[c]
  PROVE  RepliesInv(c)'
<1>1. /\ DOMAIN sent[c] = 1..Len(sent[c]) /\ DOMAIN floor[c] = 1..Len(floor[c])
      /\ DOMAIN replies[c] = 1..Len(replies[c])
      /\ Len(sent[c]) \in Nat /\ Len(replies[c]) \in Nat
  BY DEF HistoryType
<1>2. \A k \in DOMAIN replies[c] : k \in DOMAIN sent[c] /\ k \in DOMAIN floor[c]
  BY <1>1 DEF RepliesInv
<1>3. \A k \in DOMAIN replies[c] : Fitting(c, k, replies[c][k])'
  BY <1>2, FittingStays DEF RepliesInv
<1>4. \A k \in DOMAIN floor[c] : floor[c][k] \subseteq ValueIds'
  BY TablesGrow DEF RepliesInv
<1> QED BY <1>3, <1>4 DEF RepliesInv

LEMMA UntouchedStays ==
  ASSUME TablesInv, HistoryType, Statement, Requests \subseteq Understood,
         NEW c \in Conns, NEW k, SessionInv(c, k), RepliesInv(c), Untouched(c)
  PROVE  SessionInv(c, k)' /\ RepliesInv(c)'
<1>1. RepliesInv(c)'
  BY RepliesStay DEF Untouched
<1>2. Spent(c)' <=> Spent(c)
  BY DEF Untouched, Spent
<1>3. StreamInv(c, IF Spent(c) THEN k + 1 ELSE k)'
  BY <1>2 DEF SessionInv, StreamInv, Untouched
<1>4. Attended(c, k) => Attended(c, k)'
  <2> SUFFICES ASSUME Attended(c, k) PROVE Attended(c, k)'
    OBVIOUS
  <2>1. phase[c] = "write" => Fitting(c, k, work[c])'
    <3> SUFFICES ASSUME phase[c] = "write" PROVE Fitting(c, k, work[c])'
      OBVIOUS
    <3>1. k \in DOMAIN sent[c] /\ Fitting(c, k, work[c])
      BY DEF Attended
    <3>2. k \in DOMAIN floor[c]
      BY <3>1 DEF RepliesInv, HistoryType
    <3>3. Fitting(c, k, work[c]) => Fitting(c, k, work'[c])
      BY DEF Untouched
    <3>4. floor[c][k] \subseteq ValueIds
      BY <3>2 DEF RepliesInv
    <3> QED BY <3>1, <3>4, FittingStays DEF Untouched
  <2> QED BY <1>2, <2>1 DEF Attended, Untouched, Fitting
<1> QED BY <1>1, <1>2, <1>3, <1>4 DEF SessionInv, Untouched

LEMMA StepAt ==
  ASSUME SessionsType, NEW c \in Conns, NEW p, NEW w, Step(c, p, w)
  PROVE  /\ phase'[c] = p /\ work'[c] = w
         /\ \A d \in Conns \ {c} : phase'[d] = phase[d] /\ work'[d] = work[d]
BY DEF SessionsType, Step

LEMMA ConsumeAt ==
  ASSUME SessionsType, NEW c \in Conns, inbox[c] # <<>>, Consume(c)
  PROVE  /\ inbox'[c] = Tail(inbox[c])
         /\ \A d \in Conns \ {c} : inbox'[d] = inbox[d]
BY DEF SessionsType, Consume

(* A step of one session or client touches no other, but for the end of    *)
(* the process.                                                            *)
LEMMA EnvironmentUntouched ==
  ASSUME SessionsType, HistoryType, NEW c \in Conns, Environment(c), NEW d \in Conns \ {c}
  PROVE  Untouched(d)
<1>1. CASE Connect(c)
  BY <1>1 DEF Connect, SessionsType, history, Untouched
<1>2. ASSUME NEW req \in Requests, SendRequest(c, req) PROVE Untouched(d)
  BY <1>2 DEF SendRequest, SessionsType, HistoryType, Untouched
<1>3. ASSUME NEW how, Disconnect(c, how) PROVE Untouched(d)
  BY <1>3 DEF Disconnect, SessionsType, history, Untouched
<1> QED BY <1>1, <1>2, <1>3 DEF Environment

LEMMA SessionUntouched ==
  ASSUME SessionsType, HistoryType, NEW c \in Conns, Session(c), ~DieInCompress(c),
         ~Astray(c), NEW d \in Conns \ {c}
  PROVE  Untouched(d)
<1>1. ASSUME NEW p, NEW w, Step(c, p, w) PROVE phase'[d] = phase[d] /\ work'[d] = work[d]
  BY <1>1, StepAt
<1>2. ASSUME NEW part, Has(c, part), Consume(c) PROVE inbox'[d] = inbox[d]
  BY <1>2, ConsumeAt DEF Has
<1>3. CASE Accept(c) \/ HeaderReadFailed(c) \/ BodyReadFailed(c) \/ WriteFailed(c)
           \/ read_get_variables_request(c)
  <2>1. UNCHANGED <<conn, inbox, history>>
    BY <1>3 DEF Accept, HeaderReadFailed, BodyReadFailed, WriteFailed,
                read_get_variables_request
  <2>2. \E p, w : Step(c, p, w)
    BY <1>3, Zenon DEF Accept, HeaderReadFailed, BodyReadFailed, WriteFailed,
                read_get_variables_request, FetchVariables, Respond
  <2> QED BY <1>1, <2>1, <2>2 DEF Untouched, history
<1>4. CASE ReadMetaHeader(c) \/ ReadHeader(c)
  <2>1. UNCHANGED <<conn, history>> /\ \E part : Has(c, part) /\ Consume(c)
    BY <1>4 DEF ReadMetaHeader, ReadHeader
  <2>2. \E p, w : Step(c, p, w)
    BY <1>4, Zenon DEF ReadMetaHeader, ReadHeader, Respond
  <2> QED BY <1>1, <1>2, <2>1, <2>2 DEF Untouched, history
<1>6. CASE read_add_variable_request(c) \/ read_save_value_request(c)
           \/ read_get_values_request(c)
  <2>1. UNCHANGED <<conn, history>> /\ \E part : Has(c, part) /\ Consume(c)
    BY <1>6 DEF read_add_variable_request, read_save_value_request,
                read_get_values_request, BodyRead
  <2>2. \E p, w : Step(c, p, w)
    BY <1>6, Zenon DEF read_add_variable_request, read_save_value_request,
                read_get_values_request, AddVariable, AddVariableValue, FetchValues, Respond
  <2> QED BY <1>1, <1>2, <2>1, <2>2 DEF Untouched, history
<1>7. CASE WriteDone(c)
  <2>1. /\ UNCHANGED <<conn, inbox, sent, floor>> /\ Step(c, "mh", Idle)
        /\ replies'[d] = replies[d]
    BY <1>7 DEF WriteDone, HistoryType
  <2> QED BY <1>1, <2>1 DEF Untouched
<1> QED BY <1>3, <1>4, <1>6, <1>7 DEF Session, Database
-----------------------------------------------------------------------------
(* The stream of one connection.                                           *)

LEMMA StreamEmpty ==
  ASSUME NEW c \in Conns, NEW next, inbox'[c] = <<>>
  PROVE  StreamInv(c, next)'
<1> DEFINE at == [i \in 1..0 |-> 0]
<1>1. Stream(<<>>, sent'[c], at)
  BY DEF Stream
<1> QED BY <1>1 DEF StreamInv

(* Nothing is read and nothing is sent.                                    *)
LEMMA StreamStays ==
  ASSUME NEW c \in Conns, NEW next, StreamInv(c, next),
         inbox'[c] = inbox[c], sent'[c] = sent[c],
         inbox[c] # <<>> => Expects(phase'[c], work'[c], inbox[c][1]),
         inbox[c] # <<>> /\ conn'[c] = "open" => conn[c] = "open"
  PROVE  StreamInv(c, next)'
BY DEF StreamInv

(* A token is read; those behind it still are what the session expects.    *)
LEMMA StreamConsumed ==
  ASSUME SessionsType, HistoryType, NEW c \in Conns, NEW next, StreamInv(c, next),
         NEW after, after = IF LastPart(inbox[c][1]) THEN next + 1 ELSE next,
         inbox[c] # <<>>, Consume(c), sent'[c] = sent[c], conn'[c] = conn[c],
         \A tok \in Token :
           (IF LastPart(inbox[c][1]) THEN tok.part = "MetaHeader"
            ELSE /\ tok.part = IF inbox[c][1].part = "MetaHeader" THEN "Header" ELSE "Body"
                 /\ tok.of = inbox[c][1].of)
           => Expects(phase'[c], work'[c], tok)
  PROVE  /\ StreamInv(c, after)'
         /\ next \in DOMAIN sent[c] /\ inbox[c][1].of = sent[c][next]
         /\ Expects(phase[c], work[c], inbox[c][1])
         /\ inbox'[c] = <<>> /\ conn[c] = "open" =>
              LastPart(inbox[c][1]) /\ Len(sent[c]) = next
<1> DEFINE s == inbox[c]
           q == sent[c]
           l == Len(s)
           t == Tail(s)
<1>1. s \in Seq(Token) /\ q \in Seq(Requests)
  BY DEF SessionsType, HistoryType
<1>2. PICK at : /\ Stream(s, q, at)
                /\ at[1] = next
                /\ Expects(phase[c], work[c], s[1])
                /\ conn[c] = "open" => LastPart(s[l]) /\ at[l] = Len(q)
  BY DEF StreamInv
<1>3. /\ l \in Nat \ {0} /\ t \in Seq(Token) /\ Len(t) = l - 1
      /\ \A i \in 1..(l - 1) : t[i] = s[i + 1]
      /\ t = <<>> <=> l = 1
  BY <1>1, TailFacts
<1>4. inbox'[c] = t
  BY ConsumeAt
<1>5. /\ at \in [1..l -> 1..Len(q)]
      /\ \A i \in 1..l : s[i].of = q[at[i]]
      /\ \A i \in 1..(l - 1) :
           IF LastPart(s[i])
           THEN at[i + 1] = at[i] + 1 /\ s[i + 1].part = "MetaHeader"
           ELSE /\ at[i + 1] = at[i]
                /\ s[i + 1].part = IF s[i].part = "MetaHeader" THEN "Header" ELSE "Body"
  BY <1>2 DEF Stream
<1>6. 1 \in 1..l /\ next \in 1..Len(q) /\ s[1].of = q[next]
  BY <1>2, <1>3, <1>5
<1> DEFINE at2 == [i \in 1..(l - 1) |-> at[i + 1]]
<1>7. Stream(t, q, at2)
  BY <1>1, <1>2, StreamTail
<1>8. \A i \in 1..(l - 1) : at2[i] = at[i + 1]
  OBVIOUS
<1> HIDE DEF s, q, l, t, at2
<1>9. ASSUME t # <<>>
      PROVE  /\ at2[1] = after
             /\ Expects(phase'[c], work'[c], t[1])
             /\ conn'[c] = "open" => LastPart(t[Len(t)]) /\ at2[Len(t)] = Len(q)
  <2>1. /\ 1 \in 1..(l - 1) /\ l - 1 \in 1..(l - 1) /\ 1 + 1 \in 1..l
        /\ l - 1 + 1 = l
    BY <1>3, <1>9
  <2>2. t[1] = s[1 + 1] /\ t[1] \in Token /\ at2[1] = at[1 + 1]
    BY <1>3, <1>8, <2>1
  <2>3. /\ at2[1] = after
        /\ IF LastPart(s[1]) THEN t[1].part = "MetaHeader"
           ELSE /\ t[1].part = IF s[1].part = "MetaHeader" THEN "Header" ELSE "Body"
                /\ t[1].of = s[1].of
    BY <1>2, <1>5, <1>6, <2>1, <2>2 DEF s
  <2>4. Expects(phase'[c], work'[c], t[1])
    BY <2>2, <2>3 DEF s
  <2>5. t[Len(t)] = s[l] /\ at2[Len(t)] = at[l]
    BY <1>3, <1>8, <2>1
  <2> QED BY <1>2, <2>3, <2>4, <2>5
<1>10. StreamInv(c, after)'
  BY <1>4, <1>7, <1>9 DEF StreamInv, s, q
<1>11. t = <<>> /\ conn[c] = "open" => LastPart(s[1]) /\ Len(q) = next
  BY <1>2, <1>3
<1> QED BY <1>1, <1>2, <1>4, <1>6, <1>10, <1>11 DEF s, q

(* The connection breaks, and a part of what was sent is lost.             *)
LEMMA StreamCut ==
  ASSUME SessionsType, NEW c \in Conns, NEW next, StreamInv(c, next),
         NEW j \in 0..Len(inbox[c]), inbox'[c] = SubSeq(inbox[c], 1, j),
         sent'[c] = sent[c], phase'[c] = phase[c], work'[c] = work[c], conn'[c] # "open"
  PROVE  StreamInv(c, next)'
<1> DEFINE s == inbox[c]
           t == SubSeq(s, 1, j)
<1>1. s \in Seq(Token)
  BY DEF SessionsType
<1>2. PICK at : /\ Stream(s, sent[c], at)
                /\ s # <<>> => at[1] = next /\ Expects(phase[c], work[c], s[1])
  BY DEF StreamInv
<1>3. Len(t) = j /\ \A i \in 1..j : t[i] = s[i]
  BY <1>1, PrefixFacts
<1> DEFINE at2 == [i \in 1..j |-> at[i]]
<1>4. Stream(t, sent[c], at2)
  BY <1>1, <1>2, StreamPrefix
<1>5. t # <<>> => 1 \in 1..j /\ s # <<>>
  <2>1. t \in Seq(Token)
    BY <1>1, PrefixFacts
  <2> QED BY <1>1, <1>3, <2>1
<1>6. t # <<>> => t[1] = s[1] /\ at2[1] = at[1]
  BY <1>3, <1>5
<1> HIDE DEF t, at2
<1> QED BY <1>2, <1>4, <1>5, <1>6 DEF StreamInv, t

(* A request is sent.                                                      *)
LEMMA StreamGrown ==
  ASSUME SessionsType, HistoryType, NEW c \in Conns, NEW next, StreamInv(c, next),
         NEW req \in Requests, conn[c] = "open",
         inbox'[c] = inbox[c] \o Frame(req), sent'[c] = Append(sent[c], req),
         phase'[c] = phase[c], work'[c] = work[c],
         inbox[c] = <<>> =>
           /\ next = Len(sent[c]) + 1
           /\ \A tok : tok.part = "MetaHeader" => Expects(phase[c], work[c], tok)
  PROVE  StreamInv(c, next)' /\ inbox'[c] # <<>>
<1> DEFINE s == inbox[c]
           q == sent[c]
           t == s \o Frame(req)
<1>1. s \in Seq(Token) /\ q \in Seq(Requests)
  BY DEF SessionsType, HistoryType
<1>2. PICK at : /\ Stream(s, q, at)
                /\ s # <<>> =>
                     /\ at[1] = next
                     /\ Expects(phase[c], work[c], s[1])
                     /\ LastPart(s[Len(s)]) /\ at[Len(s)] = Len(q)
  BY DEF StreamInv
<1> DEFINE at2 == [i \in 1..Len(t) |-> IF i <= Len(s) THEN at[i] ELSE Len(q) + 1]
<1>3. /\ Stream(t, Append(q, req), at2)
      /\ t \in Seq(Token) /\ t # <<>> /\ Len(t) > Len(s)
      /\ LastPart(t[Len(t)])
      /\ s = <<>> => t[1].part = "MetaHeader"
      /\ s # <<>> => t[1] = s[1]
  BY <1>1, <1>2, StreamGrow
<1>4. Len(Append(q, req)) = Len(q) + 1
  BY <1>1
<1>5. at2[1] = IF s = <<>> THEN Len(q) + 1 ELSE at[1]
  BY <1>1, <1>3
<1>6. at2[Len(t)] = Len(q) + 1
  BY <1>1, <1>3
<1> HIDE DEF t, at2
<1>7. at2[1] = next /\ Expects(phase[c], work[c], t[1])
  BY <1>2, <1>3, <1>5
<1> QED BY <1>3, <1>4, <1>6, <1>7 DEF StreamInv, t
-----------------------------------------------------------------------------
(* The steps of one connection.                                            *)

LEMMA Assemble ==
  ASSUME NEW c \in Conns, NEW k, NEW next, StreamInv(c, next)',
         next = IF Spent(c)' THEN k + 1 ELSE k,
         phase'[c] \notin {"lost", "astray"}, conn'[c] # "none",
         phase'[c] = "body" => k \in DOMAIN sent'[c] /\ work'[c] = sent'[c][k],
         conn'[c] = "open" => Attended(c, k)'
  PROVE  SessionInv(c, k)'
<1>1. StreamInv(c, IF Spent(c) THEN k + 1 ELSE k)'
  BY DEF StreamInv
<1> QED BY <1>1 DEF SessionInv

(* The first token of a stream as Has sees it.                             *)
LEMMA HasFirst ==
  ASSUME SessionsType, NEW c \in Conns, NEW part, Has(c, part)
  PROVE  /\ inbox[c] # <<>> /\ Head(inbox[c]) = inbox[c][1]
         /\ inbox[c][1] \in Token /\ inbox[c][1].part = part
BY HeadTailProperties DEF Has, SessionsType

LEMMA ConnectStep ==
  ASSUME IInv, NEW c \in Conns, NEW k, SessionInv(c, k), Connect(c)
  PROVE  SessionInv(c, k)'
<1>1. /\ conn[c] = "none" /\ conn'[c] = "open"
      /\ inbox' = inbox /\ phase' = phase /\ work' = work
      /\ sent' = sent /\ replies' = replies /\ floor' = floor
  BY DEF Connect, IInv, SessionsType, history
<1>2. phase[c] = "unborn" /\ inbox[c] = <<>> /\ Attended(c, k)
  BY <1>1 DEF SessionInv
<1>3. StreamInv(c, k)'
  BY <1>1, <1>2, StreamEmpty
<1>4. ~Spent(c)' /\ ~Spent(c)
  BY <1>1, <1>2 DEF Spent
<1>5. Attended(c, k)'
  BY <1>1, <1>2, <1>4 DEF Attended
<1> QED BY <1>1, <1>2, <1>3, <1>4, <1>5, Assemble

LEMMA SendStep ==
  ASSUME IInv, NEW c \in Conns, NEW k \in Nat \ {0}, SessionInv(c, k),
         NEW req \in Requests, SendRequest(c, req), Statement, Requests \subseteq Understood,
         RepliesInv(c)
  PROVE  SessionInv(c, k)' /\ RepliesInv(c)'
<1> DEFINE q == sent[c]
<1>1. /\ conn[c] = "open" /\ conn' = conn /\ phase' = phase /\ work' = work
      /\ replies' = replies /\ UNCHANGED dbVars
      /\ inbox'[c] = inbox[c] \o Frame(req)
      /\ sent'[c] = Append(q, req)
      /\ floor'[c] = Append(floor[c], Acknowledged)
      /\ Len(q) < MaxRequests
  BY DEF SendRequest, IInv, SessionsType, HistoryType
<1>2. /\ q \in Seq(Requests) /\ replies[c] \in Seq(ResponseType)
      /\ floor[c] \in Seq(SUBSET (Nat \ {0}))
  BY DEF IInv, HistoryType
<1>3. Acknowledged \in SUBSET ValueIds /\ ValueIds \subseteq Nat \ {0}
  BY AcknowledgedType DEF IInv, TablesInv, TablesTypeOK, ValueIds
<1>4. /\ Len(sent'[c]) = Len(q) + 1 /\ Len(q) \in Nat
      /\ DOMAIN q = 1..Len(q) /\ DOMAIN sent'[c] = 1..(Len(q) + 1)
      /\ \A i \in 1..Len(q) : sent'[c][i] = q[i]
  BY <1>1, <1>2, AppendRow
<1>5. /\ Len(floor[c]) = Len(q) /\ DOMAIN floor'[c] = 1..(Len(q) + 1)
      /\ Len(floor'[c]) = Len(q) + 1
      /\ \A i \in 1..Len(q) : floor'[c][i] = floor[c][i] /\ floor[c][i] \subseteq ValueIds
      /\ floor'[c][Len(q) + 1] = Acknowledged
  <2>1. Len(floor[c]) = Len(q) /\ DOMAIN floor[c] = 1..Len(floor[c])
    BY <1>2 DEF RepliesInv
  <2>2. Acknowledged \in SUBSET (Nat \ {0})
    BY <1>3
  <2>3. /\ Len(floor'[c]) = Len(floor[c]) + 1
        /\ floor'[c] \in Seq(SUBSET (Nat \ {0}))
        /\ \A i \in 1..Len(floor[c]) : floor'[c][i] = floor[c][i]
        /\ floor'[c][Len(floor[c]) + 1] = Acknowledged
    BY <1>1, <1>2, <2>2, AppendRow
  <2>4. DOMAIN floor'[c] = 1..Len(floor'[c])
    BY <2>3
  <2> QED BY <2>1, <2>3, <2>4 DEF RepliesInv
<1>6. ValueIds' = ValueIds /\ TablesInv /\ HistoryType
  BY <1>1 DEF ValueIds, dbVars, IInv
<1>7. \A i \in 1..Len(q) : \A res : Fitting(c, i, res) => Fitting(c, i, res)'
  BY <1>4, <1>5, <1>6, FittingStays
<1>8. RepliesInv(c)'
  <2>1. DOMAIN replies'[c] = 1..Len(replies[c]) /\ Len(replies[c]) \in Nat
    BY <1>1, <1>2
  <2>2. \A i \in DOMAIN replies'[c] : Fitting(c, i, replies[c][i])'
    <3> TAKE i \in DOMAIN replies'[c]
    <3>1. i \in 1..Len(q) /\ i \in DOMAIN replies[c]
      BY <1>1, <1>4, <2>1 DEF RepliesInv
    <3>2. Fitting(c, i, replies[c][i])
      BY <3>1 DEF RepliesInv
    <3>3. Fitting(c, i, replies'[c][i])
      BY <1>1, <3>2
    <3> QED BY <1>7, <3>1, <3>3
  <2>3. \A i \in DOMAIN floor'[c] : floor'[c][i] \subseteq ValueIds'
    <3> TAKE i \in DOMAIN floor'[c]
    <3>1. i \in 1..Len(q) \/ i = Len(q) + 1
      BY <1>4, <1>5
    <3> QED BY <1>3, <1>5, <1>6, <3>1
  <2>4. /\ Len(replies'[c]) <= Len(sent'[c]) /\ Len(sent'[c]) <= MaxRequests
        /\ Len(floor'[c]) = Len(sent'[c])
    BY <1>1, <1>4, <1>5, <2>1, ServerAssumption DEF RepliesInv
  <2> QED BY <2>2, <2>3, <2>4 DEF RepliesInv
<1>9. Spent(c)' <=> Spent(c)
  BY <1>1 DEF Spent
<1>10. Attended(c, k) /\ phase[c] \notin {"lost", "astray"}
  BY <1>1 DEF SessionInv
<1> DEFINE next == IF Spent(c) THEN k + 1 ELSE k
<1>11. inbox[c] = <<>> =>
         /\ next = Len(q) + 1
         /\ \A tok : tok.part = "MetaHeader" => Expects(phase[c], work[c], tok)
  <2> SUFFICES ASSUME inbox[c] = <<>>
               PROVE  /\ next = Len(q) + 1
                      /\ \A tok : tok.part = "MetaHeader" => Expects(phase[c], work[c], tok)
    OBVIOUS
  <2>1. next = Len(q) + 1
    BY <1>4, <1>10 DEF Attended
  <2>2. phase[c] # "h" /\ (phase[c] = "body" => work[c].msg_type = "REQUEST_GET_VARIABLES")
    BY <1>10 DEF Attended, Spent
  <2> QED BY <2>1, <2>2 DEF Expects
<1>12. StreamInv(c, next)' /\ inbox'[c] # <<>>
  <2>1. PICK n : n = next
    OBVIOUS
  <2>2. StreamInv(c, n) /\ SessionsType /\ HistoryType
    BY <2>1 DEF SessionInv, IInv
  <2>3. StreamInv(c, n)' /\ inbox'[c] # <<>>
    BY <1>1, <1>11, <2>1, <2>2, StreamGrown
  <2> QED BY <1>9, <2>1, <2>3 DEF StreamInv
<1>13. Attended(c, k)'
  <2>1. phase[c] = "write" => Fitting(c, k, work[c])'
    <3> SUFFICES ASSUME phase[c] = "write" PROVE Fitting(c, k, work[c])'
      OBVIOUS
    <3>1. k \in 1..Len(q) /\ Fitting(c, k, work[c])
      BY <1>4, <1>10 DEF Attended
    <3>2. Fitting(c, k, work'[c])
      BY <1>1, <3>1
    <3> QED BY <1>7, <3>1, <3>2
  <2> QED BY <1>1, <1>4, <1>10, <1>12, <2>1 DEF Attended
<1>14. SessionInv(c, k)'
  <2>1. StreamInv(c, IF Spent(c) THEN k + 1 ELSE k)'
    BY <1>12
  <2>2. phase'[c] = "body" => k \in DOMAIN sent'[c] /\ work'[c] = sent'[c][k]
    BY <1>1, <1>4 DEF SessionInv
  <2> QED BY <1>1, <1>10, <1>13, <2>1, <2>2 DEF SessionInv
<1> QED BY <1>8, <1>14

LEMMA DisconnectStep ==
  ASSUME IInv, NEW c \in Conns, NEW k, SessionInv(c, k),
         NEW how \in {"fin", "rst"}, Disconnect(c, how)
  PROVE  SessionInv(c, k)'
<1>1. PICK j \in 0..Len(inbox[c]) :
        /\ conn'[c] \in {"fin", "rst"} /\ inbox'[c] = SubSeq(inbox[c], 1, j)
        /\ phase' = phase /\ work' = work /\ sent' = sent
  BY DEF Disconnect, IInv, SessionsType, history
<1>2. Spent(c)' <=> Spent(c)
  BY <1>1 DEF Spent
<1>3. PICK next : next = IF Spent(c) THEN k + 1 ELSE k
  OBVIOUS
<1>4. StreamInv(c, next) /\ SessionsType
  BY <1>3 DEF SessionInv, IInv
<1>5. StreamInv(c, next)'
  BY <1>1, <1>4, StreamCut
<1>6. phase[c] \notin {"lost", "astray"} /\ (phase[c] = "body" => k \in DOMAIN sent[c] /\ work[c] = sent[c][k])
  BY DEF SessionInv
<1> QED BY <1>1, <1>2, <1>3, <1>5, <1>6, Assemble

(* The session waits for another operation, the stream is left alone.      *)
LEMMA QuietStep ==
  ASSUME IInv, NEW c \in Conns, NEW k, SessionInv(c, k), NEW p, NEW w, Step(c, p, w),
         NEW k2, conn' = conn, inbox' = inbox, sent' = sent,
         p \in {"mh", "write", "gone"}, conn[c] # "none",
         \/ inbox[c] = <<>>
         \/ /\ phase[c] \in {"unborn", "mh", "write", "body"}
            /\ phase[c] = "body" => Spent(c)
            /\ (IF Spent(c) THEN k + 1 ELSE k) = IF p = "write" THEN k2 + 1 ELSE k2,
         conn[c] = "open" => Attended(c, k2)'
  PROVE  SessionInv(c, k2)'
<1>1. phase'[c] = p /\ work'[c] = w
  BY StepAt DEF IInv
<1>2. Spent(c)' <=> p = "write"
  BY <1>1 DEF Spent
<1>3. PICK next : next = IF p = "write" THEN k2 + 1 ELSE k2
  OBVIOUS
<1>4. StreamInv(c, next)'
  <2>1. CASE inbox[c] = <<>>
    BY <2>1, StreamEmpty
  <2>2. CASE inbox[c] # <<>>
    <3>1. StreamInv(c, next)
      BY <1>3, <2>2 DEF SessionInv
    <3>2. Expects(phase[c], work[c], inbox[c][1])
      BY <2>2, <3>1 DEF StreamInv
    <3>3. inbox[c][1].part = "MetaHeader"
      BY <2>2, <3>2 DEF Expects, Spent
    <3>4. Expects(p, w, inbox[c][1])
      BY <3>3 DEF Expects
    <3> QED BY <1>1, <3>1, <3>4, StreamStays
  <2> QED BY <2>1, <2>2
<1> QED BY <1>1, <1>2, <1>3, <1>4, Assemble

LEMMA AcceptStep ==
  ASSUME IInv, NEW c \in Conns, NEW k, SessionInv(c, k), Accept(c)
  PROVE  SessionInv(c, k)'
<1>1. /\ phase[c] = "unborn" /\ conn[c] # "none" /\ ~Spent(c)
      /\ UNCHANGED <<conn, inbox, sent, replies, floor>>
  BY DEF Accept, history, Spent
<1>2. PICK p \in {"mh", "gone"} : Step(c, p, Idle)
  BY DEF Accept
<1>3. conn[c] = "open" => Attended(c, k)'
  <2>1. phase'[c] = p
    BY <1>2, StepAt DEF IInv
  <2>2. conn[c] = "open" => Attended(c, k)
    BY DEF SessionInv
  <2> QED BY <1>1, <2>1, <2>2 DEF Attended, Spent
<1> QED BY <1>1, <1>2, <1>3, QuietStep

(* Where the stream ends a client that is gone gets an answer all the same.*)
LEMMA EndedStep ==
  ASSUME IInv, NEW c \in Conns, NEW k, SessionInv(c, k),
         HeaderReadFailed(c) \/ BodyReadFailed(c)
  PROVE  SessionInv(c, k)'
<1>1. /\ inbox[c] = <<>> /\ conn[c] \in {"fin", "rst"}
      /\ UNCHANGED <<conn, inbox, sent>>
  BY DEF HeaderReadFailed, BodyReadFailed, ReadError, history
<1>2. PICK p \in {"write", "gone"}, w \in {Failed, Idle} : Step(c, p, w)
  BY DEF HeaderReadFailed, BodyReadFailed, Respond
<1> QED BY <1>1, <1>2, QuietStep

LEMMA WriteFailedStep ==
  ASSUME IInv, NEW c \in Conns, NEW k, SessionInv(c, k), WriteFailed(c)
  PROVE  SessionInv(c, k)'
<1>1. /\ phase[c] = "write" /\ Spent(c) /\ conn[c] = "rst"
      /\ UNCHANGED <<conn, inbox, sent>> /\ Step(c, "write", Failed)
  BY DEF WriteFailed, Respond, history, Spent
<1> QED BY <1>1, QuietStep

(* The answer is delivered: the session goes on to the next request.       *)
LEMMA WriteDoneStep ==
  ASSUME IInv, NEW c \in Conns, NEW k \in Nat \ {0}, SessionInv(c, k), RepliesInv(c),
         WriteDone(c)
  PROVE  SessionInv(c, k + 1)' /\ RepliesInv(c)'
<1>1. /\ phase[c] = "write" /\ Spent(c) /\ conn[c] \in {"open", "fin"}
      /\ UNCHANGED <<dbVars, conn, inbox, sent, floor>> /\ Step(c, "mh", Idle)
      /\ replies'[c] = IF conn[c] = "open" THEN Append(replies[c], work[c]) ELSE replies[c]
  BY DEF WriteDone, Spent, IInv, HistoryType
<1>2. phase'[c] = "mh" /\ ~Spent(c)'
  BY <1>1, StepAt DEF IInv, Spent
<1>3. replies[c] \in Seq(ResponseType) /\ work[c] \in ResponseType /\ sent[c] \in Seq(Requests)
  BY <1>1 DEF IInv, HistoryType, SessionsType, WorkFits
<1>4. conn[c] = "open" => Attended(c, k)
  BY DEF SessionInv
<1>5. conn[c] = "open" => Len(replies'[c]) = Len(replies[c]) + 1
  BY <1>1, <1>3, AppendRow
<1>6. conn[c] = "open" => Attended(c, k + 1)'
  BY <1>1, <1>2, <1>3, <1>4, <1>5 DEF Attended
<1>7. SessionInv(c, k + 1)'
  <2>1. PICK k2 : k2 = k + 1
    OBVIOUS
  <2>2. (IF Spent(c) THEN k + 1 ELSE k) = IF "mh" = "write" THEN k2 + 1 ELSE k2
    BY <1>1, <2>1
  <2>3. conn[c] = "open" => Attended(c, k2)'
    BY <1>6, <2>1
  <2>4. conn' = conn /\ inbox' = inbox /\ sent' = sent /\ conn[c] # "none"
    BY <1>1
  <2>5. SessionInv(c, k2)'
    BY <1>1, <2>2, <2>3, <2>4, QuietStep
  <2> QED BY <2>1, <2>5
<1>8. RepliesInv(c)'
  <2>1. ASSUME conn[c] # "open" PROVE RepliesInv(c)'
    <3>1. replies'[c] = replies[c] /\ sent' = sent /\ floor' = floor
      BY <1>1, <2>1
    <3>2. \A i, res : Fitting(c, i, res)' <=> Fitting(c, i, res)
      BY <1>1 DEF Fitting, Answers, Sees, AskedFor, NameOf, ValueIds, VariableIds, dbVars
    <3> QED BY <1>1, <3>1, <3>2 DEF RepliesInv, ValueIds, dbVars
  <2>2. ASSUME conn[c] = "open" PROVE RepliesInv(c)'
    <3> DEFINE l == Len(replies[c])
    <3>1. /\ Len(replies'[c]) = l + 1 /\ l \in Nat
          /\ DOMAIN replies[c] = 1..l /\ DOMAIN replies'[c] = 1..(l + 1)
          /\ \A i \in 1..l : replies'[c][i] = replies[c][i]
          /\ replies'[c][l + 1] = work[c]
      BY <1>1, <1>3, <2>2, AppendRow
    <3>2. k = l + 1 /\ k \in DOMAIN sent[c] /\ Fitting(c, k, work[c])
      BY <1>1, <1>4, <2>2 DEF Attended
    <3>3. \A i, res : Fitting(c, i, res)' <=> Fitting(c, i, res)
      BY <1>1 DEF Fitting, Answers, Sees, AskedFor, NameOf, ValueIds, VariableIds, dbVars
    <3>4. \A i \in 1..(l + 1) : Fitting(c, i, replies'[c][i])
      <4> TAKE i \in 1..(l + 1)
      <4>1. CASE i \in 1..l
        <5>1. Fitting(c, i, replies[c][i]) /\ replies'[c][i] = replies[c][i]
          BY <3>1, <4>1 DEF RepliesInv
        <5> QED BY <5>1
      <4>2. CASE i = l + 1
        BY <3>1, <3>2, <4>2
      <4> QED BY <3>1, <4>1, <4>2
    <3>5. Len(replies'[c]) <= Len(sent'[c])
      BY <1>1, <1>3, <3>1, <3>2
    <3>6. \A i \in DOMAIN floor'[c] : floor'[c][i] \subseteq ValueIds'
      BY <1>1 DEF RepliesInv, ValueIds, dbVars
    <3>7. \A i \in DOMAIN replies'[c] : Fitting(c, i, replies[c][i])'
      BY <3>1, <3>3, <3>4
    <3> QED BY <1>1, <3>5, <3>6, <3>7 DEF RepliesInv
  <2> QED BY <2>1, <2>2
<1> QED BY <1>7, <1>8

(* Whom a session serves has connected.                                    *)
LEMMA ConnectedOf ==
  ASSUME NEW c \in Conns, NEW k, SessionInv(c, k), phase[c] # "unborn"
  PROVE  conn[c] # "none"
BY DEF SessionInv


LEMMA ReadMetaHeaderStep ==
  ASSUME IInv, NEW c \in Conns, NEW k \in Nat \ {0}, SessionInv(c, k), ReadMetaHeader(c)
  PROVE  SessionInv(c, k)'
<1>1. /\ phase[c] = "mh" /\ ~Spent(c) /\ Has(c, "MetaHeader") /\ Consume(c)
      /\ UNCHANGED <<conn, sent, replies, floor>> /\ Step(c, "h", Idle)
  BY DEF ReadMetaHeader, history, Spent
<1>2. SessionsType /\ HistoryType /\ StreamInv(c, k)
  BY <1>1 DEF IInv, SessionInv
<1>3. phase'[c] = "h" /\ work'[c] = Idle /\ ~Spent(c)'
  BY <1>1, <1>2, StepAt DEF Spent
<1>4. inbox[c] # <<>> /\ inbox[c][1].part = "MetaHeader" /\ ~LastPart(inbox[c][1])
  BY <1>1, <1>2, HasFirst DEF LastPart
<1>5. \A tok : tok.part = "Header" => Expects(phase'[c], work'[c], tok)
  BY <1>3 DEF Expects
<1>6. StreamInv(c, k)' /\ ~(inbox'[c] = <<>> /\ conn[c] = "open")
  BY <1>1, <1>2, <1>4, <1>5, StreamConsumed
<1>7. conn[c] = "open" => Attended(c, k)'
  <2>1. conn[c] = "open" => Attended(c, k)
    BY DEF SessionInv
  <2> QED BY <1>1, <1>3, <1>6, <2>1 DEF Attended
<1> QED BY <1>1, <1>2, <1>3, <1>6, <1>7, Assemble, ConnectedOf

(* The session goes on with the request whose header it has read.          *)
LEMMA ReadHeaderStep ==
  ASSUME IInv, NEW c \in Conns, NEW k \in Nat \ {0}, SessionInv(c, k), ReadHeader(c),
         Requests \subseteq Understood
  PROVE  SessionInv(c, k)'
<1> DEFINE req == sent[c][k]
           tok1 == inbox[c][1]
<1>1. /\ phase[c] = "h" /\ ~Spent(c) /\ Has(c, "Header") /\ Consume(c)
      /\ UNCHANGED <<conn, sent, replies, floor>>
      /\ Head(inbox[c]).of # Unknown => Step(c, "body", AsRead(Head(inbox[c]).of))
  BY DEF ReadHeader, history, Spent
<1>2. SessionsType /\ HistoryType /\ StreamInv(c, k)
  BY <1>1 DEF IInv, SessionInv
<1>3. /\ inbox[c] # <<>> /\ Head(inbox[c]) = tok1 /\ tok1.part = "Header"
      /\ tok1 \in Token
  BY <1>1, <1>2, HasFirst
<1>4. tok1.of \in Requests /\ AsRead(tok1.of) = tok1.of /\ tok1.of # Unknown
  BY <1>3, ReadAsSent DEF Token
<1>5. phase'[c] = "body" /\ work'[c] = tok1.of
  BY <1>1, <1>2, <1>3, <1>4, StepAt
<1>6. LastPart(tok1) <=> tok1.of.msg_type = "REQUEST_GET_VARIABLES"
  BY <1>3 DEF LastPart
<1>7. Spent(c)' <=> LastPart(tok1)
  BY <1>5, <1>6 DEF Spent
<1>8. PICK after : after = IF LastPart(tok1) THEN k + 1 ELSE k
  OBVIOUS
<1>9. \A tok \in Token :
        (IF LastPart(tok1) THEN tok.part = "MetaHeader"
         ELSE /\ tok.part = IF tok1.part = "MetaHeader" THEN "Header" ELSE "Body"
              /\ tok.of = tok1.of)
        => Expects(phase'[c], work'[c], tok)
  BY <1>3, <1>5, <1>6 DEF Expects
<1>10. /\ StreamInv(c, after)'
       /\ k \in DOMAIN sent[c] /\ tok1.of = req
       /\ inbox'[c] = <<>> /\ conn[c] = "open" => LastPart(tok1) /\ Len(sent[c]) = k
  BY <1>1, <1>2, <1>3, <1>8, <1>9, StreamConsumed
<1>11. conn[c] = "open" => Attended(c, k)'
  <2>1. conn[c] = "open" => Attended(c, k)
    BY DEF SessionInv
  <2> QED BY <1>1, <1>5, <1>7, <1>10, <2>1 DEF Attended
<1> QED BY <1>1, <1>2, <1>5, <1>7, <1>8, <1>10, <1>11, Assemble, ConnectedOf

(* The session is never out of step.                                       *)
LEMMA NeverAstray ==
  ASSUME IInv, NEW c \in Conns, NEW k, SessionInv(c, k)
  PROVE  ~Astray(c)
<1>1. ~Misplaced(c)
  <2> SUFFICES ASSUME Misplaced(c) PROVE FALSE
    OBVIOUS
  <2>1. phase[c] = "mh" /\ inbox[c] # <<>> /\ ~Has(c, "MetaHeader")
    BY DEF Misplaced
  <2>2. Expects(phase[c], work[c], inbox[c][1])
    BY <2>1 DEF SessionInv, StreamInv
  <2>3. Head(inbox[c]) = inbox[c][1]
    BY <2>1, HeadTailProperties DEF IInv, SessionsType
  <2> QED BY <2>1, <2>2, <2>3 DEF Expects, Has
<1>2. phase[c] \notin {"lost", "astray"}
  BY DEF SessionInv
<1> QED BY <1>1, <1>2
        DEF Astray, ReadMisaligned, ReadAstrayBody, AstrayReadFailed, DieAstray

(* The body of the request is read and answered.                           *)
LEMMA BodyStep ==
  ASSUME IInv, NEW c \in Conns, NEW k \in Nat \ {0}, SessionInv(c, k),
         NEW msg_type, msg_type # "REQUEST_GET_VARIABLES", BodyRead(c, msg_type),
         NEW w, Respond(c, w), UNCHANGED <<conn, history>>,
         conn[c] = "open" => Fitting(c, k, work[c])'
  PROVE  SessionInv(c, k)'
<1>1. /\ phase[c] = "body" /\ work[c].msg_type # "REQUEST_GET_VARIABLES"
      /\ ~Spent(c) /\ Has(c, "Body") /\ Consume(c)
      /\ UNCHANGED <<conn, sent, replies, floor>> /\ Step(c, "write", w)
  BY DEF BodyRead, Respond, history, Spent
<1>2. SessionsType /\ HistoryType /\ StreamInv(c, k)
  BY <1>1 DEF IInv, SessionInv
<1>3. phase'[c] = "write" /\ work'[c] = w /\ Spent(c)'
  BY <1>1, <1>2, StepAt DEF Spent
<1>4. inbox[c] # <<>> /\ LastPart(inbox[c][1])
  BY <1>1, <1>2, HasFirst DEF LastPart
<1>5. \A tok : tok.part = "MetaHeader" => Expects(phase'[c], work'[c], tok)
  BY <1>3 DEF Expects
<1>6. PICK after : after = k + 1
  OBVIOUS
<1>7. /\ StreamInv(c, after)'
      /\ k \in DOMAIN sent[c]
      /\ inbox'[c] = <<>> /\ conn[c] = "open" => Len(sent[c]) = k
  BY <1>1, <1>2, <1>4, <1>5, <1>6, StreamConsumed
<1>8. conn[c] = "open" => Attended(c, k)'
  <2>1. conn[c] = "open" => Attended(c, k)
    BY DEF SessionInv
  <2> QED BY <1>1, <1>3, <1>7, <2>1 DEF Attended
<1> QED BY <1>1, <1>2, <1>3, <1>6, <1>7, <1>8, Assemble, ConnectedOf
-----------------------------------------------------------------------------
(* What the handlers answer fits the request.                              *)

(* The join finds the readings whose variable has the name.                *)
LEMMA SelectedIsAskedFor ==
  ASSUME TablesInv, NEW req \in Understood, req.msg_type = "REQUEST_GET_VALUES"
  PROVE  Selected(req) = AskedFor(req)
<1>1. \A id \in ValueIds :
        /\ variable_value[id].variable_id \in VariableIds
        /\ variable_value[id].timestamp \in Nat
  <2> TAKE id \in ValueIds
  <2>1. variable_value[id] \in ValueRow
    BY DEF TablesInv, TablesTypeOK, ValueIds
  <2>2. variable_value[id].timestamp \in Clock
    BY <2>1 DEF ValueRow
  <2> QED BY <2>2, TablesAssumption DEF TablesInv, Integrity, ReferencesResolve
<1>2. /\ req.variable \in Names
      /\ req.start \in Nat \cup {Absent} /\ req.end \in Nat \cup {Absent}
  BY KnownKinds
<1>3. SelectValues(req.variable) = {id \in ValueIds : NameOf(id) = req.variable}
  BY <1>1 DEF SelectValues, SelectId, NameOf
<1>4. CASE req.start # Absent /\ req.end # Absent
  <2>1. \A id \in ValueIds :
          variable_value[id].timestamp \in req.start..req.end <=>
            /\ variable_value[id].timestamp >= req.start
            /\ variable_value[id].timestamp <= req.end
    BY <1>1, <1>2, <1>4
  <2> QED BY <1>3, <1>4, <2>1 DEF Selected, SelectValuesBetween, AskedFor
<1>5. CASE ~(req.start # Absent /\ req.end # Absent)
  BY <1>3, <1>5 DEF Selected, AskedFor
<1> QED BY <1>4, <1>5

LEMMA FailedFits ==
  ASSUME NEW c \in Conns, NEW k, work'[c] = Failed
  PROVE  Fitting(c, k, work[c])'
BY DEF Fitting, Answers, Sees, Failed, Response

LEMMA AddVariableFits ==
  ASSUME IInv, NEW c \in Conns, NEW k, SessionInv(c, k), read_add_variable_request(c)
  PROVE  Fitting(c, k, work[c])'
<1>1. /\ phase[c] = "body" /\ work[c].msg_type = "REQUEST_ADD_VAR"
      /\ work[c] = sent[c][k] /\ sent' = sent
  BY DEF read_add_variable_request, BodyRead, SessionInv, history
<1>2. PICK err \in {"Ok", "Failed"} :
        /\ add_variable(work[c].name, work[c].color, err)
        /\ Respond(c, IF err = "Ok"
                      THEN OkTo("REQUEST_ADD_VAR", Len(variable')) ELSE Failed)
  BY DEF read_add_variable_request, AddVariable
<1>3. SessionsType /\ variable \in Seq(VariableRow)
  BY DEF IInv, TablesInv, TablesTypeOK
<1>4. work'[c] = IF err = "Ok" THEN OkTo("REQUEST_ADD_VAR", Len(variable')) ELSE Failed
  BY <1>2, <1>3, StepAt DEF Respond
<1>5. CASE err = "Failed"
  BY <1>4, <1>5, FailedFits
<1>6. CASE err = "Ok"
  <2> DEFINE row == [name |-> work[c].name, color |-> work[c].color]
  <2>1. variable' = Append(variable, row)
    BY <1>2, <1>6 DEF add_variable, InsertVariable
  <2>2. work[c] \in Understood
    BY <1>1, <1>3, BodyOf
  <2>3. row \in VariableRow
    BY <1>1, <2>2, RequestFields DEF VariableRow
  <2>4. row.name = work[c].name
    OBVIOUS
  <2> HIDE DEF row
  <2>5. /\ Len(variable') \in VariableIds'
        /\ variable'[Len(variable')].name = work[c].name
    <3>1. /\ Len(variable') = Len(variable) + 1 /\ Len(variable) \in Nat
          /\ variable'[Len(variable) + 1] = row
      BY <1>3, <2>1, <2>3, AppendRow
    <3> QED BY <2>4, <3>1 DEF VariableIds
  <2>6. /\ work'[c].rows = {Len(variable')} /\ work'[c].status = "OK"
        /\ work'[c].prev_msg = "REQUEST_ADD_VAR"
    BY <1>4, <1>6 DEF OkTo, Response
  <2>7. sent'[c][k].msg_type = "REQUEST_ADD_VAR" /\ sent'[c][k].name = work[c].name
    BY <1>1
  <2>8. Answers(sent[c][k], work[c])'
    BY <2>5, <2>6, <2>7 DEF Answers
  <2>9. Sees(floor[c][k], sent[c][k], work[c])'
    BY <2>7 DEF Sees
  <2> QED BY <2>8, <2>9 DEF Fitting
<1> QED BY <1>5, <1>6

(* An Ok speaks of the reading that was added, a failure of none.          *)
LEMMA SaveValueStep ==
  ASSUME IInv, NEW c \in Conns, read_save_value_request(c)
  PROVE  \/ /\ work'[c] = Failed /\ UNCHANGED dbVars
         \/ \E req \in {work[c]}, id \in Nat \ ValueIds :
              /\ work'[c] = OkTo(Absent, id)
              /\ ValueIds' = ValueIds \cup {id}
              /\ Stores(req, id)'
<1>1. phase[c] = "body" /\ work[c].msg_type = "REQUEST_SAVE_VALUE"
  BY DEF read_save_value_request, BodyRead
<1>2. PICK err \in {"Ok", "Failed"} :
        /\ add_variable_value(work[c].variable, work[c].value, err)
        /\ Respond(c, IF err = "Ok"
                      THEN OkTo(Absent, Len(variable_value')) ELSE Failed)
  BY DEF read_save_value_request, AddVariableValue
<1>3. SessionsType /\ variable_value \in Seq(ValueRow)
  BY DEF IInv, TablesInv, TablesTypeOK
<1>4. work'[c] = IF err = "Ok" THEN OkTo(Absent, Len(variable_value')) ELSE Failed
  BY <1>2, <1>3, StepAt DEF Respond
<1>5. CASE err = "Failed"
  BY <1>2, <1>4, <1>5 DEF add_variable_value
<1>6. CASE err = "Ok"
  <2>1. PICK now \in Clock : InsertValue(work[c].variable, work[c].value, now)
    BY <1>2, <1>6 DEF add_variable_value
  <2>2. work[c].variable \in Names /\ work[c].value \in Vals
    BY <1>1, <1>3, BodyOf, RequestFields
  <2> DEFINE row == ValueRowOf(work[c].variable, work[c].value, now)
  <2>3. /\ variable_value' = Append(variable_value, row)
        /\ variable' = variable
        /\ CanInsertValue(work[c].variable, work[c].value)
    BY <2>1 DEF InsertValue
  <2>4. row \in ValueRow /\ row.variable_id \in SelectId(work[c].variable)
    BY <2>2, <2>3, ValueRowType DEF IInv
  <2>5. row.val = ToSixDecimals(work[c].value)
    BY DEF ValueRowOf
  <2>6. variable[row.variable_id].name = work[c].variable
    BY <2>4 DEF SelectId
  <2> HIDE DEF row
  <2>7. PICK id \in Nat : id = Len(variable_value) + 1
    BY <1>3
  <2>8. Len(variable_value') = id /\ Len(variable_value) \in Nat /\ variable_value'[id] = row
    BY <1>3, <2>3, <2>4, <2>7, AppendRow
  <2>9. ValueIds' = ValueIds \cup {id} /\ id \notin ValueIds
    BY <2>7, <2>8 DEF ValueIds
  <2>10. PICK req : req = work[c]
    OBVIOUS
  <2>11. variable'[variable_value'[id].variable_id].name = req.variable
    BY <2>3, <2>6, <2>8, <2>10
  <2>12. variable_value'[id].val = ToSixDecimals(req.value)
    BY <2>5, <2>8, <2>10
  <2>13. req.value # NotFinite /\ req.msg_type = "REQUEST_SAVE_VALUE"
    BY <1>1, <2>3, <2>10 DEF CanInsertValue
  <2>14. Stores(req, id)'
    BY <2>11, <2>12, <2>13 DEF Stores, NameOf
  <2>15. work'[c] = OkTo(Absent, id)
    BY <1>4, <1>6, <2>8
  <2> QED BY <2>9, <2>10, <2>14, <2>15
<1> QED BY <1>5, <1>6


LEMMA SaveValueFits ==
  ASSUME IInv, NEW c \in Conns, NEW k, SessionInv(c, k), read_save_value_request(c)
  PROVE  Fitting(c, k, work[c])'
<1>1. /\ work[c].msg_type = "REQUEST_SAVE_VALUE"
      /\ work[c] = sent[c][k] /\ sent' = sent
  BY DEF read_save_value_request, BodyRead, SessionInv, history
<1>2. CASE work'[c] = Failed
  BY <1>2, FailedFits
<1>3. CASE work'[c] # Failed
  <2>1. PICK req \in {work[c]}, id \in Nat \ ValueIds :
          /\ work'[c] = OkTo(Absent, id)
          /\ ValueIds' = ValueIds \cup {id}
          /\ Stores(req, id)'
    BY <1>3, SaveValueStep
  <2>2. /\ work'[c].rows = {id} /\ work'[c].status = "OK"
        /\ work'[c].msg_type = "RESPONSE_FAILURE"
    BY <2>1 DEF OkTo, Response
  <2>3. sent'[c][k] = req /\ req.msg_type = "REQUEST_SAVE_VALUE"
    BY <1>1, <2>1
  <2>4. /\ id \in ValueIds' /\ NameOf(id)' = req.variable
        /\ variable_value'[id].val = ToSixDecimals(req.value)
    BY <2>1 DEF Stores
  <2>5. Answers(sent[c][k], work[c])'
    BY <2>2, <2>3, <2>4 DEF Answers
  <2>6. Sees(floor[c][k], sent[c][k], work[c])'
    BY <2>3 DEF Sees
  <2> QED BY <2>5, <2>6 DEF Fitting
<1> QED BY <1>2, <1>3

(* Compressed or not, the response covers all that was selected.           *)
LEMMA CappedFits ==
  ASSUME NEW rows, IsFiniteSet(rows),
         NEW res \in fetch_variable_values(rows, max_values_ammount), res.err = "Ok"
  PROVE  /\ res.rows \subseteq rows /\ res.size <= max_values_ammount
         /\ max_values_ammount <= VectorMax => res.rows = rows
<1>1. res = Capped(rows, max_values_ammount)
  BY DEF fetch_variable_values, Fetched
<1>2. Cardinality(rows) \in Nat
  BY FS_CardinalityType
<1>3. max_values_ammount \in Nat \ {0} /\ VectorMax \in Nat
  BY ServerAssumption, VectorAssumption
<1>4. CASE ~MustCompress(rows, max_values_ammount)
  <2>1. Cardinality(rows) <= max_values_ammount
    BY <1>2, <1>3, <1>4 DEF MustCompress
  <2> QED BY <1>1, <1>4, <2>1 DEF Capped, Fetched
<1>5. CASE MustCompress(rows, max_values_ammount)
  BY <1>1, <1>3, <1>5 DEF Capped, Fetched
<1> QED BY <1>4, <1>5

LEMMA GetValuesFits ==
  ASSUME IInv, NEW c \in Conns, NEW k, SessionInv(c, k), read_get_values_request(c),
         Requests \subseteq Understood
  PROVE  Fitting(c, k, work[c])'
<1>1. /\ phase[c] = "body" /\ work[c].msg_type = "REQUEST_GET_VALUES"
      /\ work[c] = sent[c][k] /\ sent' = sent /\ UNCHANGED dbVars
  BY DEF read_get_values_request, FetchValues, BodyRead, SessionInv, history
<1>2. PICK res \in fetch_variable_values(Selected(work[c]), max_values_ammount) :
        Respond(c, IF res.err = "Ok" THEN ValuesResponse(res.rows, res.size) ELSE Failed)
  BY DEF read_get_values_request, FetchValues
<1>3. SessionsType /\ variable_value \in Seq(ValueRow) /\ TablesInv
  BY DEF IInv, TablesInv, TablesTypeOK
<1>4. work'[c] = IF res.err = "Ok" THEN ValuesResponse(res.rows, res.size) ELSE Failed
  BY <1>2, <1>3, StepAt DEF Respond
<1>5. CASE res.err # "Ok"
  BY <1>4, <1>5, FailedFits
<1>6. CASE res.err = "Ok"
  <2>1. PICK req : req = work[c]
    OBVIOUS
  <2>2. Selected(req) = AskedFor(req)
    BY <1>1, <1>3, <2>1, BodyOf, SelectedIsAskedFor
  <2>3. IsFiniteSet(Selected(req))
    <3>1. Len(variable_value) \in Nat
      BY <1>3
    <3>2. IsFiniteSet(ValueIds)
      BY <3>1, FS_Interval DEF ValueIds
    <3> QED BY <3>2, FS_Subset, SelectedRows
  <2>4. /\ res.rows \subseteq AskedFor(req) /\ res.size <= max_values_ammount
        /\ max_values_ammount <= VectorMax => res.rows = AskedFor(req)
    BY <1>2, <1>6, <2>1, <2>2, <2>3, CappedFits
  <2>5. AskedFor(req)' = AskedFor(req)
    BY <1>1 DEF AskedFor, NameOf, ValueIds, dbVars
  <2>6. /\ work'[c].rows = res.rows /\ work'[c].size = res.size
        /\ work'[c].status = "OK" /\ work'[c].msg_type = "RESPONSE_VALUES"
    BY <1>4, <1>6 DEF ValuesResponse, Response
  <2>7. sent'[c][k] = req /\ req.msg_type = "REQUEST_GET_VALUES"
    BY <1>1, <2>1
  <2>8. Answers(sent[c][k], work[c])'
    BY <2>4, <2>5, <2>6, <2>7 DEF Answers
  <2>9. Sees(floor[c][k], sent[c][k], work[c])'
    BY <2>4, <2>5, <2>6, <2>7 DEF Sees
  <2> QED BY <2>8, <2>9 DEF Fitting
<1> QED BY <1>5, <1>6

LEMMA GetVariablesFits ==
  ASSUME IInv, NEW c \in Conns, NEW k, SessionInv(c, k), read_get_variables_request(c)
  PROVE  Fitting(c, k, work[c])'
<1>1. /\ phase[c] = "body" /\ work[c].msg_type = "REQUEST_GET_VARIABLES"
      /\ work[c] = sent[c][k] /\ sent' = sent /\ UNCHANGED dbVars
  BY DEF read_get_variables_request, FetchVariables, SessionInv, history
<1>2. PICK res \in fetch_variables :
        Respond(c, IF res.err = "Ok" THEN VariablesResponse(res.rows, res.size) ELSE Failed)
  BY DEF read_get_variables_request, FetchVariables
<1>3. work'[c] = IF res.err = "Ok" THEN VariablesResponse(res.rows, res.size) ELSE Failed
  BY <1>2, StepAt DEF Respond, IInv
<1>4. CASE res.err # "Ok"
  BY <1>3, <1>4, FailedFits
<1>5. CASE res.err = "Ok"
  <2>1. res.rows = VariableIds
    BY <1>2, <1>5 DEF fetch_variables, Fetched
  <2>2. /\ work'[c].rows = VariableIds'
        /\ work'[c].status = "OK" /\ work'[c].msg_type = "RESPONSE_VARIABLES"
    BY <1>1, <1>3, <1>5, <2>1 DEF VariablesResponse, Response, VariableIds, dbVars
  <2>3. sent'[c][k].msg_type = "REQUEST_GET_VARIABLES"
    BY <1>1
  <2>4. Answers(sent[c][k], work[c])'
    BY <2>2, <2>3 DEF Answers
  <2>5. Sees(floor[c][k], sent[c][k], work[c])'
    BY <2>3 DEF Sees
  <2> QED BY <2>4, <2>5 DEF Fitting
<1> QED BY <1>4, <1>5

LEMMA DatabaseStep ==
  ASSUME IInv, NEW c \in Conns, NEW k \in Nat \ {0}, SessionInv(c, k),
         Database(c), ~DieInCompress(c), Requests \subseteq Understood
  PROVE  SessionInv(c, k)'
<1>1. CASE read_add_variable_request(c)
  <2>1. /\ BodyRead(c, "REQUEST_ADD_VAR") /\ UNCHANGED <<conn, history>>
        /\ Fitting(c, k, work[c])'
    BY <1>1, AddVariableFits DEF read_add_variable_request
  <2>2. \E w : Respond(c, w)
    BY <1>1, Zenon DEF read_add_variable_request, AddVariable
  <2> QED BY <2>1, <2>2, BodyStep
<1>2. CASE read_save_value_request(c)
  <2>1. /\ BodyRead(c, "REQUEST_SAVE_VALUE") /\ UNCHANGED <<conn, history>>
        /\ Fitting(c, k, work[c])'
    BY <1>2, SaveValueFits DEF read_save_value_request
  <2>2. \E w : Respond(c, w)
    BY <1>2, Zenon DEF read_save_value_request, AddVariableValue
  <2> QED BY <2>1, <2>2, BodyStep
<1>3. CASE read_get_values_request(c)
  <2>1. /\ BodyRead(c, "REQUEST_GET_VALUES") /\ UNCHANGED <<conn, history>>
        /\ Fitting(c, k, work[c])'
    BY <1>3, GetValuesFits DEF read_get_values_request
  <2>2. \E w : Respond(c, w)
    BY <1>3, Zenon DEF read_get_values_request, FetchValues
  <2> QED BY <2>1, <2>2, BodyStep
<1>4. CASE read_get_variables_request(c)
  <2>1. /\ phase[c] = "body" /\ work[c].msg_type = "REQUEST_GET_VARIABLES" /\ Spent(c)
        /\ UNCHANGED <<conn, inbox, sent, replies>> /\ Fitting(c, k, work[c])'
        /\ k \in DOMAIN sent[c]
    BY <1>4, GetVariablesFits DEF read_get_variables_request, history, Spent, SessionInv
  <2>2. PICK w : Step(c, "write", w)
    BY <1>4, Zenon DEF read_get_variables_request, FetchVariables, Respond
  <2>3. phase'[c] = "write" /\ Spent(c)'
    BY <2>2, StepAt DEF IInv, Spent
  <2>4. conn[c] = "open" => Attended(c, k)'
    <3>1. conn[c] = "open" => Attended(c, k)
      BY DEF SessionInv
    <3> QED BY <2>1, <2>3, <3>1 DEF Attended
  <2>5. conn[c] # "none"
    BY <2>1, ConnectedOf
  <2>6. conn' = conn /\ inbox' = inbox /\ sent' = sent
    BY <2>1
  <2> QED BY <2>1, <2>2, <2>4, <2>5, <2>6, QuietStep
<1> QED BY <1>1, <1>2, <1>3, <1>4 DEF Database
-----------------------------------------------------------------------------
(* All connections together.                                               *)

LEMMA ExitStep ==
  ASSUME IInv, NEW how, Exit(how), NEW c \in Conns, NEW k, SessionInv(c, k)
  PROVE  SessionInv(c, k)'
<1>1. /\ conn'[c] = IF conn[c] = "none" THEN "none" ELSE "rst"
      /\ inbox'[c] = <<>>
      /\ phase'[c] = IF conn[c] = "none" THEN "unborn" ELSE "gone"
      /\ sent' = sent /\ replies' = replies
  BY DEF Exit, history
<1>2. ~Spent(c)' /\ phase'[c] \notin {"lost", "astray"} /\ phase'[c] # "body"
  BY <1>1 DEF Spent
<1>3. StreamInv(c, k)'
  BY <1>1, StreamEmpty
<1>4. conn[c] = "none" => Attended(c, k) /\ phase[c] = "unborn" /\ inbox[c] = <<>>
  BY DEF SessionInv
<1>5. conn[c] = "none" => Attended(c, k)'
  BY <1>1, <1>2, <1>4 DEF Attended, Spent
<1>6. StreamInv(c, IF Spent(c) THEN k + 1 ELSE k)'
  BY <1>2, <1>3
<1> QED BY <1>1, <1>2, <1>5, <1>6 DEF SessionInv

LEMMA ExitSessions ==
  ASSUME IInv, NEW how, Exit(how), Statement, Requests \subseteq Understood,
         NEW cur, Sessions(cur)
  PROVE  Sessions(cur)'
<1>1. UNCHANGED history
  BY DEF Exit
<1>2. ASSUME NEW c \in Conns PROVE SessionInv(c, cur[c])' /\ RepliesInv(c)'
  <2>1. SessionInv(c, cur[c])'
    BY ExitStep DEF Sessions
  <2>2. RepliesInv(c)'
    BY <1>1, RepliesStay DEF Sessions, IInv, history
  <2> QED BY <2>1, <2>2
<1> QED BY <1>2 DEF Sessions

(* One connection makes a step, no other is touched.                       *)
LEMMA OneStep ==
  ASSUME IInv, Statement, Requests \subseteq Understood, NEW cur, Sessions(cur),
         NEW c \in Conns, \A d \in Conns \ {c} : Untouched(d),
         NEW k \in Nat \ {0}, SessionInv(c, k)', RepliesInv(c)',
         NEW next, next = [cur EXCEPT ![c] = k]
  PROVE  Sessions(next)'
<1>1. next \in [Conns -> Nat \ {0}] /\ next[c] = k /\ \A d \in Conns \ {c} : next[d] = cur[d]
  BY DEF Sessions
<1>2. ASSUME NEW d \in Conns PROVE SessionInv(d, next[d])' /\ RepliesInv(d)'
  <2>1. CASE d = c
    BY <1>1, <2>1
  <2>2. CASE d # c
    <3>1. SessionInv(d, cur[d]) /\ RepliesInv(d) /\ Untouched(d)
      BY <2>2 DEF Sessions
    <3>2. SessionInv(d, cur[d])' /\ RepliesInv(d)'
      BY <3>1, UntouchedStays DEF IInv
    <3> QED BY <1>1, <2>2, <3>2
  <2> QED BY <2>1, <2>2
<1> QED BY <1>1, <1>2 DEF Sessions

LEMMA SameStep ==
  ASSUME IInv, Statement, Requests \subseteq Understood, NEW cur, Sessions(cur),
         NEW c \in Conns, \A d \in Conns \ {c} : Untouched(d),
         SessionInv(c, cur[c])', RepliesInv(c)'
  PROVE  Sessions(cur)'
<1>1. cur[c] \in Nat \ {0} /\ cur = [cur EXCEPT ![c] = cur[c]]
  BY DEF Sessions
<1> QED BY <1>1, OneStep

LEMMA UntouchedSessions ==
  ASSUME IInv, Statement, Requests \subseteq Understood, NEW cur, Sessions(cur),
         \A d \in Conns : Untouched(d)
  PROVE  Sessions(cur)'
<1>1. \A d \in Conns : SessionInv(d, cur[d])' /\ RepliesInv(d)'
  BY UntouchedStays DEF Sessions, IInv
<1> QED BY <1>1 DEF Sessions

LEMMA ProcessSessions ==
  ASSUME IInv, Statement, Requests \subseteq Understood, NEW cur, Sessions(cur), Process
  PROVE  Sessions(cur)'
<1>1. UNCHANGED <<sessionVars, history>> \/ Exit("down")
  BY DEF Process, Open, create_scheme, CreateStatement, Seed, Crash
<1>2. CASE UNCHANGED <<sessionVars, history>>
  <2>1. \A d \in Conns : Untouched(d)
    BY <1>2 DEF Untouched, sessionVars, history
  <2> QED BY <2>1, UntouchedSessions
<1>3. CASE Exit("down")
  BY <1>3, ExitSessions
<1> QED BY <1>1, <1>2, <1>3

LEMMA EnvironmentSteps ==
  ASSUME IInv, Statement, Requests \subseteq Understood, NEW cur, Sessions(cur),
         NEW c \in Conns, Environment(c)
  PROVE  Sessions(cur)'
<1>1. /\ \A d \in Conns \ {c} : Untouched(d)
      /\ SessionInv(c, cur[c]) /\ RepliesInv(c) /\ cur[c] \in Nat \ {0}
      /\ TablesInv /\ HistoryType
  BY EnvironmentUntouched DEF IInv, Sessions
<1>2. ASSUME UNCHANGED history PROVE RepliesInv(c)'
  BY <1>1, <1>2, RepliesStay DEF history
<1>3. CASE Connect(c)
  <2>1. SessionInv(c, cur[c])'
    BY <1>1, <1>3, ConnectStep
  <2>2. UNCHANGED history
    BY <1>3 DEF Connect
  <2> QED BY <1>1, <1>2, <2>1, <2>2, SameStep
<1>4. ASSUME NEW req \in Requests, SendRequest(c, req) PROVE Sessions(cur)'
  <2>1. SessionInv(c, cur[c])' /\ RepliesInv(c)'
    BY <1>1, <1>4, SendStep
  <2> QED BY <1>1, <2>1, SameStep
<1>5. ASSUME NEW how \in {"fin", "rst"}, Disconnect(c, how) PROVE Sessions(cur)'
  <2>1. SessionInv(c, cur[c])'
    BY <1>1, <1>5, DisconnectStep
  <2>2. UNCHANGED history
    BY <1>5 DEF Disconnect
  <2> QED BY <1>1, <1>2, <2>1, <2>2, SameStep
<1> QED BY <1>3, <1>4, <1>5 DEF Environment

LEMMA SessionSteps ==
  ASSUME IInv, Statement, Requests \subseteq Understood, NEW cur, Sessions(cur),
         NEW c \in Conns, Session(c), ~WriteDone(c)
  PROVE  Sessions(cur)'
<1>1. CASE DieInCompress(c)
  BY <1>1, ExitSessions DEF DieInCompress
<1>2. CASE ~DieInCompress(c)
  <2>0. ~Astray(c)
    BY NeverAstray DEF Sessions
  <2>1. /\ \A d \in Conns \ {c} : Untouched(d)
        /\ SessionInv(c, cur[c]) /\ RepliesInv(c) /\ cur[c] \in Nat \ {0}
    BY <1>2, <2>0, SessionUntouched DEF IInv, Sessions
  <2>2. SessionInv(c, cur[c])'
    <3>1. CASE Database(c)
      BY <1>2, <2>1, <3>1, DatabaseStep
    <3>2. CASE ~Database(c)
      BY <2>0, <2>1, <3>2, AcceptStep, ReadMetaHeaderStep, ReadHeaderStep, EndedStep,
         WriteFailedStep DEF Session
    <3> QED BY <3>1, <3>2
  <2>3. UNCHANGED history
    BY <1>2, <2>0 DEF Session, Database, Accept, ReadMetaHeader, ReadHeader, HeaderReadFailed,
         BodyReadFailed, WriteFailed,
         read_add_variable_request, read_save_value_request,
         read_get_values_request, read_get_variables_request
  <2>4. RepliesInv(c)'
    BY <2>1, <2>3, RepliesStay DEF IInv, history
  <2> QED BY <2>1, <2>2, <2>4, SameStep
<1> QED BY <1>1, <1>2

(* Only an answer that is written moves a session to its next request.     *)
LEMMA WriteDoneSessions ==
  ASSUME IInv, Statement, Requests \subseteq Understood, NEW cur, Sessions(cur),
         NEW c \in Conns, WriteDone(c), NEW next, next = [cur EXCEPT ![c] = @ + 1]
  PROVE  Sessions(next)'
<1>1. PICK k \in Nat \ {0} : k = cur[c]
  BY DEF Sessions
<1>2. SessionInv(c, k) /\ RepliesInv(c)
  BY <1>1 DEF Sessions
<1>3. PICK k2 \in Nat \ {0} : k2 = k + 1
  BY <1>1
<1>4. SessionInv(c, k2)' /\ RepliesInv(c)'
  <2>1. SessionInv(c, k + 1)' /\ RepliesInv(c)'
    BY <1>2, WriteDoneStep
  <2> QED BY <1>3, <2>1
<1>5. ~DieInCompress(c) /\ Session(c)
  BY DEF WriteDone, DieInCompress, Session
<1>6. \A d \in Conns \ {c} : Untouched(d)
  BY <1>2, <1>5, NeverAstray, SessionUntouched DEF IInv
<1>7. next = [cur EXCEPT ![c] = k2]
  BY <1>1, <1>3
<1> QED BY <1>4, <1>6, <1>7, OneStep

LEMMA NextSessions ==
  ASSUME IInv, [Next]_vars, Requests \subseteq Understood, NEW cur, Sessions(cur),
         \A c \in Conns : ~WriteDone(c)
  PROVE  Sessions(cur)'
<1>1. Statement
  BY NextIsStatement DEF Statement, vars
<1>2. CASE UNCHANGED vars
  <2>1. \A d \in Conns : Untouched(d)
    BY <1>2 DEF Untouched, vars, sessionVars, history
  <2> QED BY <1>1, <2>1, UntouchedSessions
<1>3. CASE Next
  BY <1>1, <1>3, ProcessSessions, EnvironmentSteps, SessionSteps DEF Next
<1> QED BY <1>2, <1>3
-----------------------------------------------------------------------------
(* Where the readings come from.                                           *)

(* The session is not yet through with the request it is at.               *)
Unanswered(c) == phase[c] \in {"unborn", "mh", "h", "body"}

(* The session takes no new reading for its own.                           *)
Calm(c, k) ==
  /\ Unanswered(c)' => Unanswered(c)
  /\ phase'[c] = "write" /\ conn'[c] = "open" =>
       \/ phase[c] = "write" /\ conn[c] = "open" /\ work'[c] = work[c]
       \/ work'[c].rows = {}
       \/ sent'[c][k].msg_type # "REQUEST_SAVE_VALUE"

LEMMA StoredStays ==
  ASSUME IInv, Statement, NEW c \in Conns, NEW k \in DOMAIN sent[c],
         NEW id \in ValueIds, Stores(sent[c][k], id), sent'[c][k] = sent[c][k]
  PROVE  Stores(sent[c][k], id)'
<1>1. PICK req : req = sent[c][k]
  OBVIOUS
<1>2. Stores(req, id)'
  BY <1>1, StoresStay DEF IInv
<1> QED BY <1>1, <1>2 DEF Stores

LEMMA CalmOrigin ==
  ASSUME IInv, Statement, NEW cur, Sessions(cur), NEW by, Origin(cur, by),
         ValueIds' = ValueIds, replies' = replies,
         \A c \in Conns : \A k \in DOMAIN sent[c] :
           k \in DOMAIN sent'[c] /\ sent'[c][k] = sent[c][k],
         \A c \in Conns : Calm(c, cur[c])
  PROVE  Origin(cur, by)'
<1>1. /\ by \in [ValueIds' -> Conns \X (Nat \ {0})]
      /\ \A i, j \in ValueIds' : by[i] = by[j] => i = j
  BY DEF Origin
<1>2. ASSUME NEW id \in ValueIds, NEW c \in Conns, NEW k \in Nat, by[id] = <<c, k>>
      PROVE  /\ k \in DOMAIN sent'[c]
             /\ Stores(sent[c][k], id)'
             /\ k <= cur[c]
             /\ phase'[c] \in {"unborn", "mh", "h", "body"} => k < cur[c]
  <2>1. /\ k \in DOMAIN sent[c] /\ Stores(sent[c][k], id) /\ k <= cur[c]
        /\ phase[c] \in {"unborn", "mh", "h", "body"} => k < cur[c]
    BY <1>2 DEF Origin
  <2>2. Stores(sent[c][k], id)'
    BY <2>1, StoredStays
  <2> QED BY <2>1, <2>2 DEF Calm, Unanswered
<1>3. ASSUME NEW c \in Conns, NEW k \in DOMAIN replies[c],
             sent'[c][k].msg_type = "REQUEST_SAVE_VALUE", NEW id \in replies[c][k].rows
      PROVE  by[id] = <<c, k>>
  <2>1. k \in DOMAIN sent[c]
    BY DEF Sessions, RepliesInv, IInv, HistoryType
  <2> QED BY <1>3, <2>1 DEF Origin
<1>4. ASSUME NEW c \in Conns, phase'[c] = "write", conn'[c] = "open",
             sent'[c][cur[c]].msg_type = "REQUEST_SAVE_VALUE", NEW id \in work'[c].rows
      PROVE  by[id] = <<c, cur[c]>>
  <2>1. phase[c] = "write" /\ conn[c] = "open" /\ work'[c] = work[c]
    BY <1>4 DEF Calm
  <2>2. cur[c] \in DOMAIN sent[c]
    BY <2>1 DEF Sessions, SessionInv, Attended
  <2> QED BY <1>4, <2>1, <2>2 DEF Origin
<1> QED BY <1>1, <1>2, <1>3, <1>4 DEF Origin

(* The rows an Ok to a SAVE_VALUE speaks of are readings.                  *)
LEMMA SavedRows ==
  ASSUME NEW req, NEW res, Answers(req, res), req.msg_type = "REQUEST_SAVE_VALUE",
         NEW id \in res.rows
  PROVE  id \in ValueIds
BY DEF Answers, Failed, Response

(* A reading is stored: its request had stored none before.                *)
LEMMA SaveOrigin ==
  ASSUME IInv, Statement, NEW cur, Sessions(cur), NEW by, Origin(cur, by),
         NEW c \in Conns, read_save_value_request(c),
         NEW req \in {work[c]}, NEW id \in Nat \ ValueIds, work'[c] = OkTo(Absent, id),
         ValueIds' = ValueIds \cup {id}, Stores(req, id)'
  PROVE  \E by2 : Origin(cur, by2)'
<1> DEFINE k == cur[c]
<1> PICK by2 : by2 = [i \in ValueIds \cup {id} |-> IF i = id THEN <<c, k>> ELSE by[i]]
  OBVIOUS
<1>1. /\ phase[c] = "body" /\ phase'[c] = "write" /\ \A d \in Conns \ {c} : Untouched(d)
      /\ UNCHANGED <<conn, sent, replies>> /\ work'[c].rows = {id}
      /\ k \in Nat \ {0} /\ k \in DOMAIN sent[c] /\ sent[c][k] = req
      /\ \A d \in Conns : cur[d] \in Nat \ {0}
  <2>1. /\ Session(c) /\ ~DieInCompress(c)
        /\ k \in Nat \ {0} /\ \A d \in Conns : cur[d] \in Nat \ {0}
        /\ SessionInv(c, k)
    BY DEF Session, Database, read_save_value_request, BodyRead, DieInCompress, Sessions
  <2>2. phase[c] = "body" /\ \E w : Step(c, "write", w)
    BY Zenon DEF read_save_value_request, AddVariableValue, BodyRead, Respond
  <2>3. UNCHANGED <<conn, sent, replies>>
    BY DEF read_save_value_request, history
  <2>4. work'[c].rows = {id}
    BY DEF OkTo, Response
  <2>5. SessionsType /\ HistoryType
    BY DEF IInv
  <2>6. \A d \in Conns \ {c} : Untouched(d)
    BY <2>1, <2>5, NeverAstray, SessionUntouched
  <2>7. phase'[c] = "write"
    BY <2>2, <2>5, StepAt
  <2>8. k \in DOMAIN sent[c] /\ sent[c][k] = req
    BY <2>1, <2>2 DEF SessionInv
  <2> QED BY <2>1, <2>2, <2>3, <2>4, <2>6, <2>7, <2>8
<1>2. /\ by \in [ValueIds -> Conns \X (Nat \ {0})]
      /\ \A i, j \in ValueIds : by[i] = by[j] => i = j
      /\ \A i \in ValueIds, d \in Conns, n \in Nat :
           by[i] = <<d, n>> =>
             /\ n \in DOMAIN sent[d] /\ Stores(sent[d][n], i) /\ n <= cur[d]
             /\ phase[d] \in {"unborn", "mh", "h", "body"} => n < cur[d]
  BY DEF Origin
<1>3. \A i \in ValueIds : by[i] # <<c, k>>
  BY <1>1, <1>2
<1>4. by2[id] = <<c, k>> /\ \A i \in ValueIds : by2[i] = by[i] /\ i # id
  OBVIOUS
<1>5. by2 \in [ValueIds' -> Conns \X (Nat \ {0})]
  <2>1. <<c, k>> \in Conns \X (Nat \ {0})
    BY <1>1
  <2> QED BY <1>2, <2>1
<1>6. \A i, j \in ValueIds' : by2[i] = by2[j] => i = j
  BY <1>2, <1>3, <1>4
<1>7. ASSUME NEW i \in ValueIds', NEW d \in Conns, NEW n \in Nat, by2[i] = <<d, n>>
      PROVE  /\ n \in DOMAIN sent'[d]
             /\ Stores(sent[d][n], i)'
             /\ n <= cur[d]
             /\ phase'[d] \in {"unborn", "mh", "h", "body"} => n < cur[d]
  <2>1. CASE i = id
    <3>1. d = c /\ n = k
      BY <1>4, <1>7, <2>1
    <3>2. Stores(sent[d][n], i)'
      BY <1>1, <2>1, <3>1 DEF Stores
    <3> QED BY <1>1, <3>1, <3>2
  <2>2. CASE i # id
    <3>1. /\ i \in ValueIds /\ n \in DOMAIN sent[d] /\ Stores(sent[d][n], i) /\ n <= cur[d]
          /\ phase[d] \in {"unborn", "mh", "h", "body"} => n < cur[d]
      BY <1>2, <1>4, <1>7, <2>2
    <3>2. Stores(sent[d][n], i)'
      BY <1>1, <3>1, StoredStays
    <3>3. d # c => phase'[d] = phase[d]
      BY <1>1 DEF Untouched
    <3> QED BY <1>1, <3>1, <3>2, <3>3
  <2> QED BY <2>1, <2>2
<1>8. ASSUME NEW d \in Conns, NEW n \in DOMAIN replies'[d],
             sent'[d][n].msg_type = "REQUEST_SAVE_VALUE", NEW i \in replies'[d][n].rows
      PROVE  by2[i] = <<d, n>>
  <2>1. n \in DOMAIN replies[d] /\ i \in replies[d][n].rows
        /\ sent[d][n].msg_type = "REQUEST_SAVE_VALUE"
    BY <1>1, <1>8
  <2>2. Answers(sent[d][n], replies[d][n])
    BY <2>1 DEF Sessions, RepliesInv, Fitting
  <2>3. i \in ValueIds
    BY <2>1, <2>2, SavedRows
  <2> QED BY <1>4, <2>1, <2>3 DEF Origin
<1>9. ASSUME NEW d \in Conns, phase'[d] = "write", conn'[d] = "open",
             sent'[d][cur[d]].msg_type = "REQUEST_SAVE_VALUE", NEW i \in work'[d].rows
      PROVE  by2[i] = <<d, cur[d]>>
  <2>1. CASE d = c
    BY <1>1, <1>4, <1>9, <2>1
  <2>2. CASE d # c
    <3>1. /\ phase[d] = "write" /\ conn[d] = "open" /\ work'[d] = work[d]
          /\ sent[d][cur[d]].msg_type = "REQUEST_SAVE_VALUE" /\ i \in work[d].rows
      BY <1>1, <1>9, <2>2 DEF Untouched
    <3>2. Answers(sent[d][cur[d]], work[d])
      BY <3>1 DEF Sessions, SessionInv, Attended, Fitting
    <3>3. i \in ValueIds
      BY <3>1, <3>2, SavedRows
    <3> QED BY <1>4, <3>1, <3>3 DEF Origin
  <2> QED BY <2>1, <2>2
<1>10. Origin(cur, by2)'
  BY <1>5, <1>6, <1>7, <1>8, <1>9 DEF Origin
<1> QED BY <1>10

(* A session that goes on to the next request has told its client.         *)
LEMMA WriteDoneOrigin ==
  ASSUME IInv, NEW cur, Sessions(cur), NEW by, Origin(cur, by),
         NEW c \in Conns, WriteDone(c), NEW next, next = [cur EXCEPT ![c] = @ + 1]
  PROVE  Origin(next, by)'
<1>1. /\ phase[c] = "write" /\ UNCHANGED <<dbVars, conn, sent>> /\ phase'[c] = "mh"
      /\ replies'[c] = IF conn[c] = "open" THEN Append(replies[c], work[c]) ELSE replies[c]
      /\ \A d \in Conns \ {c} : replies'[d] = replies[d]
      /\ \A d \in Conns \ {c} : phase'[d] = phase[d] /\ work'[d] = work[d]
  BY StepAt DEF WriteDone, IInv, HistoryType
<1>2. /\ cur \in [Conns -> Nat \ {0}] /\ next[c] = cur[c] + 1
      /\ \A d \in Conns \ {c} : next[d] = cur[d]
  BY DEF Sessions
<1>3. ValueIds' = ValueIds /\ \A req, id : Stores(req, id)' <=> Stores(req, id)
  BY <1>1 DEF dbVars, ValueIds, Stores, NameOf
<1>4. /\ by \in [ValueIds' -> Conns \X (Nat \ {0})]
      /\ \A i, j \in ValueIds' : by[i] = by[j] => i = j
  BY <1>3 DEF Origin
<1>5. ASSUME NEW id \in ValueIds, NEW d \in Conns, NEW k \in Nat, by[id] = <<d, k>>
      PROVE  /\ k \in DOMAIN sent'[d]
             /\ Stores(sent[d][k], id)'
             /\ k <= next[d]
             /\ phase'[d] \in {"unborn", "mh", "h", "body"} => k < next[d]
  <2>1. /\ k \in DOMAIN sent[d] /\ Stores(sent[d][k], id) /\ k <= cur[d]
        /\ phase[d] \in {"unborn", "mh", "h", "body"} => k < cur[d]
    BY <1>5 DEF Origin
  <2>2. Stores(sent[d][k], id)'
    BY <1>1, <2>1 DEF Stores, NameOf, dbVars
  <2>3. CASE d = c
    BY <1>1, <1>2, <2>1, <2>2, <2>3
  <2>4. CASE d # c
    BY <1>1, <1>2, <2>1, <2>2, <2>4
  <2> QED BY <2>3, <2>4
<1>6. ASSUME NEW d \in Conns, NEW k \in DOMAIN replies'[d],
             sent'[d][k].msg_type = "REQUEST_SAVE_VALUE", NEW id \in replies'[d][k].rows
      PROVE  by[id] = <<d, k>>
  <2>1. CASE k \in DOMAIN replies[d] /\ replies'[d][k] = replies[d][k]
    BY <1>1, <1>6, <2>1 DEF Origin
  <2>2. CASE ~(k \in DOMAIN replies[d] /\ replies'[d][k] = replies[d][k])
    <3>1. d = c /\ conn[c] = "open"
      BY <1>1, <2>2
    <3>2. replies[c] \in Seq(ResponseType) /\ work[c] \in ResponseType
      BY <1>1 DEF IInv, HistoryType, SessionsType, WorkFits
    <3> DEFINE l == Len(replies[c])
    <3>3. /\ replies'[c] = Append(replies[c], work[c])
          /\ Len(replies'[c]) = l + 1 /\ l \in Nat
          /\ DOMAIN replies[c] = 1..l /\ DOMAIN replies'[c] = 1..(l + 1)
          /\ \A i \in 1..l : replies'[c][i] = replies[c][i]
          /\ replies'[c][l + 1] = work[c]
      BY <1>1, <3>1, <3>2, AppendRow
    <3>4. k = l + 1 /\ replies'[c][k] = work[c]
      BY <2>2, <3>1, <3>3
    <3>5. cur[c] = l + 1
      BY <3>1 DEF Sessions, SessionInv, Attended
    <3> QED BY <1>1, <1>6, <3>1, <3>4, <3>5 DEF Origin
  <2> QED BY <2>1, <2>2
<1>7. ASSUME NEW d \in Conns, phase'[d] = "write", conn'[d] = "open",
             sent'[d][next[d]].msg_type = "REQUEST_SAVE_VALUE", NEW id \in work'[d].rows
      PROVE  by[id] = <<d, next[d]>>
  <2>1. d # c
    BY <1>1, <1>7
  <2> QED BY <1>1, <1>2, <1>7, <2>1 DEF Origin
<1> QED BY <1>3, <1>4, <1>5, <1>6, <1>7 DEF Origin


LEMMA UntouchedCalm ==
  ASSUME NEW c \in Conns, NEW k, Untouched(c)
  PROVE  Calm(c, k)
BY DEF Untouched, Calm, Unanswered

LEMMA ExitCalm ==
  ASSUME NEW how, Exit(how), NEW c \in Conns, NEW k, SessionInv(c, k)
  PROVE  Calm(c, k)
BY DEF Exit, SessionInv, Calm, Unanswered

LEMMA EnvironmentCalm ==
  ASSUME IInv, NEW c \in Conns, Environment(c), NEW k, SessionInv(c, k)
  PROVE  Calm(c, k)
<1>1. CASE Connect(c)
  <2>1. phase[c] = "unborn" /\ phase'[c] = "unborn"
    BY <1>1 DEF Connect, SessionInv
  <2> QED BY <2>1 DEF Calm, Unanswered
<1>2. ASSUME NEW req \in Requests, SendRequest(c, req) PROVE Calm(c, k)
  BY <1>2 DEF SendRequest, Calm, Unanswered
<1>3. ASSUME NEW how \in {"fin", "rst"}, Disconnect(c, how) PROVE Calm(c, k)
  <2>1. conn'[c] # "open" /\ phase' = phase
    BY <1>3 DEF Disconnect, IInv, SessionsType
  <2> QED BY <2>1 DEF Calm, Unanswered
<1> QED BY <1>1, <1>2, <1>3 DEF Environment

LEMMA SessionCalm ==
  ASSUME IInv, NEW c \in Conns, Session(c), ~WriteDone(c), ~DieInCompress(c),
         read_save_value_request(c) => work'[c] = Failed,
         NEW k, SessionInv(c, k)
  PROVE  Calm(c, k)
<1>1. \A p, w : Step(c, p, w) => phase'[c] = p /\ work'[c] = w
  BY StepAt DEF IInv
<1>2. Failed.rows = {}
  BY DEF Failed, Response
<1>3. CASE Accept(c)
  <2>1. phase[c] = "unborn" /\ phase'[c] \in {"mh", "gone"}
    BY <1>1, <1>3 DEF Accept
  <2> QED BY <2>1 DEF Calm, Unanswered
<1>4. CASE ReadMetaHeader(c)
  <2>1. phase[c] = "mh" /\ phase'[c] = "h"
    BY <1>1, <1>4 DEF ReadMetaHeader
  <2> QED BY <2>1 DEF Calm, Unanswered
<1>5. CASE ReadHeader(c)
  <2>1. phase[c] = "h" /\ (phase'[c] = "body" \/ work'[c] = Failed)
    BY <1>1, <1>5 DEF ReadHeader, Respond
  <2>2. phase'[c] \in {"body", "write"}
    BY <1>1, <1>5 DEF ReadHeader, Respond
  <2> QED BY <1>2, <2>1, <2>2 DEF Calm, Unanswered
<1>6. CASE HeaderReadFailed(c) \/ WriteFailed(c)
  <2>1. phase'[c] = "write" /\ work'[c] = Failed
    BY <1>1, <1>6 DEF HeaderReadFailed, WriteFailed, Respond
  <2> QED BY <1>2, <2>1 DEF Calm, Unanswered
<1>7. CASE BodyReadFailed(c)
  <2>1. phase'[c] = "gone"
    BY <1>1, <1>7 DEF BodyReadFailed
  <2> QED BY <2>1 DEF Calm, Unanswered
<1>8. CASE Database(c)
  <2>1. phase[c] = "body" /\ sent[c][k] = work[c]
    BY <1>8 DEF Database, read_add_variable_request, read_save_value_request, BodyRead,
                read_get_values_request, read_get_variables_request, DieInCompress, SessionInv
  <2>2. \E w : Step(c, "write", w)
    BY <1>8, DatabaseHandles, HandlesStatement DEF IInv
  <2>3. phase'[c] = "write"
    BY <1>1, <2>2
  <2>4. CASE read_save_value_request(c)
    BY <1>2, <2>3, <2>4 DEF Calm, Unanswered
  <2>5. CASE ~read_save_value_request(c)
    <3>1. work[c].msg_type # "REQUEST_SAVE_VALUE" /\ sent' = sent
      BY <1>8, <2>5 DEF Database, read_add_variable_request, BodyRead, history,
                        read_get_values_request, read_get_variables_request
    <3> QED BY <2>1, <2>3, <3>1 DEF Calm, Unanswered
  <2> QED BY <2>4, <2>5
<1> QED BY <1>3, <1>4, <1>5, <1>6, <1>7, <1>8, NeverAstray DEF Session

(* No reading is stored but by SAVE_VALUE, and no answer is given but by   *)
(* a write.                                                                *)
LEMMA OnlySaveStores ==
  ASSUME Next, \A c \in Conns : ~WriteDone(c) /\ ~Astray(c),
         \A c \in Conns : read_save_value_request(c) => UNCHANGED dbVars
  PROVE  ValueIds' = ValueIds /\ replies' = replies
<1>1. CASE Process
  BY <1>1 DEF Process, Open, create_scheme, CreateStatement, CreateTable, Seed, Crash, Exit,
              add_variable, InsertVariable, dbVars, history, ValueIds
<1>2. ASSUME NEW c \in Conns, Environment(c) PROVE ValueIds' = ValueIds /\ replies' = replies
  BY <1>2 DEF Environment, Connect, SendRequest, Disconnect, dbVars, history, ValueIds
<1>3. ASSUME NEW c \in Conns, Session(c) PROVE ValueIds' = ValueIds /\ replies' = replies
  <2>1. CASE Database(c)
    <3>1. replies' = replies
      BY <2>1 DEF Database, read_add_variable_request, read_save_value_request, Exit, history,
                  read_get_values_request, read_get_variables_request, DieInCompress
    <3>2. variable_value' = variable_value
      BY <2>1 DEF Database, read_add_variable_request, AddVariable, dbVars, add_variable,
                  InsertVariable, read_get_values_request, FetchValues,
                  read_get_variables_request, FetchVariables, DieInCompress
    <3> QED BY <3>1, <3>2 DEF ValueIds
  <2>2. CASE ~Database(c)
    BY <1>3, <2>2 DEF Session, Accept, ReadMetaHeader, ReadHeader, HeaderReadFailed,
         BodyReadFailed, WriteFailed, dbVars, history, ValueIds
  <2> QED BY <2>1, <2>2
<1> QED BY <1>1, <1>2, <1>3 DEF Next

(* What was sent stays sent.                                               *)
LEMMA SentStays ==
  ASSUME HistoryType, Next, NEW c \in Conns, NEW k \in DOMAIN sent[c]
  PROVE  k \in DOMAIN sent'[c] /\ sent'[c][k] = sent[c][k]
<1>1. CASE UNCHANGED sent
  BY <1>1
<1>2. ASSUME NEW d \in Conns, NEW req \in Requests, SendRequest(d, req)
      PROVE  k \in DOMAIN sent'[c] /\ sent'[c][k] = sent[c][k]
  <2>1. CASE d = c
    <3>1. sent'[c] = Append(sent[c], req) /\ sent[c] \in Seq(Requests)
      BY <1>2, <2>1 DEF SendRequest, HistoryType
    <3>2. /\ sent'[c] \in Seq(Requests) /\ Len(sent'[c]) = Len(sent[c]) + 1
          /\ Len(sent[c]) \in Nat
          /\ \A i \in 1..Len(sent[c]) : sent'[c][i] = sent[c][i]
      BY <3>1, AppendRow
    <3>3. DOMAIN sent'[c] = 1..Len(sent'[c]) /\ DOMAIN sent[c] = 1..Len(sent[c])
      BY <3>1, <3>2
    <3> QED BY <3>2, <3>3
  <2>2. CASE d # c
    BY <1>2, <2>2 DEF SendRequest, HistoryType
  <2> QED BY <2>1, <2>2
<1>3. CASE Process
  BY <1>1, <1>3 DEF Process, Open, create_scheme, CreateStatement, Seed, Crash, Exit, history
<1>4. ASSUME NEW d \in Conns, Environment(d)
      PROVE  k \in DOMAIN sent'[c] /\ sent'[c][k] = sent[c][k]
  BY <1>1, <1>2, <1>4 DEF Environment, Connect, Disconnect, history
<1>5. ASSUME NEW d \in Conns, Session(d)
      PROVE  k \in DOMAIN sent'[c] /\ sent'[c][k] = sent[c][k]
  BY <1>1, <1>5, AstrayKeeps
     DEF Session, Database, Accept, ReadMetaHeader, ReadHeader, HeaderReadFailed,
         BodyReadFailed, WriteDone, WriteFailed, DieInCompress, Exit, history,
         read_add_variable_request, read_save_value_request,
         read_get_values_request, read_get_variables_request
<1> QED BY <1>3, <1>4, <1>5 DEF Next

LEMMA NextOrigin ==
  ASSUME IInv, Next, NEW cur, Sessions(cur), NEW by, Origin(cur, by),
         \A c \in Conns : ~WriteDone(c)
  PROVE  \E by2 : Origin(cur, by2)'
<1>1. Statement /\ HistoryType
  BY NextIsStatement DEF IInv
<1>2. CASE \E c \in Conns : read_save_value_request(c) /\ work'[c] # Failed
  <2>1. PICK c \in Conns : read_save_value_request(c) /\ work'[c] # Failed
    BY <1>2
  <2>2. PICK req \in {work[c]}, id \in Nat \ ValueIds :
          /\ work'[c] = OkTo(Absent, id)
          /\ ValueIds' = ValueIds \cup {id}
          /\ Stores(req, id)'
    BY <2>1, SaveValueStep
  <2> QED BY <1>1, <2>1, <2>2, SaveOrigin
<1>3. CASE ~\E c \in Conns : read_save_value_request(c) /\ work'[c] # Failed
  <2>1. \A c \in Conns : read_save_value_request(c) => work'[c] = Failed /\ UNCHANGED dbVars
    <3> SUFFICES ASSUME NEW c \in Conns, read_save_value_request(c)
                 PROVE  work'[c] = Failed /\ UNCHANGED dbVars
      OBVIOUS
    <3>1. work'[c] = Failed
      BY <1>3
    <3>2. \A id : Failed # OkTo(Absent, id)
      BY DEF Failed, OkTo, Response
    <3> QED BY <3>1, <3>2, SaveValueStep
  <2>0. \A c \in Conns : ~Astray(c)
    BY NeverAstray DEF Sessions
  <2>2. ValueIds' = ValueIds /\ replies' = replies
    BY <2>0, <2>1, OnlySaveStores
  <2>3. ASSUME NEW c \in Conns PROVE Calm(c, cur[c])
    <3>1. \A d \in Conns : SessionInv(d, cur[d])
      BY DEF Sessions
    <3>2. CASE Process
      <4>1. UNCHANGED <<sessionVars, history>> \/ Exit("down")
        BY <3>2 DEF Process, Open, create_scheme, CreateStatement, Seed, Crash
      <4>2. CASE UNCHANGED <<sessionVars, history>>
        <5>1. Untouched(c)
          BY <4>2 DEF Untouched, sessionVars, history
        <5> QED BY <5>1, UntouchedCalm
      <4> QED BY <3>1, <4>1, <4>2, ExitCalm
    <3>3. ASSUME NEW d \in Conns, Environment(d) PROVE Calm(c, cur[c])
      BY <3>1, <3>3, EnvironmentCalm, EnvironmentUntouched, UntouchedCalm DEF IInv
    <3>4. ASSUME NEW d \in Conns, Session(d) PROVE Calm(c, cur[c])
      <4>1. CASE DieInCompress(d)
        BY <3>1, <4>1, ExitCalm DEF DieInCompress
      <4>2. CASE ~DieInCompress(d)
        BY <2>0, <2>1, <3>1, <3>4, <4>2, SessionCalm, SessionUntouched, UntouchedCalm DEF IInv
      <4> QED BY <4>1, <4>2
    <3> QED BY <3>2, <3>3, <3>4 DEF Next
  <2>4. \A c \in Conns : \A k \in DOMAIN sent[c] :
          k \in DOMAIN sent'[c] /\ sent'[c][k] = sent[c][k]
    BY <1>1, SentStays
  <2>5. Origin(cur, by)'
    BY <1>1, <2>2, <2>3, <2>4, CalmOrigin
  <2> QED BY <2>5
<1> QED BY <1>2, <1>3
-----------------------------------------------------------------------------
(* The inductive invariant.                                                *)

LEMMA InitAnswers == Init => AnswersInv
<1> SUFFICES ASSUME Init PROVE AnswersInv
  OBVIOUS
<1>1. ValueIds = {}
  BY DEF Init, EmptyDatabase, ValueIds
<1>2. PICK cur : cur = [c \in Conns |-> 1]
  OBVIOUS
<1>3. PICK by : by = [id \in ValueIds |-> <<>>]
  OBVIOUS
<1>4. ASSUME NEW c \in Conns PROVE SessionInv(c, cur[c]) /\ RepliesInv(c)
  <2>1. /\ conn[c] = "none" /\ inbox[c] = <<>> /\ phase[c] = "unborn" /\ cur[c] = 1
        /\ sent[c] = <<>> /\ replies[c] = <<>> /\ floor[c] = <<>> /\ ~Spent(c)
    BY <1>2 DEF Init, Spent
  <2> DEFINE at == [i \in 1..0 |-> 0]
  <2>2. Stream(<<>>, sent[c], at)
    BY DEF Stream
  <2>3. StreamInv(c, cur[c])
    BY <2>1, <2>2 DEF StreamInv
  <2>4. Attended(c, cur[c])
    BY <2>1 DEF Attended
  <2>5. RepliesInv(c)
    BY <2>1, ServerAssumption DEF RepliesInv
  <2>6. StreamInv(c, IF Spent(c) THEN cur[c] + 1 ELSE cur[c])
    BY <2>1, <2>3
  <2> QED BY <2>1, <2>4, <2>5, <2>6 DEF SessionInv
<1>5. Sessions(cur)
  BY <1>2, <1>4 DEF Sessions
<1>6. Origin(cur, by)
  BY <1>1, <1>3 DEF Origin, Init
<1> QED BY <1>5, <1>6 DEF AnswersInv

LEMMA NextAnswers ==
  ASSUME Requests \subseteq Understood
  PROVE  IInv /\ AnswersInv /\ [Next]_vars => AnswersInv'
<1> SUFFICES ASSUME IInv, AnswersInv, [Next]_vars PROVE AnswersInv'
  OBVIOUS
<1>1. PICK cur : Sessions(cur) /\ \E by : Origin(cur, by)
  BY DEF AnswersInv
<1>2. PICK by : Origin(cur, by)
  BY <1>1
<1>3. CASE \E c \in Conns : WriteDone(c)
  <2>1. PICK c \in Conns : WriteDone(c)
    BY <1>3
  <2>2. PICK next : next = [cur EXCEPT ![c] = @ + 1]
    OBVIOUS
  <2>3. Statement
    BY <2>1 DEF WriteDone, Statement
  <2>4. Sessions(next)'
    BY <1>1, <2>1, <2>2, <2>3, WriteDoneSessions
  <2>5. Origin(next, by)'
    BY <1>1, <1>2, <2>1, <2>2, WriteDoneOrigin
  <2> QED BY <2>4, <2>5 DEF AnswersInv
<1>4. CASE \A c \in Conns : ~WriteDone(c)
  <2>1. Sessions(cur)'
    BY <1>1, <1>4, NextSessions
  <2>2. \E by2 : Origin(cur, by2)'
    <3>1. CASE UNCHANGED vars
      <4>1. /\ variable' = variable /\ variable_value' = variable_value
            /\ sent' = sent /\ replies' = replies
            /\ conn' = conn /\ phase' = phase /\ work' = work
        BY <3>1 DEF vars, dbVars, sessionVars, history
      <4>2. ValueIds' = ValueIds
        BY <4>1 DEF ValueIds
      <4>3. \A req, id : Stores(req, id)' <=> Stores(req, id)
        BY <4>1 DEF Stores, NameOf
      <4>4. Origin(cur, by)'
        BY <1>2, <4>1, <4>2, <4>3 DEF Origin
      <4> QED BY <4>4
    <3>2. CASE Next
      BY <1>1, <1>2, <1>4, <3>2, NextOrigin
    <3> QED BY <3>1, <3>2
  <2> QED BY <2>1, <2>2 DEF AnswersInv
<1> QED BY <1>3, <1>4

LEMMA AnswersInvariant ==
  ASSUME Requests \subseteq Understood
  PROVE  Spec => []AnswersInv
<1>1. IInv /\ AnswersInv /\ [Next]_vars => AnswersInv'
  BY NextAnswers
<1> QED BY InitAnswers, <1>1, Invariant, PTL DEF Spec
-----------------------------------------------------------------------------
(* A session reads a meta header, a header or a body where one was sent,   *)
(* and the body it reads is that of the header it has read, as long as     *)
(* clients send nothing but the four requests: after a message without a   *)
(* case in read_body its body stays in the stream.                         *)
THEOREM FramingKept ==
  ASSUME Requests \subseteq Understood
  PROVE  Spec => []FramingAligned
<1>1. IInv /\ AnswersInv => FramingAligned
  <2> SUFFICES ASSUME IInv, NEW cur, Sessions(cur), NEW c \in Conns, inbox[c] # <<>>
               PROVE  CASE phase[c] \in {"unborn", "mh", "write"} -> Has(c, "MetaHeader")
                        [] phase[c] = "h" -> Has(c, "Header")
                        [] phase[c] = "body" ->
                             IF work[c].msg_type = "REQUEST_GET_VARIABLES"
                             THEN Has(c, "MetaHeader")
                             ELSE Has(c, "Body") /\ AsRead(Head(inbox[c]).of) = work[c]
                        [] phase[c] \in {"lost", "astray"} -> FALSE
                        [] OTHER -> TRUE
    BY DEF AnswersInv, FramingAligned
  <2>1. phase[c] \notin {"lost", "astray"} /\ Expects(phase[c], work[c], inbox[c][1])
    BY DEF Sessions, SessionInv, StreamInv
  <2>2. Head(inbox[c]) = inbox[c][1] /\ inbox[c][1] \in Token
    BY HeadTailProperties DEF IInv, SessionsType
  <2>4. AsRead(inbox[c][1].of) = inbox[c][1].of
    BY <2>2, ReadAsSent DEF Token
  <2>3. phase[c] \in Phases
    BY DEF IInv, SessionsType
  <2> QED BY <2>1, <2>2, <2>3, <2>4 DEF Expects, Has, Phases
<1>2. Spec => []AnswersInv
  BY AnswersInvariant
<1> QED BY <1>1, <1>2, Invariant, PTL

(* The k-th response a client receives answers its k-th request, and every *)
(* Ok is backed by a row that says what was asked to be saved, however     *)
(* requests are pipelined and wherever connections break.                  *)
THEOREM OrderKept ==
  ASSUME Requests \subseteq Understood
  PROVE  Spec => []AnsweredInOrder
<1>1. AnswersInv => AnsweredInOrder
  BY DEF AnswersInv, Sessions, RepliesInv, Fitting, AnsweredInOrder
<1>2. Spec => []AnswersInv
  BY AnswersInvariant
<1> QED BY <1>1, <1>2, PTL

(* A GET_VALUES answered with readings has all of those asked for that     *)
(* were acknowledged before it was sent, if a vector can hold              *)
(* max_values_ammount readings: where it cannot, compress returns none.    *)
THEOREM AcknowledgedSeen ==
  ASSUME Requests \subseteq Understood, max_values_ammount <= VectorMax
  PROVE  Spec => []ReadsSeeAcknowledged
<1>1. AnswersInv => ReadsSeeAcknowledged
  BY DEF AnswersInv, Sessions, RepliesInv, Fitting, Sees, ReadsSeeAcknowledged
<1>2. Spec => []AnswersInv
  BY AnswersInvariant
<1> QED BY <1>1, <1>2, PTL
-----------------------------------------------------------------------------
(* Requests are finitely many, though the connections may not be.          *)
Senders == {c \in Conns : sent[c] # <<>>}
FiniteSenders == IsFiniteSet(Senders)

LEMMA SendersGrow ==
  ASSUME HistoryType, Next
  PROVE  Senders' = Senders \/ \E c \in Conns : Senders' = Senders \cup {c}
<1>1. ASSUME UNCHANGED sent PROVE Senders' = Senders
  BY <1>1 DEF Senders
<1>2. ASSUME NEW c \in Conns, NEW req \in Requests, SendRequest(c, req)
      PROVE  Senders' = Senders \cup {c}
  <2>1. /\ sent'[c] = Append(sent[c], req) /\ sent[c] \in Seq(Requests)
        /\ \A d \in Conns \ {c} : sent'[d] = sent[d]
    BY <1>2 DEF SendRequest, HistoryType
  <2>2. sent'[c] # <<>>
    BY <2>1
  <2> QED BY <2>1, <2>2 DEF Senders
<1>3. CASE Process
  BY <1>1, <1>3 DEF Process, Open, create_scheme, CreateStatement, Seed, Crash, Exit, history
<1>4. ASSUME NEW c \in Conns, Environment(c)
      PROVE  Senders' = Senders \/ Senders' = Senders \cup {c}
  <2>1. UNCHANGED sent \/ \E req \in Requests : SendRequest(c, req)
    BY <1>4 DEF Environment, Connect, Disconnect, history
  <2> QED BY <1>1, <1>2, <2>1
<1>5. ASSUME NEW c \in Conns, Session(c) PROVE UNCHANGED sent
  BY <1>5, AstrayKeeps
     DEF Session, Database, Accept, ReadMetaHeader, ReadHeader, HeaderReadFailed,
         BodyReadFailed, WriteDone, WriteFailed, DieInCompress, Exit, history,
         read_add_variable_request, read_save_value_request,
         read_get_values_request, read_get_variables_request
<1> QED BY <1>1, <1>3, <1>4, <1>5 DEF Next

LEMMA SendersFinite == Spec => []FiniteSenders
<1>1. Init => FiniteSenders
  <2> SUFFICES ASSUME Init PROVE FiniteSenders
    OBVIOUS
  <2>1. Senders = {}
    BY DEF Init, Senders
  <2> QED BY <2>1, FS_EmptySet DEF FiniteSenders
<1>2. IInv /\ FiniteSenders /\ [Next]_vars => FiniteSenders'
  <2> SUFFICES ASSUME IInv, FiniteSenders, [Next]_vars PROVE FiniteSenders'
    OBVIOUS
  <2>1. CASE Next
    BY <2>1, SendersGrow, FS_AddElement DEF IInv, FiniteSenders
  <2>2. CASE UNCHANGED vars
    <3>1. Senders' = Senders
      BY <2>2 DEF vars, history, Senders
    <3> QED BY <3>1 DEF FiniteSenders
  <2> QED BY <2>1, <2>2
<1> QED BY <1>1, <1>2, Invariant, PTL DEF Spec

(* Two acknowledged requests never share a row.                            *)
LEMMA RowsDiffer ==
  ASSUME NEW cur, NEW by, Origin(cur, by),
         NEW s \in Saves, NEW t \in Saves, s # t,
         s[2] \in DOMAIN replies[s[1]], t[2] \in DOMAIN replies[t[1]]
  PROVE  replies[s[1]][s[2]].rows \cap replies[t[1]][t[2]].rows = {}
<1>1. ASSUME NEW id, id \in replies[s[1]][s[2]].rows, id \in replies[t[1]][t[2]].rows
      PROVE  FALSE
  <2>1. s[1] \in Conns /\ t[1] \in Conns /\ s = <<s[1], s[2]>> /\ t = <<t[1], t[2]>>
    BY DEF Saves
  <2>2. by[id] = s /\ by[id] = t
    BY <1>1, <2>1 DEF Origin, Saves
  <2> QED BY <2>2
<1> QED BY <1>1

(* The readings of a name and a value go back to requests to save it.      *)
LEMMA SavesCover ==
  ASSUME IInv, FiniteSenders, NEW cur, Sessions(cur), NEW by, Origin(cur, by),
         NEW n \in Names, NEW v \in Vals \ {NotFinite}
  PROVE  Cardinality({id \in ValueIds : /\ NameOf(id) = n
                                        /\ variable_value[id].val = ToSixDecimals(v)})
         <= Cardinality({s \in Saves :
                           /\ sent[s[1]][s[2]].variable = n
                           /\ sent[s[1]][s[2]].value # NotFinite
                           /\ ToSixDecimals(sent[s[1]][s[2]].value)
                                = ToSixDecimals(v)})
<1> DEFINE A == {id \in ValueIds : /\ NameOf(id) = n
                                   /\ variable_value[id].val = ToSixDecimals(v)}
           B == {s \in Saves : /\ sent[s[1]][s[2]].variable = n
                               /\ sent[s[1]][s[2]].value # NotFinite
                               /\ ToSixDecimals(sent[s[1]][s[2]].value) = ToSixDecimals(v)}
           f == [id \in A |-> by[id]]
<1>1. ASSUME NEW id \in A PROVE by[id] \in B
  <2>1. PICK c \in Conns, k \in Nat \ {0} : by[id] = <<c, k>>
    BY DEF Origin
  <2>2. k \in DOMAIN sent[c] /\ Stores(sent[c][k], id)
    BY <2>1 DEF Origin
  <2>3. k \in 1..MaxRequests
    BY <2>2, ServerAssumption DEF Sessions, RepliesInv, IInv, HistoryType
  <2>4. <<c, k>> \in Saves
    BY <2>2, <2>3 DEF Saves, Stores
  <2> QED BY <2>1, <2>2, <2>4 DEF Stores
<1>2. f \in Injection(A, B)
  <2>1. f \in [A -> B]
    BY <1>1
  <2>2. \A i, j \in A : f[i] = f[j] => i = j
    BY DEF Origin
  <2> QED BY <2>1, <2>2 DEF Injection, IsInjective
<1>3. IsFiniteSet(B)
  <2>1. IsFiniteSet(1..MaxRequests)
    BY FS_Interval, ServerAssumption
  <2>2. IsFiniteSet(Senders \X (1..MaxRequests))
    BY <2>1, FS_Product DEF FiniteSenders
  <2>3. B \subseteq Senders \X (1..MaxRequests)
    BY DEF Saves, Senders
  <2> QED BY <2>2, <2>3, FS_Subset
<1> HIDE DEF A, B, f
<1>4. Cardinality(A) <= Cardinality(B)
  BY <1>2, <1>3, FS_Injection DEF ExistsInjection
<1> QED BY <1>4 DEF A, B

(* No reading is stored twice or made up, also when the connection broke   *)
(* between the INSERT and its answer.                                      *)
THEOREM SavedOnce ==
  ASSUME Requests \subseteq Understood
  PROVE  Spec => []SavedAtMostOnce
<1>1. IInv /\ FiniteSenders /\ AnswersInv => SavedAtMostOnce
  <2> SUFFICES ASSUME IInv, FiniteSenders, AnswersInv PROVE SavedAtMostOnce
    OBVIOUS
  <2>1. PICK cur, by : Sessions(cur) /\ Origin(cur, by)
    BY DEF AnswersInv
  <2> QED BY <2>1, RowsDiffer, SavesCover DEF SavedAtMostOnce
<1>2. Spec => []AnswersInv
  BY AnswersInvariant
<1> QED BY <1>1, <1>2, Invariant, SendersFinite, PTL
=============================================================================
