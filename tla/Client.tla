------------------------------- MODULE Client -------------------------------
(***************************************************************************)
(* The client's end of a connection: class Client above a QTcpSocket.      *)
(*                                                                         *)
(* The responses the server has written form a stream of bytes that        *)
(* arrives in segments of any size.  A position in the stream is the       *)
(* number of bytes before it: the socket has received the stream up to     *)
(* arrived, onReadyRead has read it up to taken, and what is between the   *)
(* two is the socket's buffer.  The socket emits readyRead when a segment  *)
(* arrives, never for bytes that were already in its buffer, and not while *)
(* onReadyRead runs, which includes its waiting for the rest of a body.    *)
(***************************************************************************)
EXTENDS Wire, FiniteSets, Functions

CONSTANTS Responses,      \* the responses a server may send
          MhSize,         \* bytes of a MetaHeader, the same for all
          HSize,          \* bytes of a response's Header, the same for all
          StatusSize,     \* bytes of the body of a status response
          EntrySize,      \* bytes of a reading or a variable in a body
          MaxResponses,   \* bound: responses on the connection
          MaxUnsent       \* bound: requests waiting in the write buffer

ASSUME ClientAssumption ==
  /\ MhSize \in Nat \ {0}
  /\ HSize \in Nat \ {0}
  /\ StatusSize \in Nat \ {0}
  /\ EntrySize \in Nat \ {0}
  /\ MaxResponses \in Nat
  /\ MaxUnsent \in Nat
  /\ \A res \in Responses :
       /\ res.msg_type \in {"RESPONSE_FAILURE", "RESPONSE_VALUES",
                            "RESPONSE_VARIABLES"}
       /\ res.size \in Nat

VARIABLES
  socket,      \* its state
  out,         \* requests in its write buffer
  responses,   \* the responses the server has written
  ends,        \* the positions at which they end
  arrived, taken,
  phase,       \* what onReadyRead is doing
  signals,     \* history: the responses signalled, 0 for one made up
  cut,         \* history: a segment has ended within a part that is read at
               \* once, or onReadyRead has given a body up
  joined       \* history: a segment has brought the ends of two responses

streamVars == <<responses, ends>>
readVars == <<arrived, taken, phase, signals, cut, joined>>
vars == <<socket, out, streamVars, readVars>>

(* Only a status response has a body whatever it holds: a response with no *)
(* entry is a Header and nothing else.                                     *)
BodySize(res) == IF res.msg_type = "RESPONSE_FAILURE" THEN StatusSize
                                                      ELSE EntrySize * res.size

FrameSize(res) == MhSize + HSize + BodySize(res)

(* How much of a frame has to be in the buffer when onReadyRead starts on  *)
(* it: every part but the body of values or variables is read only once.   *)
Upfront(res) == IF res.msg_type = "RESPONSE_FAILURE" THEN FrameSize(res)
                                                     ELSE MhSize + HSize

Silent(res) == BodySize(res) = 0

Written == IF ends = <<>> THEN 0 ELSE ends[Len(ends)]

(* The k-th response begins where the one before it ends.                  *)
Start(k) == IF k = 1 THEN 0 ELSE ends[k - 1]

(* The response that the byte after position p belongs to.                 *)
At(p) == Cardinality({k \in DOMAIN ends : ends[k] <= p}) + 1

Boundaries == {0} \cup {ends[k] : k \in DOMAIN ends}

(* The next byte onReadyRead takes is the first one of a response.         *)
InStep == taken \in Boundaries

(* The responses onReadyRead has left behind it, and those that are whole  *)
(* in the buffer.                                                          *)
Handled == At(taken) - 1
Waiting == {k \in DOMAIN ends : taken < ends[k] /\ ends[k] <= arrived}

Init ==
  /\ socket = "unconnected"
  /\ out = <<>>
  /\ responses = <<>>
  /\ ends = <<>>
  /\ arrived = 0
  /\ taken = 0
  /\ phase = "idle"
  /\ signals = <<>>
  /\ cut = FALSE
  /\ joined = FALSE
-----------------------------------------------------------------------------
(* The socket.                                                             *)

connect ==
  /\ socket = "unconnected"
  /\ socket' = "connecting"
  /\ UNCHANGED <<out, streamVars, readVars>>

Connected ==
  /\ socket = "connecting"
  /\ socket' = "connected"
  /\ UNCHANGED <<out, streamVars, readVars>>

(* The connection is refused or has ended, for good: nothing connects a    *)
(* second time.  What was not read from the network is lost.               *)
Closed ==
  /\ socket \in {"connecting", "connected"}
  /\ socket' = "closed"
  /\ out' = <<>>
  /\ UNCHANGED <<streamVars, readVars>>

(* socket_.write: what is written while the socket connects is sent later, *)
(* what is written to a socket that is not connected is lost.              *)
write(req) ==
  out' = IF socket \in {"connecting", "connected"} THEN Append(out, req)
                                                   ELSE out

send_var(n, color) == write(AddVar(n, color))
send_var_val(n, v) == write(SaveValue(n, v))
request_vars == write(GetVariables)
request_var_values(n) == write(GetValues(n, Absent, Absent))
request_var_values_between(n, start, end) == write(GetValues(n, start, end))

(* The write buffer reaches the server request by request.                 *)
Flush ==
  /\ socket = "connected"
  /\ out # <<>>
  /\ out' = Tail(out)
  /\ UNCHANGED <<socket, streamVars, readVars>>

(* The stream grows by a response.                                         *)
Extend(res) == ends' = Append(ends, Written + FrameSize(res))
-----------------------------------------------------------------------------
(* onReadyRead.                                                            *)

(* Position p is within the part of a frame that is read at once.          *)
Tears(p) ==
  /\ p \notin Boundaries
  /\ p < Start(At(p)) + Upfront(responses[At(p)])

(* A segment of n bytes arrives.                                           *)
Segment(n) ==
  /\ socket = "connected"
  /\ n \in 1..(Written - arrived)
  /\ arrived' = arrived + n
  /\ cut' = (cut \/ Tears(arrived'))
  /\ joined' = (joined \/ At(arrived') > At(arrived) + 1)
  /\ UNCHANGED <<socket, streamVars>>

(* The handler returns, or blocks, having read up to position p; signalled *)
(* are the signals it has emitted on the way.                              *)
Leave(p, nextPhase, signalled) ==
  /\ taken' = p
  /\ phase' = nextPhase
  /\ signals' = signals \o signalled

(* Mutant: returning early leaves the handler disconnected.                *)
WholeFrame_Deaf(k) ==
  /\ arrived' >= ends[k]
  /\ IF Silent(responses[k]) THEN Leave(ends[k], "deaf", <<>>)
                             ELSE Leave(ends[k], "idle", <<k>>)

(* The whole response is there.  One without entries emits nothing.        *)
WholeFrame(k) ==
  /\ arrived' >= ends[k]
  /\ Leave(ends[k], "idle", IF Silent(responses[k]) THEN <<>> ELSE <<k>>)

(* Mutant: a body that is not whole is read as far as it goes.             *)
PartOfBody_Once(k) ==
  /\ arrived' < ends[k]
  /\ arrived' >= Start(k) + Upfront(responses[k])
  /\ Leave(arrived', "idle", <<k>>)

(* The loop of a values or variables body has read all there is and waits. *)
PartOfBody(k) ==
  /\ arrived' < ends[k]
  /\ arrived' >= Start(k) + Upfront(responses[k])
  /\ Leave(arrived', "body", <<>>)

(* A read that must deliver a whole part came short: what it did deliver   *)
(* is gone.                                                                *)
ShortRead(k) ==
  /\ arrived' < Start(k) + Upfront(responses[k])
  /\ Leave(arrived', "idle", <<>>)

(* Where no response begins, what is read as sizes and type is arbitrary:  *)
(* it is dropped, or a signal is made up of it, or a body of any size is   *)
(* awaited, or memory for it cannot be had.                                *)
Misread ==
  LET avail == arrived' - taken
      least == taken + (IF avail < MhSize THEN avail ELSE MhSize)
  IN  \/ \E p \in least..arrived' : Leave(p, "idle", <<>>)
      \/ \E p \in (least + 1)..arrived' : Leave(p, "idle", <<0>>)
      \/ avail > MhSize /\ Leave(arrived', "astray", <<>>)
      \/ avail >= MhSize /\ Leave(least, "terminated", <<>>)

(* Mutant: the handler goes on for as long as a whole response is there.   *)
onReadyRead_Drains(n) ==
  /\ phase = "idle"
  /\ Segment(n)
  /\ LET k == At(taken)
     IN  IF InStep
         THEN \/ /\ arrived' >= ends[k]
                 /\ LET last == CHOOSE j \in k..Len(ends) :
                                  /\ ends[j] <= arrived'
                                  /\ j = Len(ends) \/ ends[j + 1] > arrived'
                    IN  Leave(ends[last], "idle",
                              SelectSeq([i \in 1..(last - k + 1) |-> k + i - 1],
                                        LAMBDA i : ~Silent(responses[i])))
              \/ PartOfBody(k)
              \/ ShortRead(k)
         ELSE Misread

(* At most one response is read per readyRead.                             *)
onReadyRead(n) ==
  /\ phase = "idle"
  /\ Segment(n)
  /\ LET k == At(taken)
     IN  \/ InStep /\ (WholeFrame(k) \/ PartOfBody(k) \/ ShortRead(k))
         \/ ~InStep /\ Misread

(* Mutant: what came while it waited is taken for the rest of the body.    *)
ReadBody_Once(n) ==
  /\ phase = "body"
  /\ Segment(n)
  /\ Leave(ends[At(taken)], "idle", <<At(taken)>>)

(* waitForReadyRead returns true in the loop of a body: it reads on.       *)
ReadBody(n) ==
  /\ phase = "body"
  /\ Segment(n)
  /\ LET k == At(taken)
     IN  IF arrived' < ends[k] THEN Leave(arrived', "body", <<>>)
                               ELSE Leave(ends[k], "idle", <<k>>)

(* The same in the loop of a body that is none.                            *)
ReadAstray(n) ==
  /\ phase = "astray"
  /\ Segment(n)
  /\ \/ Leave(arrived', "astray", <<>>)
     \/ \E p \in (taken + 1)..arrived' : Leave(p, "idle", <<0>>)

(* Mutant: waitForReadyRead has no time out.                               *)
GiveUp_Never ==
  /\ phase \in {"body", "astray"}
  /\ socket = "closed"
  /\ phase' = "idle"
  /\ cut' = TRUE
  /\ UNCHANGED <<socket, streamVars, arrived, taken, signals, joined>>

(* waitForReadyRead returns false: nothing came for three seconds, or the  *)
(* connection has ended.                                                   *)
GiveUp ==
  /\ phase \in {"body", "astray"}
  /\ phase' = "idle"
  /\ cut' = TRUE
  /\ UNCHANGED <<socket, streamVars, arrived, taken, signals, joined>>

Read == \/ \E n \in 1..(Written - arrived) :
             onReadyRead(n) \/ ReadBody(n) \/ ReadAstray(n)
        \/ GiveUp
-----------------------------------------------------------------------------
(* The server and the client's user, who is not served while onReadyRead   *)
(* blocks the thread.                                                      *)

Respond(res) ==
  /\ socket = "connected"
  /\ Len(responses) < MaxResponses
  /\ responses' = Append(responses, res)
  /\ Extend(res)
  /\ UNCHANGED <<socket, out, readVars>>

Request(req) ==
  /\ phase = "idle"
  /\ Len(out) < MaxUnsent
  /\ write(req)
  /\ UNCHANGED <<socket, streamVars, readVars>>

Next ==
  \/ connect
  \/ Connected
  \/ Closed
  \/ Flush
  \/ Read /\ UNCHANGED out
  \/ \E res \in Responses : Respond(res)
  \/ \E req \in Requests : Request(req)

Spec == Init /\ [][Next]_vars

(* TCP delivers what was written for as long as the connection lives, and  *)
(* waitForReadyRead returns.                                               *)
FairSpec == Spec /\ WF_vars(Read /\ UNCHANGED out)
-----------------------------------------------------------------------------
(* Types of the state, and how the positions lie.                          *)
TypeOK ==
  /\ socket \in {"unconnected", "connecting", "connected", "closed"}
  /\ out \in Seq(Requests)
  /\ responses \in Seq(Responses)
  /\ ends \in Seq(Nat)
  /\ Len(ends) = Len(responses)
  /\ arrived \in 0..Written
  /\ taken \in 0..arrived
  /\ phase \in {"idle", "body", "astray", "terminated"}
  /\ signals \in Seq(Nat)
  /\ cut \in BOOLEAN
  /\ joined \in BOOLEAN

(* As long as no segment has ended within a meta header, a header or a     *)
(* status body, and no body has paused for three seconds, the signals are  *)
(* the responses that have entries or a status, each once and in order,    *)
(* however bodies are split and responses share segments; and the process  *)
(* lives.                                                                  *)
SignalsFollowResponses ==
  ~cut =>
    /\ \A j, k \in DOMAIN signals : j < k => signals[j] < signals[k]
    /\ Range(signals) = {k \in 1..Handled : ~Silent(responses[k])}
    /\ phase = "idle" => InStep
    /\ phase \in {"idle", "body"}

(* Who is behind stays behind: a client in whose buffer whole responses    *)
(* wait has at least as many waiting after a segment of whole responses,   *)
(* so from then on it learns of each answer only when a later one arrives. *)
LagNeverShrinks ==
  [][/\ ~cut'
     /\ phase = "idle"
     /\ arrived # arrived'
     /\ arrived \in Boundaries
     /\ arrived' \in Boundaries
     => Cardinality(Waiting') >= Cardinality(Waiting)]_vars

(* onReadyRead does not block the user interface for ever, also when it    *)
(* waits for a body that is none.                                          *)
WaitEnds == phase \in {"body", "astray"} ~> phase = "idle"

(* A response is handled unless the connection ends, a segment has ended   *)
(* within a part that is read at once, or a segment has brought the ends   *)
(* of two responses: nothing else loses or delays one.                     *)
EachHandled ==
  []<>(Handled = Len(responses) \/ cut \/ joined \/ socket # "connected")
=============================================================================
