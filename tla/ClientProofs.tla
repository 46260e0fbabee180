---------------------------- MODULE ClientProofs ----------------------------
(***************************************************************************)
(* Theorems about the client's end of a connection, for responses of any   *)
(* number and size and segments that cut them anywhere.                    *)
(*                                                                         *)
(* The inductive invariant IInv joins the types with how the ends of the   *)
(* responses lie and with where in a body onReadyRead may be waiting.      *)
(***************************************************************************)
EXTENDS Client, FiniteSetTheorems, SequenceTheorems, TLAPS

(* Responses are not empty and lie one behind the other.                   *)
EndsInv ==
  /\ \A j, k \in DOMAIN ends : j < k => ends[j] < ends[k]
  /\ \A k \in DOMAIN ends :
       /\ Start(k) \in Nat
       /\ ends[k] = Start(k) + FrameSize(responses[k])

(* onReadyRead waits for a body between its header and its end, having     *)
(* read all there is.                                                      *)
BodyInv ==
  phase = "body" =>
    \E k \in DOMAIN ends : /\ Start(k) + Upfront(responses[k]) <= taken
                           /\ taken < ends[k]

IInv == TypeOK /\ EndsInv /\ BodyInv /\ SignalsFollowResponses

-----------------------------------------------------------------------------
(* Sizes.                                                                  *)

LEMMA Sizes ==
  ASSUME NEW res \in Responses
  PROVE  /\ BodySize(res) \in Nat
         /\ FrameSize(res) \in Nat \ {0}
         /\ Upfront(res) \in Nat \ {0}
         /\ Upfront(res) <= FrameSize(res)
<1>1. res.size \in Nat /\ StatusSize \in Nat /\ EntrySize \in Nat
  BY ClientAssumption
<1>2. EntrySize * res.size \in Nat
  BY <1>1, SMT
<1>3. BodySize(res) \in Nat
  BY <1>1, <1>2 DEF BodySize
<1>4. MhSize \in Nat \ {0} /\ HSize \in Nat \ {0}
  BY ClientAssumption
<1>5. FrameSize(res) = MhSize + HSize + BodySize(res)
  BY DEF FrameSize
<1>6. Upfront(res) = FrameSize(res) \/ Upfront(res) = MhSize + HSize
  BY DEF Upfront
<1> QED BY <1>3, <1>4, <1>5, <1>6

LEMMA CountTo ==
  ASSUME NEW n \in Nat
  PROVE  IsFiniteSet(1..n) /\ Cardinality(1..n) = n
<1>1. IsFiniteSet(1..n) /\ Cardinality(1..n) = IF 1 > n THEN 0 ELSE n - 1 + 1
  BY FS_Interval
<1> QED BY <1>1

LEMMA ResponseAt ==
  ASSUME TypeOK, NEW k \in DOMAIN ends
  PROVE  responses[k] \in Responses /\ k \in 1..Len(ends) /\ ends[k] \in Nat
BY DEF TypeOK

(* What IInv says of the k-th response, in one place.                      *)
LEMMA Frames ==
  ASSUME TypeOK, EndsInv, NEW k \in DOMAIN ends
  PROVE  /\ Start(k) \in Nat /\ ends[k] \in Nat
         /\ Start(k) < Start(k) + Upfront(responses[k])
         /\ Start(k) + Upfront(responses[k]) \in Nat
         /\ Start(k) + Upfront(responses[k]) <= ends[k]
         /\ Start(k) < ends[k]
<1>1. responses[k] \in Responses /\ ends[k] \in Nat
  BY ResponseAt
<1>2. Start(k) \in Nat /\ ends[k] = Start(k) + FrameSize(responses[k])
  BY DEF EndsInv
<1>3. /\ FrameSize(responses[k]) \in Nat \ {0}
      /\ Upfront(responses[k]) \in Nat \ {0}
      /\ Upfront(responses[k]) <= FrameSize(responses[k])
  BY <1>1, Sizes
<1> QED BY <1>1, <1>2, <1>3

LEMMA WrittenIsLast ==
  ASSUME TypeOK, EndsInv
  PROVE  /\ Written \in Nat
         /\ \A k \in DOMAIN ends : ends[k] <= Written
         /\ Written > 0 => Written \in Boundaries
<1>1. ends \in Seq(Nat)
  BY DEF TypeOK
<1>2. CASE ends = <<>>
  BY <1>2 DEF Written
<1>3. CASE ends # <<>>
  <2>1. Len(ends) \in DOMAIN ends /\ ends[Len(ends)] \in Nat
    BY <1>1, <1>3
  <2>2. \A k \in DOMAIN ends : k = Len(ends) \/ k < Len(ends)
    BY <1>1
  <2>3. \A k \in DOMAIN ends : ends[k] <= ends[Len(ends)]
    BY <1>1, <2>1, <2>2 DEF EndsInv
  <2> QED BY <1>3, <2>1, <2>3 DEF Written, Boundaries
<1> QED BY <1>2, <1>3

-----------------------------------------------------------------------------
(* The response a position lies in.                                        *)

LEMMA AtType ==
  ASSUME TypeOK, NEW p \in Nat
  PROVE  At(p) \in 1..(Len(ends) + 1)
<1> DEFINE S == {k \in DOMAIN ends : ends[k] <= p}
<1>1. Len(ends) \in Nat /\ DOMAIN ends = 1..Len(ends)
  BY DEF TypeOK
<1>2. IsFiniteSet(1..Len(ends)) /\ Cardinality(1..Len(ends)) = Len(ends)
  BY <1>1, CountTo
<1>3. S \in SUBSET (1..Len(ends))
  BY <1>1
<1> HIDE DEF S
<1>4. IsFiniteSet(S) /\ Cardinality(S) <= Len(ends)
  BY <1>2, <1>3, FS_Subset
<1>5. Cardinality(S) \in Nat
  BY <1>4, FS_CardinalityType
<1>6. At(p) = Cardinality(S) + 1
  BY DEF At, S
<1> QED BY <1>1, <1>4, <1>5, <1>6

(* It is the k-th if it begins no later and ends after the position.       *)
LEMMA AtIs ==
  ASSUME TypeOK, EndsInv, NEW p \in Nat, NEW k \in DOMAIN ends,
         Start(k) <= p, p < ends[k]
  PROVE  At(p) = k
<1> DEFINE S == {j \in DOMAIN ends : ends[j] <= p}
<1>1. Len(ends) \in Nat /\ DOMAIN ends = 1..Len(ends) /\ \A j \in DOMAIN ends : ends[j] \in Nat
  BY DEF TypeOK
<1>2. \A j \in DOMAIN ends : j < k => ends[j] <= p
  <2> TAKE j \in DOMAIN ends
  <2> HAVE j < k
  <2>1. k # 1 /\ k - 1 \in DOMAIN ends /\ (j = k - 1 \/ j < k - 1)
    BY <1>1
  <2>2. ends[j] <= ends[k - 1]
    BY <1>1, <2>1 DEF EndsInv
  <2>3. ends[k - 1] <= p
    BY <2>1 DEF Start
  <2> QED BY <1>1, <2>1, <2>2, <2>3
<1>3. \A j \in DOMAIN ends : j >= k => p < ends[j]
  <2> TAKE j \in DOMAIN ends
  <2> HAVE j >= k
  <2>1. j = k \/ k < j
    BY <1>1
  <2> QED BY <1>1, <2>1 DEF EndsInv
<1>4. S = 1..(k - 1)
  BY <1>1, <1>2, <1>3
<1>5. Cardinality(1..(k - 1)) = k - 1
  BY <1>1, CountTo
<1> HIDE DEF S
<1>6. At(p) = Cardinality(S) + 1
  BY DEF At, S
<1> QED BY <1>1, <1>4, <1>5, <1>6

(* Behind the k-th response lies the next.                                 *)
LEMMA AtEnd ==
  ASSUME TypeOK, EndsInv, NEW k \in DOMAIN ends
  PROVE  At(ends[k]) = k + 1
<1> DEFINE S == {j \in DOMAIN ends : ends[j] <= ends[k]}
<1>1. Len(ends) \in Nat /\ DOMAIN ends = 1..Len(ends) /\ \A j \in DOMAIN ends : ends[j] \in Nat
  BY DEF TypeOK
<1>2. \A j \in DOMAIN ends : j = k \/ j < k \/ k < j
  BY <1>1
<1>3. S = 1..k
  BY <1>1, <1>2 DEF EndsInv
<1>4. Cardinality(1..k) = k
  BY <1>1, CountTo
<1> HIDE DEF S
<1>5. At(ends[k]) = Cardinality(S) + 1
  BY DEF At, S
<1> QED BY <1>1, <1>3, <1>4, <1>5

LEMMA AtZero ==
  ASSUME TypeOK, EndsInv
  PROVE  At(0) = 1
<1> DEFINE S == {j \in DOMAIN ends : ends[j] <= 0}
<1>1. \A j \in DOMAIN ends : ends[j] \in Nat /\ 0 < ends[j]
  BY Frames
<1>2. S = {}
  BY <1>1
<1> HIDE DEF S
<1>3. At(0) = Cardinality(S) + 1
  BY DEF At, S
<1> QED BY <1>2, <1>3, FS_EmptySet

(* In step, and with more to come, the next response begins right here.    *)
LEMMA NextResponse ==
  ASSUME TypeOK, EndsInv, NEW p \in Boundaries, p < Written
  PROVE  /\ p \in Nat
         /\ At(p) \in DOMAIN ends
         /\ Start(At(p)) = p
<1>1. Len(ends) \in Nat /\ DOMAIN ends = 1..Len(ends) /\ \A j \in DOMAIN ends : ends[j] \in Nat
  BY DEF TypeOK
<1>2. CASE p = 0
  <2>1. ends # <<>>
    BY <1>2 DEF Written
  <2> QED BY <1>1, <1>2, <2>1, AtZero DEF Start
<1>3. CASE p # 0
  <2>1. PICK k \in DOMAIN ends : p = ends[k]
    BY <1>3 DEF Boundaries
  <2>2. k # Len(ends) /\ ends # <<>>
    BY <1>1, <2>1 DEF Written
  <2>3. At(p) = k + 1 /\ k + 1 \in DOMAIN ends
    BY <1>1, <2>1, <2>2, AtEnd
  <2> QED BY <1>1, <2>1, <2>3 DEF Start
<1> QED BY <1>2, <1>3
-----------------------------------------------------------------------------
(* Reading leaves the stream alone.                                        *)

LEMMA StreamKept ==
  ASSUME UNCHANGED streamVars
  PROVE  /\ ends' = ends /\ responses' = responses
         /\ Written' = Written
         /\ Boundaries' = Boundaries
         /\ Handled' = At(taken') - 1
         /\ InStep' <=> taken' \in Boundaries
         /\ EndsInv => EndsInv'
<1>1. ends' = ends /\ responses' = responses
  BY DEF streamVars
<1>2. Handled' = At(taken') - 1
  BY <1>1 DEF Handled, At
<1>3. Written' = Written /\ Boundaries' = Boundaries
  BY <1>1 DEF Written, Boundaries
<1>4. EndsInv => EndsInv'
  BY <1>1 DEF EndsInv, Start
<1> QED BY <1>1, <1>2, <1>3, <1>4 DEF InStep

LEMMA SegmentFacts ==
  ASSUME TypeOK, EndsInv, NEW n \in 1..(Written - arrived), Segment(n)
  PROVE  /\ UNCHANGED streamVars
         /\ socket' = socket
         /\ taken \in Nat /\ arrived \in Nat /\ arrived' \in Nat
         /\ taken <= arrived /\ arrived < arrived' /\ arrived' <= Written
         /\ cut' \in BOOLEAN /\ joined' \in BOOLEAN
         /\ cut => cut'
         /\ Tears(arrived') => cut'
<1>1. Written \in Nat
  BY WrittenIsLast
<1>2. /\ UNCHANGED streamVars
      /\ socket' = socket
      /\ arrived' = arrived + n
      /\ cut' = (cut \/ Tears(arrived'))
      /\ joined' = (joined \/ At(arrived') > At(arrived) + 1)
  BY DEF Segment, streamVars
<1>3. taken \in Nat /\ arrived \in Nat /\ taken <= arrived
  BY <1>1 DEF TypeOK
<1>4. cut' \in BOOLEAN
  BY <1>2 DEF TypeOK, Tears
<1>5. joined' \in BOOLEAN
  BY <1>2 DEF TypeOK
<1>6. (cut => cut') /\ (Tears(arrived') => cut')
  BY <1>2, Zenon
<1>7. arrived' \in Nat /\ arrived < arrived' /\ arrived' <= Written
  BY <1>1, <1>2, <1>3
<1> QED BY <1>2, <1>3, <1>4, <1>5, <1>6, <1>7, Zenon

(* However the handler leaves, it keeps the invariant if the signals still *)
(* fit and if it blocks, as in a body, only within one.                    *)
LEMMA LeaveInv ==
  ASSUME IInv, UNCHANGED <<socket, streamVars>>, out' \in Seq(Requests),
         arrived' \in 0..Written, cut' \in BOOLEAN, joined' \in BOOLEAN,
         NEW p \in 0..arrived', NEW next \in {"idle", "body", "astray", "terminated"},
         NEW s \in Seq(Nat), Leave(p, next, s),
         next = "body" =>
           \E k \in DOMAIN ends : /\ Start(k) + Upfront(responses[k]) <= p
                                  /\ p < ends[k],
         SignalsFollowResponses'
  PROVE  IInv'
<1>1. UNCHANGED streamVars
  OBVIOUS
<1>2. /\ ends' = ends /\ responses' = responses /\ Written' = Written
      /\ EndsInv'
  BY <1>1, StreamKept DEF IInv
<1>3. taken' = p /\ phase' = next /\ signals' = signals \o s
  BY DEF Leave
<1>4. signals' \in Seq(Nat)
  BY <1>3, ConcatProperties DEF IInv, TypeOK
<1>5. TypeOK'
  BY <1>2, <1>3, <1>4 DEF IInv, TypeOK
<1>6. BodyInv'
  BY <1>2, <1>3 DEF BodyInv, Start, Upfront, FrameSize, BodySize
<1> QED BY <1>2, <1>5, <1>6 DEF IInv
-----------------------------------------------------------------------------
(* Signals.                                                                *)

(* A response with a body to wait for is signalled.                        *)
LEMMA BodyIsHeard ==
  ASSUME TypeOK, EndsInv, NEW k \in DOMAIN ends,
         Start(k) + Upfront(responses[k]) < ends[k]
  PROVE  ~Silent(responses[k])
<1>1. responses[k] \in Responses
  BY ResponseAt
<1>2. ends[k] = Start(k) + FrameSize(responses[k]) /\ Start(k) \in Nat
  BY DEF EndsInv
<1>3. FrameSize(responses[k]) \in Nat /\ Upfront(responses[k]) \in Nat
  BY <1>1, Sizes
<1>4. Upfront(responses[k]) # FrameSize(responses[k])
  BY <1>2, <1>3
<1>5. Upfront(responses[k]) = MhSize + HSize
  BY <1>4 DEF Upfront
<1>6. BodySize(responses[k]) # 0
  BY <1>4, <1>5, ClientAssumption DEF FrameSize
<1> QED BY <1>6 DEF Silent

(* Nothing is signalled, and no response is left behind.                   *)
LEMMA SilentStep ==
  ASSUME SignalsFollowResponses, ~cut, UNCHANGED streamVars,
         signals' = signals, At(taken') = At(taken),
         phase' = "idle" => taken' \in Boundaries, phase' \in {"idle", "body"}
  PROVE  SignalsFollowResponses'
<1>1. Handled' = Handled /\ responses' = responses /\ (phase' = "idle" => InStep')
  BY StreamKept DEF Handled
<1> QED BY <1>1 DEF SignalsFollowResponses, Silent, BodySize

(* One more signal, greater than those before it.                          *)
LEMMA OneMore ==
  ASSUME NEW s \in Seq(Nat), NEW e \in Nat,
         \A i, j \in DOMAIN s : i < j => s[i] < s[j],
         \A j \in DOMAIN s : s[j] < e
  PROVE  /\ \A i, j \in DOMAIN (s \o <<e>>) : i < j => (s \o <<e>>)[i] < (s \o <<e>>)[j]
         /\ Range(s \o <<e>>) = Range(s) \cup {e}
<1> DEFINE t == s \o <<e>>
           l == Len(s)
<1>1. l \in Nat /\ DOMAIN s = 1..l
  OBVIOUS
<1>2. /\ t \in Seq(Nat) /\ DOMAIN t = 1..(l + 1)
      /\ \A j \in 1..l : t[j] = s[j]
      /\ t[l + 1] = e
  BY ConcatProperties
<1> HIDE DEF t, l
<1>3. \A j \in DOMAIN t : j \in 1..l \/ j = l + 1
  BY <1>1, <1>2
<1>4. \A i, j \in DOMAIN t : i < j => t[i] < t[j]
  <2> SUFFICES ASSUME NEW i \in DOMAIN t, NEW j \in DOMAIN t, i < j
               PROVE  t[i] < t[j]
    OBVIOUS
  <2>1. i \in 1..l
    BY <1>1, <1>2
  <2> QED BY <1>1, <1>2, <1>3, <2>1
<1>5. Range(t) = Range(s) \cup {e}
  <2>1. DOMAIN t = (1..l) \cup {l + 1}
    BY <1>1, <1>2
  <2>2. Range(t) \subseteq Range(s) \cup {e}
    BY <1>1, <1>2, <2>1 DEF Range
  <2>3. Range(s) \cup {e} \subseteq Range(t)
    BY <1>1, <1>2, <2>1 DEF Range
  <2> QED BY <2>2, <2>3
<1> QED BY <1>4, <1>5 DEF t

(* The k-th response is left behind, and signalled unless it is silent.    *)
LEMMA SignalStep ==
  ASSUME TypeOK, EndsInv, SignalsFollowResponses, ~cut, UNCHANGED streamVars,
         NEW k \in DOMAIN ends, At(taken) = k, taken' = ends[k], phase' = "idle",
         signals' = signals \o (IF Silent(responses[k]) THEN <<>> ELSE <<k>>)
  PROVE  SignalsFollowResponses'
<1>1. /\ Handled = k - 1 /\ Handled' = k
      /\ responses' = responses /\ InStep'
  <2>1. At(taken') = k + 1 /\ k \in Nat
    BY AtEnd DEF TypeOK
  <2>2. taken' \in Boundaries
    BY DEF Boundaries
  <2> QED BY <2>1, <2>2, StreamKept DEF Handled
<1>2. signals \in Seq(Nat) /\ k \in Nat \ {0}
  BY DEF TypeOK
<1>3. /\ \A i, j \in DOMAIN signals : i < j => signals[i] < signals[j]
      /\ Range(signals)
           = {j \in 1..(k - 1) : ~Silent(responses[j])}
  BY <1>1 DEF SignalsFollowResponses
<1>4. \A j \in DOMAIN signals : signals[j] \in 1..(k - 1)
  BY <1>3 DEF Range
<1>5. {j \in 1..k : ~Silent(responses[j])}
        = {j \in 1..(k - 1) : ~Silent(responses[j])}
          \cup (IF Silent(responses[k]) THEN {} ELSE {k})
  <2>1. 1..k = (1..(k - 1)) \cup {k}
    BY <1>2
  <2> QED BY <2>1
<1>6. CASE Silent(responses[k])
  <2>1. signals' = signals
    BY <1>2, <1>6, ConcatEmptySeq
  <2>2. {j \in 1..k : ~Silent(responses[j])} = Range(signals)
    BY <1>3, <1>5, <1>6
  <2> QED BY <1>1, <1>3, <2>1, <2>2 DEF SignalsFollowResponses, Silent, BodySize
<1>7. CASE ~Silent(responses[k])
  <2>1. signals' = signals \o <<k>>
    BY <1>7
  <2>2. \A j \in DOMAIN signals : signals[j] < k
    BY <1>2, <1>4
  <2>3. /\ \A i, j \in DOMAIN signals' : i < j => signals'[i] < signals'[j]
        /\ Range(signals')
             = Range(signals) \cup {k}
    BY <1>2, <1>3, <2>1, <2>2, OneMore
  <2>4. Range(signals') = {j \in 1..k : ~Silent(responses[j])}
    BY <1>3, <1>5, <1>7, <2>3
  <2> QED BY <1>1, <2>3, <2>4 DEF SignalsFollowResponses, Silent, BodySize
<1> QED BY <1>6, <1>7
-----------------------------------------------------------------------------
(* The steps.                                                              *)

LEMMA InitIInv == Init => IInv
<1> SUFFICES ASSUME Init PROVE IInv
  OBVIOUS
<1>1. /\ ends = <<>> /\ responses = <<>> /\ taken = 0 /\ arrived = 0
      /\ signals = <<>> /\ Written = 0
  BY DEF Init, Written
<1>2. TypeOK
  <2>1. <<>> \in Seq(Requests) /\ <<>> \in Seq(Responses) /\ <<>> \in Seq(Nat)
    OBVIOUS
  <2>2. cut \in BOOLEAN /\ joined \in BOOLEAN
    BY DEF Init
  <2> QED BY <1>1, <2>1, <2>2 DEF Init, TypeOK
<1>3. EndsInv /\ BodyInv
  BY <1>1 DEF Init, EndsInv, BodyInv
<1>4. Handled = 0
  BY <1>1, <1>2, <1>3, AtZero DEF Handled
<1>5. Range(signals) = {k \in 1..Handled : ~Silent(responses[k])}
  BY <1>1, <1>4 DEF Range
<1>6. SignalsFollowResponses
  BY <1>1, <1>5 DEF Init, SignalsFollowResponses, InStep, Boundaries
<1> QED BY <1>2, <1>3, <1>6 DEF IInv

LEMMA Between ==
  ASSUME NEW t \in Nat, NEW a \in Nat, NEW m \in Nat, t <= a
  PROVE  LET avail == a - t
             least == t + (IF avail < m THEN avail ELSE m)
         IN  least \in 0..a /\ least \in Nat
OBVIOUS

LEMMA OnReadyReadInv ==
  ASSUME IInv, out' \in Seq(Requests),
         NEW n \in 1..(Written - arrived), onReadyRead(n)
  PROVE  IInv'
<1> DEFINE k == At(taken)
<1>1. TypeOK /\ EndsInv /\ SignalsFollowResponses
  BY DEF IInv
<1>2. /\ UNCHANGED <<socket, streamVars>> /\ out' \in Seq(Requests)
      /\ taken \in Nat /\ arrived \in Nat /\ arrived' \in Nat /\ Written \in Nat
      /\ taken <= arrived /\ arrived < arrived' /\ arrived' <= Written
      /\ cut' \in BOOLEAN /\ joined' \in BOOLEAN
      /\ cut => cut'
      /\ Tears(arrived') => cut'
  BY <1>1, SegmentFacts, WrittenIsLast, Zenon DEF onReadyRead
<1>3. CASE InStep /\ (WholeFrame(k) \/ PartOfBody(k) \/ ShortRead(k))
  <2>1. taken \in Boundaries /\ taken < Written
    BY <1>2, <1>3 DEF InStep
  <2>2. k \in DOMAIN ends /\ Start(k) = taken
    BY <1>1, <2>1, NextResponse
  <2>3. responses[k] \in Responses /\ ends[k] \in Nat /\ k \in Nat
    BY <1>1, <2>2, ResponseAt DEF TypeOK
  <2>4. /\ taken < taken + Upfront(responses[k])
        /\ taken + Upfront(responses[k]) \in Nat
        /\ taken + Upfront(responses[k]) <= ends[k]
    BY <1>1, <2>2, Frames
  <2> HIDE DEF k
  <2>5. CASE WholeFrame(k)
    <3> DEFINE s == IF Silent(responses[k]) THEN <<>> ELSE <<k>>
    <3>1. s \in Seq(Nat) /\ ends[k] \in 0..arrived'
      BY <1>2, <2>3, <2>5 DEF WholeFrame
    <3>2. taken' = ends[k] /\ phase' = "idle" /\ signals' = signals \o s
      BY <2>5 DEF WholeFrame, Leave
    <3>3. SignalsFollowResponses'
      <4>1. CASE cut
        BY <1>2, <4>1 DEF SignalsFollowResponses
      <4>2. CASE ~cut
        BY <1>1, <1>2, <2>2, <3>2, <4>2, SignalStep DEF k
      <4> QED BY <4>1, <4>2
    <3>4. Leave(ends[k], "idle", s)
      BY <2>5 DEF WholeFrame
    <3> HIDE DEF s
    <3> QED BY <1>2, <3>1, <3>3, <3>4, LeaveInv
  <2>6. CASE PartOfBody(k)
    <3>1. /\ arrived' < ends[k] /\ taken < arrived'
          /\ Start(k) + Upfront(responses[k]) <= arrived'
          /\ Leave(arrived', "body", <<>>)
      BY <1>2, <2>2, <2>4, <2>6 DEF PartOfBody
    <3>2. At(arrived') = k
      BY <1>1, <1>2, <2>2, <3>1, AtIs
    <3>3. taken' = arrived' /\ phase' = "body" /\ signals' = signals
      BY <1>1, <3>1, ConcatEmptySeq DEF Leave, TypeOK
    <3>4. At(taken') = At(taken)
      BY <3>2, <3>3 DEF k
    <3>5. SignalsFollowResponses'
      BY <1>1, <1>2, <3>3, <3>4, SilentStep DEF SignalsFollowResponses
    <3>6. <<>> \in Seq(Nat) /\ arrived' \in 0..arrived' /\ arrived' \in 0..Written
      BY <1>2
    <3> QED BY <1>2, <2>2, <3>1, <3>5, <3>6, LeaveInv
  <2>7. CASE ShortRead(k)
    <3>1. /\ arrived' < taken + Upfront(responses[k])
          /\ Leave(arrived', "idle", <<>>)
      BY <2>2, <2>7 DEF ShortRead
    <3>2. At(arrived') = k
      BY <1>1, <1>2, <2>2, <2>3, <2>4, <3>1, AtIs
    <3>3. arrived' \notin Boundaries
      <4>1. SUFFICES ASSUME arrived' \in Boundaries, arrived' < Written
                     PROVE  FALSE
        BY <1>2, <2>3, <2>4, <3>1, <1>1, <2>2, WrittenIsLast
      <4>2. Start(At(arrived')) = arrived'
        BY <1>1, <4>1, NextResponse
      <4> QED BY <1>2, <2>2, <3>2, <4>2
    <3>4. Tears(arrived')
      BY <2>2, <3>1, <3>2, <3>3 DEF Tears
    <3>5. SignalsFollowResponses'
      BY <1>2, <3>4 DEF SignalsFollowResponses
    <3>6. <<>> \in Seq(Nat) /\ arrived' \in 0..arrived' /\ arrived' \in 0..Written
      BY <1>2
    <3> QED BY <1>2, <3>1, <3>5, <3>6, LeaveInv
  <2> QED BY <1>3, <2>5, <2>6, <2>7 DEF k
<1>4. CASE ~InStep /\ Misread
  <2>1. cut'
    BY <1>1, <1>2, <1>4 DEF SignalsFollowResponses, onReadyRead
  <2>2. SignalsFollowResponses'
    BY <2>1 DEF SignalsFollowResponses
  <2>3. MhSize \in Nat
    BY ClientAssumption
  <2>4. <<>> \in Seq(Nat) /\ <<0>> \in Seq(Nat) /\ arrived' \in 0..Written
    BY <1>2
  <2> DEFINE avail == arrived' - taken
             least == taken + (IF avail < MhSize THEN avail ELSE MhSize)
  <2>5. least \in 0..arrived' /\ least \in Nat
    <3>1. taken \in Nat /\ arrived' \in Nat /\ taken <= arrived'
      BY <1>2
    <3> QED BY <2>3, <3>1, Between
  <2>6. \/ \E p \in least..arrived' : Leave(p, "idle", <<>>)
        \/ \E p \in (least + 1)..arrived' : Leave(p, "idle", <<0>>)
        \/ Leave(arrived', "astray", <<>>)
        \/ Leave(least, "terminated", <<>>)
    BY <1>4 DEF Misread
  <2> HIDE DEF least
  <2>7. \E p \in 0..arrived', next \in {"idle", "astray", "terminated"},
           s \in {<<>>, <<0>>} : Leave(p, next, s)
    <3>1. CASE \E p \in least..arrived' : Leave(p, "idle", <<>>)
      BY <1>2, <2>5, <3>1
    <3>2. CASE \E p \in (least + 1)..arrived' : Leave(p, "idle", <<0>>)
      BY <1>2, <2>5, <3>2
    <3>3. CASE Leave(arrived', "astray", <<>>)
      BY <1>2, <3>3
    <3>4. CASE Leave(least, "terminated", <<>>)
      BY <2>5, <3>4
    <3> QED BY <2>6, <3>1, <3>2, <3>3, <3>4
  <2>8. PICK p \in 0..arrived', next \in {"idle", "astray", "terminated"},
           s \in {<<>>, <<0>>} : Leave(p, next, s)
    BY <2>7
  <2>9. s \in Seq(Nat)
    BY <2>4
  <2> QED BY <1>2, <2>2, <2>4, <2>8, <2>9, LeaveInv
<1> QED BY <1>3, <1>4 DEF onReadyRead

LEMMA ReadBodyInv ==
  ASSUME IInv, out' \in Seq(Requests),
         NEW n \in 1..(Written - arrived), ReadBody(n)
  PROVE  IInv'
<1> DEFINE k == At(taken)
<1>1. TypeOK /\ EndsInv /\ SignalsFollowResponses
  BY DEF IInv
<1>2. /\ UNCHANGED <<socket, streamVars>> /\ out' \in Seq(Requests)
      /\ taken \in Nat /\ arrived \in Nat /\ arrived' \in Nat /\ Written \in Nat
      /\ taken <= arrived /\ arrived < arrived' /\ arrived' <= Written
      /\ cut' \in BOOLEAN /\ joined' \in BOOLEAN
      /\ cut => cut'
  BY <1>1, SegmentFacts, WrittenIsLast, Zenon DEF ReadBody
<1>3. PICK j \in DOMAIN ends : /\ Start(j) + Upfront(responses[j]) <= taken
                              /\ taken < ends[j]
  BY DEF IInv, BodyInv, ReadBody
<1>4. /\ Start(j) < taken /\ ends[j] \in Nat /\ j \in Nat
      /\ Start(j) \in Nat /\ Start(j) + Upfront(responses[j]) \in Nat
      /\ responses[j] \in Responses
  BY <1>1, <1>2, <1>3, Frames, ResponseAt DEF TypeOK
<1>5. At(taken) = j
  BY <1>1, <1>2, <1>3, <1>4, AtIs
<1>6. CASE arrived' < ends[j]
  <2>1. Leave(arrived', "body", <<>>)
    BY <1>5, <1>6 DEF ReadBody
  <2>2. At(arrived') = j
    BY <1>1, <1>2, <1>4, <1>6, AtIs
  <2>3. taken' = arrived' /\ phase' = "body" /\ signals' = signals
    BY <1>1, <2>1, ConcatEmptySeq DEF Leave, TypeOK
  <2>4. At(taken') = At(taken)
    BY <1>5, <2>2, <2>3
  <2>5. SignalsFollowResponses'
    BY <1>1, <1>2, <2>3, <2>4, SilentStep DEF SignalsFollowResponses
  <2>6. /\ <<>> \in Seq(Nat) /\ arrived' \in 0..arrived' /\ arrived' \in 0..Written
        /\ Start(j) + Upfront(responses[j]) <= arrived'
    BY <1>2, <1>3, <1>4
  <2> QED BY <1>2, <1>6, <2>1, <2>5, <2>6, LeaveInv
<1>7. CASE ~(arrived' < ends[j])
  <2>1. Leave(ends[j], "idle", <<j>>)
    BY <1>5, <1>7 DEF ReadBody
  <2>2. ~Silent(responses[j])
    BY <1>1, <1>2, <1>3, <1>4, BodyIsHeard
  <2>3. taken' = ends[j] /\ phase' = "idle" /\ signals' = signals \o <<j>>
    BY <2>1 DEF Leave
  <2>4. signals' = signals \o (IF Silent(responses[j]) THEN <<>> ELSE <<j>>)
    BY <2>2, <2>3
  <2>5. SignalsFollowResponses'
    <3>1. CASE cut
      BY <1>2, <3>1 DEF SignalsFollowResponses
    <3>2. CASE ~cut
      BY <1>1, <1>2, <1>5, <2>3, <2>4, <3>2, SignalStep
    <3> QED BY <3>1, <3>2
  <2>6. <<j>> \in Seq(Nat) /\ ends[j] \in 0..arrived' /\ arrived' \in 0..Written
    BY <1>2, <1>4, <1>7
  <2> QED BY <1>2, <2>1, <2>5, <2>6, LeaveInv
<1> QED BY <1>6, <1>7

LEMMA ReadAstrayInv ==
  ASSUME IInv, out' \in Seq(Requests),
         NEW n \in 1..(Written - arrived), ReadAstray(n)
  PROVE  IInv'
<1>1. TypeOK /\ EndsInv /\ SignalsFollowResponses
  BY DEF IInv
<1>2. /\ UNCHANGED <<socket, streamVars>> /\ out' \in Seq(Requests)
      /\ taken \in Nat /\ arrived \in Nat /\ arrived' \in Nat /\ Written \in Nat
      /\ taken <= arrived /\ arrived < arrived' /\ arrived' <= Written
      /\ cut' \in BOOLEAN /\ joined' \in BOOLEAN
      /\ cut => cut'
  BY <1>1, SegmentFacts, WrittenIsLast, Zenon DEF ReadAstray
<1>3. cut'
  BY <1>1, <1>2 DEF SignalsFollowResponses, ReadAstray
<1>4. SignalsFollowResponses'
  BY <1>3 DEF SignalsFollowResponses
<1>5. \E p \in 0..arrived', next \in {"idle", "astray"}, s \in {<<>>, <<0>>} :
        Leave(p, next, s)
  <2>1. CASE Leave(arrived', "astray", <<>>)
    BY <1>2, <2>1
  <2>2. CASE \E p \in (taken + 1)..arrived' : Leave(p, "idle", <<0>>)
    BY <1>2, <2>2
  <2> QED BY <2>1, <2>2 DEF ReadAstray
<1>6. PICK p \in 0..arrived', next \in {"idle", "astray"}, s \in {<<>>, <<0>>} :
        Leave(p, next, s)
  BY <1>5
<1>7. <<>> \in Seq(Nat) /\ <<0>> \in Seq(Nat)
  OBVIOUS
<1>8. s \in Seq(Nat)
  BY <1>6, <1>7, Zenon
<1>9. arrived' \in 0..Written
  BY <1>2
<1> QED BY <1>2, <1>4, <1>6, <1>8, <1>9, LeaveInv

LEMMA GiveUpInv ==
  ASSUME IInv, out' \in Seq(Requests), GiveUp
  PROVE  IInv'
<1>1. /\ UNCHANGED <<socket, responses, ends, arrived, taken, signals, joined>>
      /\ out' \in Seq(Requests)
      /\ phase' = "idle" /\ cut' = TRUE
  BY DEF GiveUp, streamVars
<1>2. Written' = Written
  BY <1>1 DEF Written
<1>3. TypeOK'
  BY <1>1, <1>2 DEF IInv, TypeOK
<1>4. EndsInv' /\ BodyInv'
  BY <1>1 DEF IInv, EndsInv, BodyInv, Start
<1>5. SignalsFollowResponses'
  BY <1>1 DEF SignalsFollowResponses
<1> QED BY <1>3, <1>4, <1>5 DEF IInv

LEMMA ReadInv ==
  ASSUME IInv, out' \in Seq(Requests), Read
  PROVE  IInv'
BY OnReadyReadInv, ReadBodyInv, ReadAstrayInv, GiveUpInv DEF Read

(* Whatever is read, it makes at most one signal: of a response that is    *)
(* not silent, or made up.                                                 *)
LEMMA ReadSignals ==
  ASSUME IInv, Read
  PROVE  /\ UNCHANGED <<socket, responses, ends>>
         /\ cut => cut'
         /\ \/ signals' = signals
            \/ \E k \in {0} \cup DOMAIN ends :
                 /\ signals' = Append(signals, k)
                 /\ k # 0 => ~Silent(responses[k])
<1>1. TypeOK /\ EndsInv
  BY DEF IInv
<1>2. signals \in Seq(Nat)
  BY <1>1 DEF TypeOK
<1>3. \A k : signals \o <<>> = signals /\ signals \o <<k>> = Append(signals, k)
  BY <1>2
<1>4. ASSUME NEW n \in 1..(Written - arrived), Segment(n)
      PROVE  /\ taken \in Nat /\ arrived \in Nat /\ taken <= arrived
             /\ arrived < arrived' /\ arrived' \in Nat
             /\ Written \in Nat /\ arrived' <= Written
  BY <1>1, <1>4, SegmentFacts, WrittenIsLast
<1>5. ASSUME NEW n \in 1..(Written - arrived), onReadyRead(n)
      PROVE  \/ signals' = signals
             \/ \E k \in {0} \cup DOMAIN ends :
                  /\ signals' = Append(signals, k)
                  /\ k # 0 => ~Silent(responses[k])
  <2>1. CASE ~InStep /\ Misread
    BY <1>3, <2>1, Zenon DEF Misread, Leave
  <2>2. CASE InStep /\ (WholeFrame(At(taken)) \/ PartOfBody(At(taken)) \/ ShortRead(At(taken)))
    <3>1. At(taken) \in DOMAIN ends
      <4>1. Segment(n)
        BY <1>5 DEF onReadyRead
      <4>2. taken < Written /\ taken \in Boundaries
        BY <1>4, <2>2, <4>1 DEF InStep
      <4> QED BY <1>1, <4>2, NextResponse
    <3> DEFINE k == At(taken)
    <3> HIDE DEF k
    <3>2. k \in DOMAIN ends /\ (WholeFrame(k) \/ PartOfBody(k) \/ ShortRead(k))
      BY <2>2, <3>1 DEF k
    <3> QED BY <1>3, <3>2, Zenon DEF WholeFrame, PartOfBody, ShortRead, Leave
  <2> QED BY <1>5, <2>1, <2>2 DEF onReadyRead
<1>6. ASSUME NEW n \in 1..(Written - arrived), ReadBody(n)
      PROVE  \/ signals' = signals
             \/ \E k \in DOMAIN ends : /\ signals' = Append(signals, k)
                                      /\ ~Silent(responses[k])
  <2>1. PICK j \in DOMAIN ends : /\ Start(j) + Upfront(responses[j]) <= taken
                                /\ taken < ends[j]
    BY <1>6 DEF IInv, BodyInv, ReadBody
  <2>2. /\ Start(j) < taken /\ ends[j] \in Nat
        /\ Start(j) \in Nat /\ Start(j) + Upfront(responses[j]) \in Nat
        /\ taken \in Nat
    BY <1>1, <1>4, <1>6, <2>1, Frames DEF ReadBody
  <2>3. At(taken) = j /\ ~Silent(responses[j])
    BY <1>1, <2>1, <2>2, AtIs, BodyIsHeard
  <2> QED BY <1>3, <1>6, <2>3, Zenon DEF ReadBody, Leave
<1>7. ASSUME NEW n \in 1..(Written - arrived), ReadAstray(n)
      PROVE  signals' = signals \/ signals' = Append(signals, 0)
  BY <1>3, <1>7, Zenon DEF ReadAstray, Leave
<1>8. ASSUME NEW n \in 1..(Written - arrived),
             onReadyRead(n) \/ ReadBody(n) \/ ReadAstray(n)
      PROVE  UNCHANGED <<socket, responses, ends>> /\ (cut => cut')
  <2>1. Segment(n)
    BY <1>8 DEF onReadyRead, ReadBody, ReadAstray
  <2>2. UNCHANGED <<socket, responses, ends>>
    BY <2>1 DEF Segment, streamVars
  <2>3. cut => cut'
    BY <2>1 DEF Segment
  <2> QED BY <2>2, <2>3
<1>9. CASE GiveUp
  BY <1>9 DEF GiveUp, streamVars
<1> QED BY <1>5, <1>6, <1>7, <1>8, <1>9 DEF Read

(* A client that has read all there is has handled all responses.          *)
LEMMA AllHandled ==
  ASSUME IInv, taken = Written
  PROVE  Handled = Len(ends)
<1>1. TypeOK /\ EndsInv
  BY DEF IInv
<1>2. CASE ends = <<>>
  BY <1>1, <1>2, AtZero DEF Handled, Written
<1>3. CASE ends # <<>>
  <2>1. Len(ends) \in DOMAIN ends /\ taken = ends[Len(ends)]
    BY <1>1, <1>3 DEF TypeOK, Written
  <2>2. At(taken) = Len(ends) + 1
    BY <1>1, <2>1, AtEnd
  <2> QED BY <1>1, <2>1, <2>2 DEF Handled, TypeOK
<1> QED BY <1>2, <1>3

(* A new response comes behind those there are.                            *)
LEMMA RespondInv ==
  ASSUME IInv, NEW res \in Responses, responses' = Append(responses, res),
         Extend(res), UNCHANGED <<socket, out, readVars>>
  PROVE  IInv'
<1> DEFINE l == Len(ends)
           e == Written + FrameSize(res)
<1>1. TypeOK /\ EndsInv /\ BodyInv /\ SignalsFollowResponses
  BY DEF IInv
<1>2. /\ UNCHANGED <<socket, out, arrived, taken, phase, signals, cut, joined>>
      /\ responses' = Append(responses, res)
      /\ ends' = Append(ends, e)
  BY DEF Extend, readVars
<1>3. /\ Written \in Nat /\ FrameSize(res) \in Nat \ {0}
      /\ \A k \in DOMAIN ends : ends[k] <= Written
  BY <1>1, WrittenIsLast, Sizes
<1>4. e \in Nat /\ Written < e
  BY <1>3
<1> HIDE DEF e
<1>5. /\ ends' \in Seq(Nat) /\ responses' \in Seq(Responses)
      /\ Len(ends') = l + 1 /\ Len(responses') = l + 1 /\ l \in Nat
      /\ DOMAIN ends = 1..l /\ DOMAIN ends' = 1..(l + 1)
      /\ ends'[l + 1] = e /\ responses'[l + 1] = res
      /\ \A k \in 1..l : ends'[k] = ends[k] /\ responses'[k] = responses[k]
      /\ \A k \in 1..l : ends[k] \in Nat
  BY <1>1, <1>2, <1>4 DEF TypeOK
<1>6. Written' = e
  BY <1>5 DEF Written
<1>7. arrived' = arrived /\ taken' = taken /\ arrived \in Nat /\ taken \in Nat
      /\ taken <= arrived /\ arrived <= Written
  BY <1>1, <1>2, <1>3 DEF TypeOK
<1>8. TypeOK'
  <2>1. arrived' \in 0..Written' /\ taken' \in 0..arrived'
    BY <1>3, <1>4, <1>6, <1>7
  <2> QED BY <1>1, <1>2, <1>5, <2>1 DEF TypeOK
<1>9. \A k \in 1..l : Start(k)' = Start(k)
  BY <1>5 DEF Start
<1>10. \A k : k = l + 1 => Start(k)' = Written
  <2>1. CASE l = 0
    <3>1. ends = <<>>
      BY <1>1, <2>1 DEF TypeOK
    <3> QED BY <2>1, <3>1 DEF Start, Written
  <2>2. CASE l # 0
    <3>1. ends # <<>> /\ l + 1 # 1 /\ l + 1 - 1 = l /\ l \in 1..l
      BY <1>5, <2>2
    <3> QED BY <1>5, <3>1 DEF Start, Written
  <2> QED BY <2>1, <2>2
<1>11. EndsInv'
  <2>1. \A j, k \in DOMAIN ends' : j < k => ends'[j] < ends'[k]
    <3> SUFFICES ASSUME NEW j \in DOMAIN ends', NEW k \in DOMAIN ends', j < k
                 PROVE  ends'[j] < ends'[k]
      OBVIOUS
    <3>1. j \in 1..l /\ (k \in 1..l \/ k = l + 1)
      BY <1>5
    <3>2. CASE k \in 1..l
      BY <1>1, <1>5, <3>1, <3>2 DEF EndsInv
    <3>3. CASE k = l + 1
      BY <1>3, <1>4, <1>5, <3>1, <3>3
    <3> QED BY <3>1, <3>2, <3>3
  <2>2. \A k \in DOMAIN ends' : /\ Start(k)' \in Nat
                                /\ ends'[k] = Start(k)' + FrameSize(responses'[k])
    <3> TAKE k \in DOMAIN ends'
    <3>1. CASE k \in 1..l
      BY <1>1, <1>5, <1>9, <3>1 DEF EndsInv
    <3>2. CASE k = l + 1
      <4>1. Start(k)' = Written
        BY <1>10, <3>2
      <4>2. ends'[k] = e /\ responses'[k] = res
        BY <1>5, <3>2
      <4> QED BY <1>3, <4>1, <4>2 DEF e
    <3> QED BY <1>5, <3>1, <3>2
  <2> QED BY <2>1, <2>2 DEF EndsInv
<1>12. BodyInv'
  <2> SUFFICES ASSUME phase = "body"
               PROVE  \E k \in DOMAIN ends' :
                        /\ Start(k)' + Upfront(responses'[k]) <= taken'
                        /\ taken' < ends'[k]
    BY <1>2 DEF BodyInv
  <2>1. PICK k \in DOMAIN ends : /\ Start(k) + Upfront(responses[k]) <= taken
                                /\ taken < ends[k]
    BY <1>1 DEF BodyInv
  <2> QED BY <1>5, <1>7, <1>9, <2>1
<1>13. SignalsFollowResponses'
  <2> SUFFICES ASSUME ~cut PROVE SignalsFollowResponses'
    BY <1>2 DEF SignalsFollowResponses
  <2>1. {k \in DOMAIN ends' : ends'[k] <= taken'} = {k \in DOMAIN ends : ends[k] <= taken}
    BY <1>4, <1>5, <1>3, <1>7
  <2>2. Handled' = Handled
    BY <2>1 DEF Handled, At
  <2>3. Handled \in Nat /\ Handled <= l
    <3>1. At(taken) \in 1..(l + 1)
      BY <1>1, <1>7, AtType
    <3> QED BY <1>5, <3>1 DEF Handled
  <2>4. \A k \in 1..Handled : Silent(responses[k])' <=> Silent(responses[k])
    BY <1>5, <2>3 DEF Silent, BodySize
  <2>5. Boundaries \subseteq Boundaries'
    BY <1>5 DEF Boundaries
  <2>6. InStep => InStep'
    BY <1>2, <2>5 DEF InStep
  <2>7. {k \in 1..Handled : ~Silent(responses[k])'} = {k \in 1..Handled : ~Silent(responses[k])}
    BY <2>4
  <2>8. /\ signals' = signals /\ phase' = phase
    BY <1>2
  <2>9. Range(signals') = {k \in 1..Handled' : ~Silent(responses[k])'}
    BY <1>1, <2>2, <2>7, <2>8 DEF SignalsFollowResponses
  <2> QED BY <1>1, <2>6, <2>8, <2>9 DEF SignalsFollowResponses
<1> QED BY <1>8, <1>11, <1>12, <1>13 DEF IInv

(* The rest does not touch what is read or what there is to read.          *)
LEMMA OthersInv ==
  ASSUME IInv, UNCHANGED <<streamVars, readVars>>,
         socket' \in {"unconnected", "connecting", "connected", "closed"},
         out' \in Seq(Requests)
  PROVE  IInv'
<1>1. UNCHANGED <<responses, ends, arrived, taken, phase, signals, cut, joined>>
  BY DEF streamVars, readVars
<1>2. Written' = Written /\ Handled' = Handled /\ (InStep' <=> InStep)
  BY <1>1 DEF Written, Handled, At, InStep, Boundaries
<1>3. TypeOK'
  BY <1>1, <1>2 DEF IInv, TypeOK
<1>4. EndsInv' /\ BodyInv'
  BY <1>1 DEF IInv, EndsInv, BodyInv, Start, Upfront, FrameSize, BodySize
<1>5. SignalsFollowResponses'
  BY <1>1, <1>2 DEF IInv, SignalsFollowResponses, Silent, BodySize
<1> QED BY <1>3, <1>4, <1>5 DEF IInv

LEMMA NextIInv ==
  ASSUME IInv, [Next]_vars
  PROVE  IInv'
<1>1. /\ socket \in {"unconnected", "connecting", "connected", "closed"}
      /\ out \in Seq(Requests)
  BY DEF IInv, TypeOK
<1>2. CASE connect
  BY <1>1, <1>2, OthersInv DEF connect
<1>3. CASE Connected
  BY <1>1, <1>3, OthersInv DEF Connected
<1>4. CASE Closed
  BY <1>1, <1>4, OthersInv DEF Closed
<1>5. CASE Flush
  BY <1>1, <1>5, OthersInv DEF Flush
<1>6. CASE Read /\ UNCHANGED out
  BY <1>1, <1>6, ReadInv
<1>7. CASE \E res \in Responses : Respond(res)
  BY <1>7, RespondInv DEF Respond
<1>8. CASE \E req \in Requests : Request(req)
  BY <1>1, <1>8, OthersInv DEF Request, write
<1>9. CASE UNCHANGED vars
  BY <1>1, <1>9, OthersInv DEF vars
<1> QED
  BY <1>2, <1>3, <1>4, <1>5, <1>6, <1>7, <1>8, <1>9 DEF Next

LEMMA Inductive == Spec => []IInv
<1>1. Init => IInv
  BY InitIInv
<1>2. IInv /\ [Next]_vars => IInv'
  BY NextIInv
<1> QED BY <1>1, <1>2, PTL DEF Spec

(* The positions stay where they belong: nothing is read that has not      *)
(* arrived, nothing arrives that was not written.                          *)
THEOREM TypeCorrect == Spec => []TypeOK
<1>1. IInv => TypeOK
  BY DEF IInv
<1> QED BY <1>1, Inductive, PTL

(* On a connection on which no segment has ended within a part that is     *)
(* read at once and no body has paused for three seconds, onReadyRead has  *)
(* signalled exactly the responses behind it that have something to say,   *)
(* in the order of the stream, and stands at the beginning of a response   *)
(* or within a body: for any number of responses of any size and however   *)
(* they are cut.                                                           *)
THEOREM SignalsInOrder == Spec => []SignalsFollowResponses
<1>1. IInv => SignalsFollowResponses
  BY DEF IInv
<1> QED BY <1>1, Inductive, PTL
-----------------------------------------------------------------------------
(* The responses that wait in the buffer.                                  *)

(* A set that loses at most one element and gains another does not shrink. *)
LEMMA OneOutOneIn ==
  ASSUME NEW A, NEW B, IsFiniteSet(A), IsFiniteSet(B), NEW k, NEW j,
         j \notin A, (A \ {k}) \cup {j} \subseteq B
  PROVE  Cardinality(B) >= Cardinality(A)
<1> DEFINE C == A \ {k}
           D == C \cup {j}
<1>1. IsFiniteSet(C) /\ Cardinality(A) <= Cardinality(C) + 1
      /\ Cardinality(C) \in Nat /\ Cardinality(A) \in Nat
  <2>1. /\ IsFiniteSet(C)
        /\ Cardinality(C) = IF k \in A THEN Cardinality(A) - 1 ELSE Cardinality(A)
    BY FS_RemoveElement
  <2>2. Cardinality(A) \in Nat
    BY FS_CardinalityType
  <2>3. Cardinality(C) \in Nat
    BY <2>1, FS_CardinalityType
  <2> HIDE DEF C
  <2> QED BY <2>1, <2>2, <2>3
<1>2. j \notin C
  OBVIOUS
<1>3. IsFiniteSet(D) /\ Cardinality(D) = Cardinality(C) + 1
  BY <1>1, <1>2, FS_AddElement
<1>4. D \in SUBSET B
  OBVIOUS
<1>5. Cardinality(D) <= Cardinality(B) /\ Cardinality(B) \in Nat
  BY <1>4, FS_Subset, FS_CardinalityType
<1> QED BY <1>1, <1>3, <1>5

LEMMA LagStep ==
  ASSUME IInv, NEW n \in 1..(Written - arrived), onReadyRead(n),
         ~cut', arrived' \in Boundaries
  PROVE  Cardinality(Waiting') >= Cardinality(Waiting)
<1> DEFINE k == At(taken)
<1>1. TypeOK /\ EndsInv /\ SignalsFollowResponses
  BY DEF IInv
<1>2. /\ UNCHANGED streamVars
      /\ taken \in Nat /\ arrived \in Nat /\ arrived' \in Nat /\ Written \in Nat
      /\ taken <= arrived /\ arrived < arrived' /\ arrived' <= Written
      /\ cut => cut'
  BY <1>1, SegmentFacts, WrittenIsLast, Zenon DEF onReadyRead
<1>3. InStep /\ ends' = ends
  BY <1>1, <1>2 DEF SignalsFollowResponses, onReadyRead, streamVars
<1>4. k \in DOMAIN ends /\ Start(k) = taken
  BY <1>1, <1>2, <1>3, NextResponse DEF InStep
<1>5. /\ ends[k] \in Nat /\ taken < ends[k]
      /\ taken < taken + Upfront(responses[k])
      /\ taken + Upfront(responses[k]) \in Nat
      /\ taken + Upfront(responses[k]) <= ends[k]
  BY <1>1, <1>4, Frames
<1>6. DOMAIN ends = 1..Len(ends) /\ Len(ends) \in Nat /\ \A i \in DOMAIN ends : ends[i] \in Nat
  BY <1>1 DEF TypeOK
<1>7. WholeFrame(k) \/ PartOfBody(k) \/ ShortRead(k)
  BY <1>3 DEF onReadyRead
<1> HIDE DEF k
<1>8. arrived' >= ends[k]
  <2> SUFFICES ASSUME arrived' < ends[k] PROVE FALSE
    BY <1>2, <1>5
  <2>1. At(arrived') = k
    BY <1>1, <1>2, <1>4, AtIs
  <2>2. arrived' < Written
    BY <1>1, <1>2, <1>4, <1>5, WrittenIsLast
  <2>3. Start(At(arrived')) = arrived'
    BY <1>1, <2>2, NextResponse
  <2> QED BY <1>2, <1>4, <2>1, <2>3
<1>9. taken' = ends[k]
  BY <1>2, <1>4, <1>5, <1>7, <1>8 DEF WholeFrame, PartOfBody, ShortRead, Leave
<1>10. PICK j \in DOMAIN ends : arrived' = ends[j]
  BY <1>2 DEF Boundaries
<1>11. /\ Waiting = {i \in DOMAIN ends : taken < ends[i] /\ ends[i] <= arrived}
       /\ Waiting' = {i \in DOMAIN ends : ends[k] < ends[i] /\ ends[i] <= arrived'}
  BY <1>3, <1>9 DEF Waiting
<1>12. IsFiniteSet(Waiting) /\ IsFiniteSet(Waiting')
  <2>1. IsFiniteSet(1..Len(ends))
    BY <1>6, CountTo
  <2>2. Waiting \in SUBSET (1..Len(ends)) /\ Waiting' \in SUBSET (1..Len(ends))
    BY <1>6, <1>11
  <2> QED BY <2>1, <2>2, FS_Subset
<1>13. \A i \in DOMAIN ends : taken < ends[i] => i = k \/ ends[k] < ends[i]
  <2> TAKE i \in DOMAIN ends
  <2> HAVE taken < ends[i]
  <2>1. i = k \/ k < i \/ i < k
    BY <1>4, <1>6
  <2>2. CASE i < k
    <3>1. k # 1 /\ (i = k - 1 \/ i < k - 1) /\ k - 1 \in DOMAIN ends
      BY <1>4, <1>6, <2>2
    <3>2. ends[i] <= ends[k - 1] /\ ends[k - 1] = taken
      BY <1>1, <1>4, <1>6, <3>1 DEF EndsInv, Start
    <3> QED BY <1>6, <1>2, <3>2
  <2>3. CASE k < i
    BY <1>1, <1>4, <2>3 DEF EndsInv
  <2> QED BY <2>1, <2>2, <2>3
<1>14. CASE j = k
  <2>1. Waiting = {}
    BY <1>2, <1>6, <1>10, <1>11, <1>13, <1>14
  <2>2. Cardinality(Waiting) = 0 /\ Cardinality(Waiting') \in Nat
    BY <1>12, <2>1, FS_EmptySet, FS_CardinalityType
  <2> QED BY <2>2
<1>15. CASE j # k
  <2>1. j \notin Waiting
    BY <1>2, <1>6, <1>10, <1>11
  <2>2. j \in Waiting'
    BY <1>2, <1>5, <1>10, <1>11, <1>13, <1>15
  <2>3. Waiting \ {k} \subseteq Waiting'
    BY <1>2, <1>6, <1>11, <1>13
  <2>4. (Waiting \ {k}) \cup {j} \subseteq Waiting'
    BY <2>2, <2>3
  <2> QED BY <1>12, <2>1, <2>4, OneOutOneIn
<1> QED BY <1>14, <1>15

(* A client that lags behind stays behind: in such a connection a segment  *)
(* of whole responses leaves in the buffer at least as many whole          *)
(* responses as waited there before, however many it brings.               *)
THEOREM LagKept == Spec => LagNeverShrinks
<1> DEFINE Step == /\ ~cut'
                   /\ phase = "idle"
                   /\ arrived # arrived'
                   /\ arrived \in Boundaries
                   /\ arrived' \in Boundaries
                   => Cardinality(Waiting') >= Cardinality(Waiting)
<1>1. IInv /\ [Next]_vars => [Step]_vars
  <2> SUFFICES ASSUME IInv, Next, phase = "idle", arrived # arrived',
                      ~cut', arrived' \in Boundaries
               PROVE  Cardinality(Waiting') >= Cardinality(Waiting)
    OBVIOUS
  <2>1. \E n \in 1..(Written - arrived) : onReadyRead(n)
    BY DEF Next, connect, Connected, Closed, Flush, Read, ReadBody, ReadAstray,
           GiveUp, Respond, Request, readVars
  <2> QED BY <2>1, LagStep
<1>2. Spec => [][Step]_vars
  BY <1>1, Inductive, PTL DEF Spec
<1> QED BY <1>2 DEF LagNeverShrinks
=============================================================================
