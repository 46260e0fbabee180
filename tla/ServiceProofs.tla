----------------------------- MODULE ServiceProofs -----------------------------
(***************************************************************************)
(* The database server implements Service, for any number of clients that  *)
(* send any requests of the kinds read_body knows, wherever connections    *)
(* break, statements fail and the process is killed.                       *)
(*                                                                         *)
(* What a session still owes its client is Whole(inbox[c]), the requests   *)
(* whose last part is in the stream.  The proof follows the invariant of   *)
(* AnswersProofs: the tokens of the stream belong to requests of rising    *)
(* numbers, so Whole of it is a slice of the requests sent, and what a     *)
(* step does to the stream is arithmetic on the ends of that slice.        *)
(*                                                                         *)
(* Then each step is mapped: a connect to Open, a send to Ask, a handler   *)
(* that calls the data access object to Execute, a completed write to      *)
(* Deliver, a disconnect to Break, the end of the process to Stop, the     *)
(* seed variable to Seed, and every other step to a stutter.               *)
(***************************************************************************)
EXTENDS ServiceOfServer, AnswersProofs, WellFoundedInduction

LEMMA LeastNat ==
  ASSUME NEW T, T \subseteq Nat, T # {}
  PROVE  \E x \in T : \A y \in T : x <= y
<1> DEFINE R == {ss \in Nat \X Nat : ss[1] < ss[2]}
<1>1. IsWellFoundedOn(R, Nat)
  BY NatLessThanWellFounded DEF OpToRel
<1>2. PICK x \in T : \A y \in T : ~(<<y, x>> \in R)
  BY <1>1, WFMin
<1>3. ASSUME NEW y \in T PROVE x <= y
  <2>1. ~(<<y, x>> \in R)
    BY <1>2
  <2>2. ~(y < x)
    BY <2>1
  <2> QED BY <2>2
<1> QED BY <1>3

(* f[n] are the requests that are whole in the first n tokens of s.        *)
Collects(f, s) ==
  /\ f[0] = <<>>
  /\ \A n \in 1..Len(s) :
       f[n] = IF EndsMessage(s[n]) THEN Append(f[n - 1], s[n].of) ELSE f[n - 1]

LEMMA OneCollects ==
  ASSUME NEW s, Len(s) \in Nat, NEW f, NEW g, Collects(f, s), Collects(g, s)
  PROVE  f[Len(s)] = g[Len(s)]
<1> DEFINE T == {n \in 0..Len(s) : f[n] # g[n]}
<1>1. SUFFICES ASSUME T # {} PROVE FALSE
  OBVIOUS
<1>2. PICK n \in T : \A m \in T : n <= m
  <2>1. T \subseteq Nat
    OBVIOUS
  <2> HIDE DEF T
  <2> QED BY <1>1, <2>1, LeastNat
<1>3. n # 0
  BY DEF Collects
<1>4. n - 1 \in 0..Len(s) /\ n - 1 \notin T /\ n \in 1..Len(s)
  BY <1>2, <1>3
<1>5. f[n - 1] = g[n - 1]
  BY <1>4
<1> QED BY <1>4, <1>5 DEF Collects

LEMMA WholeIs ==
  ASSUME NEW s, Len(s) \in Nat, NEW f, Collects(f, s)
  PROVE  Whole(s) = f[Len(s)]
<1> DEFINE R(g) == g = [n \in 0..Len(s) |->
              IF n = 0 THEN <<>>
              ELSE IF EndsMessage(s[n]) THEN Append(g[n - 1], s[n].of)
              ELSE g[n - 1]]
           h == [n \in 0..Len(s) |-> f[n]]
           w == CHOOSE g : R(g)
<1>1. R(h)
  <2>1. \A n \in 1..Len(s) : n - 1 \in 0..Len(s)
    OBVIOUS
  <2> QED BY <2>1 DEF Collects
<1>2. R(w)
  <2> HIDE DEF h, R
  <2> QED BY <1>1, Zenon
<1>3. Whole(s) = w[Len(s)]
  BY Zenon DEF Whole
<1> HIDE DEF w
<1>4. Collects(w, s)
  <2>1. \A n \in 1..Len(s) : n - 1 \in 0..Len(s) /\ n \in 0..Len(s) /\ n # 0
    OBVIOUS
  <2>2. \A n \in 0..Len(s) :
          w[n] = IF n = 0 THEN <<>>
                 ELSE IF EndsMessage(s[n]) THEN Append(w[n - 1], s[n].of)
                 ELSE w[n - 1]
    BY <1>2, Zenon
  <2>3. 0 \in 0..Len(s)
    OBVIOUS
  <2> QED BY <2>1, <2>2, <2>3 DEF Collects
<1> QED BY <1>3, <1>4, OneCollects
-----------------------------------------------------------------------------
(* Slices of a sequence of requests.                                       *)

LEMMA SliceFacts ==
  ASSUME NEW q \in Seq(Requests), NEW a \in Nat \ {0}, NEW m \in Nat,
         a <= m + 1, m <= Len(q)
  PROVE  /\ SubSeq(q, a, m) \in Seq(Requests)
         /\ Len(SubSeq(q, a, m)) = m + 1 - a
         /\ \A i \in 1..(m + 1 - a) : SubSeq(q, a, m)[i] = q[i + a - 1]
<1>1. /\ SubSeq(q, a, m) = [i \in 1..(m - a + 1) |-> q[i + a - 1]]
      /\ m - a + 1 = m + 1 - a /\ m + 1 - a \in Nat
  OBVIOUS
<1>2. \A i \in 1..(m + 1 - a) : i + a - 1 \in 1..Len(q)
  OBVIOUS
<1>3. \A i \in 1..(m + 1 - a) : q[i + a - 1] \in Requests
  BY <1>2
<1> QED BY <1>1, <1>3

LEMMA SliceAppend ==
  ASSUME NEW q \in Seq(Requests), NEW a \in Nat \ {0}, NEW m \in Nat,
         a <= m, m <= Len(q)
  PROVE  SubSeq(q, a, m) = Append(SubSeq(q, a, m - 1), q[m])
<1>1. a \in 1..Len(q) /\ m \in a..Len(q) /\ q[m] \in Requests
  OBVIOUS
<1>2. SubSeq(q, a, m) = SubSeq(q, a, m - 1) \o <<q[m]>>
  BY <1>1, SubSeqRecursiveSecond
<1>3. SubSeq(q, a, m - 1) \in Seq(Requests)
  <2>1. \A i \in a..(m - 1) : q[i] \in Requests
    OBVIOUS
  <2> QED BY <2>1, SubSeqProperties
<1> QED BY <1>1, <1>2, <1>3, AppendIsConcat

LEMMA SliceTail ==
  ASSUME NEW q \in Seq(Requests), NEW a \in Nat \ {0}, NEW m \in Nat,
         a <= m, m <= Len(q)
  PROVE  /\ SubSeq(q, a, m) # <<>>
         /\ Head(SubSeq(q, a, m)) = q[a]
         /\ Tail(SubSeq(q, a, m)) = SubSeq(q, a + 1, m)
<1>1. Len(SubSeq(q, a, m)) = m + 1 - a
  BY SliceFacts
<1>2. a \in 1..Len(q) /\ m \in a..Len(q)
  OBVIOUS
<1> QED BY <1>1, <1>2, HeadTailOfSubSeq

LEMMA SlicePrefix ==
  ASSUME NEW q \in Seq(Requests), NEW a \in Nat \ {0}, NEW m \in Nat, NEW j \in Nat,
         a <= j + 1, j <= m, m <= Len(q)
  PROVE  \E k \in 0..Len(SubSeq(q, a, m)) : SubSeq(q, a, j) = SubSeq(SubSeq(q, a, m), 1, k)
<1> DEFINE u == SubSeq(q, a, m)
           v == SubSeq(q, a, j)
           k == j + 1 - a
           w == SubSeq(u, 1, k)
<1> HIDE DEF u, v, k, w
<1>1. /\ u \in Seq(Requests) /\ Len(u) = m + 1 - a
      /\ \A i \in 1..(m + 1 - a) : u[i] = q[i + a - 1]
  <2>1. a <= m + 1
    OBVIOUS
  <2> QED BY <2>1, SliceFacts DEF u
<1>2. /\ v \in Seq(Requests) /\ Len(v) = k
      /\ \A i \in 1..k : v[i] = q[i + a - 1]
  <2>1. j <= Len(q)
    OBVIOUS
  <2> QED BY <2>1, SliceFacts DEF v, k
<1>3. k \in Nat /\ k \in 0..Len(u) /\ 1 \in Nat \ {0} /\ 1 <= k + 1 /\ k + 1 - 1 = k
  BY <1>1 DEF k
<1>4. /\ w \in Seq(Requests) /\ Len(w) = k
      /\ \A i \in 1..k : w[i] = u[i + 1 - 1]
  BY <1>1, <1>3, SliceFacts DEF w
<1>5. \A i \in 1..k : v[i] = w[i]
  <2> TAKE i \in 1..k
  <2>1. i \in 1..(m + 1 - a) /\ i + 1 - 1 = i
    BY <1>3 DEF k
  <2> QED BY <1>1, <1>2, <1>4, <2>1
<1>6. v = w
  BY <1>2, <1>4, <1>5, SeqEqual
<1> QED BY <1>3, <1>6 DEF u, v, w
-----------------------------------------------------------------------------
(* The requests that are whole in a stream are consecutive.                *)

LEMMA EndsLast ==
  ASSUME NEW tok \in Token
  PROVE  EndsMessage(tok) <=> LastPart(tok)
<1>1. tok.of \in AllRequests(Names, Colors, Vals, Clock)
  BY ServerAssumption DEF Token
<1>2. tok.of = GetVariables <=> tok.of.msg_type = "REQUEST_GET_VARIABLES"
  BY <1>1 DEF AllRequests, KnownRequests, AddVar, SaveValue, GetValues, GetVariables, Unlisted, Unknown
<1> QED BY <1>2 DEF EndsMessage, LastPart

(* The number of the last request that is whole in the first n tokens.     *)
LastWhole(s, at, n) == IF LastPart(s[n]) THEN at[n] ELSE at[n] - 1

LEMMA Rising ==
  ASSUME NEW s \in Seq(Token), NEW q \in Seq(Requests), NEW at, Stream(s, q, at),
         NEW i \in 1..Len(s), NEW j \in 1..Len(s), i <= j
  PROVE  /\ at[i] \in 1..Len(q) /\ at[j] \in 1..Len(q)
         /\ at[i] <= at[j]
         /\ LastWhole(s, at, i) <= LastWhole(s, at, j)
<1> DEFINE T == {k \in i..Len(s) : at[k] < at[i]}
<1>1. /\ \A k \in 1..Len(s) : at[k] \in 1..Len(q)
      /\ Len(s) \in Nat /\ Len(q) \in Nat
  BY DEF Stream
<1>2. \A k \in 1..(Len(s) - 1) : at[k + 1] = at[k] \/ (LastPart(s[k]) /\ at[k + 1] = at[k] + 1)
  BY DEF Stream
<1>3. \A k \in 1..(Len(s) - 1) : LastPart(s[k]) => at[k + 1] = at[k] + 1
  BY DEF Stream
<1>4. T = {}
  <2>1. SUFFICES ASSUME T # {} PROVE FALSE
    OBVIOUS
  <2>2. PICK k \in T : \A m \in T : k <= m
    <3>1. T \subseteq Nat
      BY <1>1
    <3> HIDE DEF T
    <3> QED BY <2>1, <3>1, LeastNat
  <2>3. k # i /\ k - 1 \in i..Len(s) /\ k - 1 \in 1..(Len(s) - 1) /\ k - 1 + 1 = k
    BY <1>1, <2>2
  <2>4. ~(at[k - 1] < at[i])
    BY <2>2, <2>3
  <2>5. at[k] = at[k - 1] \/ at[k] = at[k - 1] + 1
    BY <1>2, <2>3
  <2> QED BY <1>1, <2>2, <2>3, <2>4, <2>5
<1>5. \A k \in i..Len(s) : at[i] <= at[k]
  BY <1>1, <1>4
<1>6. CASE i = j
  BY <1>1, <1>6 DEF LastWhole
<1>7. CASE i < j
  <2>1. \A k \in (i + 1)..Len(s) : LastPart(s[i]) => at[i] + 1 <= at[k]
    <3> DEFINE U == {k \in (i + 1)..Len(s) : at[k] < at[i] + 1}
    <3> SUFFICES ASSUME LastPart(s[i]), U # {} PROVE FALSE
      BY <1>1
    <3>1. PICK k \in U : \A m \in U : k <= m
      <4>1. U \subseteq Nat
        BY <1>1
      <4> HIDE DEF U
      <4> QED BY <4>1, LeastNat
    <3>2. k # i + 1
      BY <1>1, <1>3, <1>7
    <3>3. k - 1 \in (i + 1)..Len(s) /\ k - 1 \in 1..(Len(s) - 1) /\ k - 1 + 1 = k
      BY <1>1, <3>1, <3>2
    <3>4. ~(at[k - 1] < at[i] + 1)
      BY <3>1, <3>3
    <3>5. at[k] = at[k - 1] \/ at[k] = at[k - 1] + 1
      BY <1>2, <3>3
    <3>6. k \in 1..Len(s) /\ k - 1 \in 1..Len(s) /\ i \in 1..Len(s)
      BY <1>1, <3>1, <3>3
    <3>7. at[k] < at[i] + 1
      BY <3>1
    <3> HIDE DEF U
    <3>8. at[k] \in Nat /\ at[k - 1] \in Nat /\ at[i] \in Nat
      BY <1>1, <3>6
    <3> QED BY <3>4, <3>5, <3>7, <3>8
  <2>2. at[i] <= at[j] /\ (LastPart(s[i]) => at[i] + 1 <= at[j])
    BY <1>5, <1>7, <2>1
  <2>3. at[i] \in Nat /\ at[j] \in Nat
    BY <1>1
  <2> QED BY <1>1, <2>2, <2>3 DEF LastWhole
<1> QED BY <1>6, <1>7

LEMMA WholeOfStream ==
  ASSUME NEW s \in Seq(Token), NEW q \in Seq(Requests), NEW at, Stream(s, q, at), s # <<>>
  PROVE  /\ Whole(s) = SubSeq(q, at[1], LastWhole(s, at, Len(s)))
         /\ at[1] \in Nat \ {0} /\ LastWhole(s, at, Len(s)) \in Nat
         /\ at[1] <= LastWhole(s, at, Len(s)) + 1
         /\ LastWhole(s, at, Len(s)) <= Len(q)
<1> DEFINE l == Len(s)
           a == at[1]
           e(n) == IF n = 0 THEN a - 1 ELSE LastWhole(s, at, n)
           f == [n \in 0..l |-> SubSeq(q, a, e(n))]
<1>1. l \in Nat \ {0} /\ 1 \in 1..l /\ Len(q) \in Nat
  OBVIOUS
<1>2. \A n \in 1..l : /\ at[n] \in 1..Len(q) /\ a \in 1..Len(q) /\ a <= at[n]
                      /\ s[n] \in Token /\ s[n].of = q[at[n]]
  <2> TAKE n \in 1..l
  <2>1. 1 <= n
    OBVIOUS
  <2>2. at[n] \in 1..Len(q) /\ a \in 1..Len(q) /\ a <= at[n]
    BY <1>1, <2>1, Rising
  <2> QED BY <2>2 DEF Stream
<1>3. \A n \in 1..l : e(n) = IF LastPart(s[n]) THEN at[n] ELSE at[n] - 1
  BY DEF LastWhole
<1>4. \A n \in 1..l : e(n - 1) = at[n] - 1
  <2> TAKE n \in 1..l
  <2>1. CASE n = 1
    BY <2>1
  <2>2. CASE n # 1
    <3>1. n - 1 \in 1..(l - 1) /\ n - 1 + 1 = n /\ n - 1 \in 1..l
      BY <1>1, <2>2
    <3>2. IF LastPart(s[n - 1]) THEN at[n] = at[n - 1] + 1 ELSE at[n] = at[n - 1]
      BY <3>1 DEF Stream
    <3>3. at[n - 1] \in Nat
      BY <1>1, <1>2, <3>1
    <3> HIDE DEF e
    <3> QED BY <1>3, <3>1, <3>2, <3>3
  <2> QED BY <2>1, <2>2
<1> HIDE DEF e
<1>5. Collects(f, s)
  <2>1. f[0] = <<>>
    <3>1. e(0) = a - 1 /\ a \in Nat \ {0}
      BY <1>1, <1>2 DEF e
    <3>2. f[0] = SubSeq(q, a, a - 1)
      BY <1>1, <3>1
    <3>3. a - 1 \in Nat /\ a <= (a - 1) + 1 /\ a - 1 <= Len(q) /\ (a - 1) + 1 - a = 0
      BY <1>1, <1>2
    <3>4. SubSeq(q, a, a - 1) \in Seq(Requests) /\ Len(SubSeq(q, a, a - 1)) = 0
      <4> DEFINE b == a - 1
      <4>1. b \in Nat /\ a <= b + 1 /\ b <= Len(q) /\ b + 1 - a = 0
        BY <3>3
      <4> HIDE DEF b, a
      <4>2. SubSeq(q, a, b) \in Seq(Requests) /\ Len(SubSeq(q, a, b)) = 0
        BY <3>1, <4>1, SliceFacts
      <4> QED BY <4>2 DEF b
    <3> QED BY <3>2, <3>4, EmptySeq
  <2>2. ASSUME NEW n \in 1..l
        PROVE  f[n] = IF EndsMessage(s[n]) THEN Append(f[n - 1], s[n].of) ELSE f[n - 1]
    <3>1. f[n] = SubSeq(q, a, e(n)) /\ f[n - 1] = SubSeq(q, a, at[n] - 1)
      <4>1. n \in 0..l /\ n - 1 \in 0..l
        BY <1>1
      <4> QED BY <1>4, <4>1
    <3>2. EndsMessage(s[n]) <=> LastPart(s[n])
      BY <1>2, EndsLast
    <3>3. a \in Nat \ {0} /\ at[n] \in Nat /\ a <= at[n] /\ at[n] <= Len(q)
      BY <1>1, <1>2
    <3>4. SubSeq(q, a, at[n]) = Append(SubSeq(q, a, at[n] - 1), q[at[n]])
      BY <3>3, SliceAppend
    <3> HIDE DEF f, a
    <3> QED BY <1>2, <1>3, <3>1, <3>2, <3>4
  <2> QED BY <2>1, <2>2 DEF Collects
<1>6. Whole(s) = f[l]
  <2> HIDE DEF f
  <2> QED BY <1>1, <1>5, WholeIs
<1>7. f[l] = SubSeq(q, a, LastWhole(s, at, l))
  <2>1. l \in 0..l /\ l # 0
    BY <1>1
  <2> HIDE DEF l
  <2> QED BY <2>1 DEF e
<1>8. LastWhole(s, at, l) \in Nat /\ a \in Nat \ {0} /\ a <= LastWhole(s, at, l) + 1
      /\ LastWhole(s, at, l) <= Len(q)
  <2>1. l \in 1..l
    BY <1>1
  <2> QED BY <1>1, <1>2, <2>1 DEF LastWhole
<1> QED BY <1>6, <1>7, <1>8


LEMMA WholeOfNone == Whole(<<>>) = <<>>
<1> DEFINE f == [n \in {0} |-> <<>>]
<1>1. Collects(f, <<>>) /\ Len(<<>>) = 0 /\ f[0] = <<>>
  BY DEF Collects
<1> HIDE DEF f
<1>2. Whole(<<>>) = f[Len(<<>>)]
  BY <1>1, WholeIs
<1> QED BY <1>1, <1>2

LEMMA WholeType ==
  ASSUME NEW s \in Seq(Token), NEW q \in Seq(Requests), NEW at, Stream(s, q, at)
  PROVE  Whole(s) \in Seq(Requests)
<1>1. CASE s = <<>>
  BY <1>1, WholeOfNone, EmptySeq
<1>2. CASE s # <<>>
  <2> DEFINE a == at[1]
             m == LastWhole(s, at, Len(s))
  <2>1. Whole(s) = SubSeq(q, a, m) /\ a \in Nat \ {0} /\ m \in Nat /\ a <= m + 1 /\ m <= Len(q)
    BY <1>2, WholeOfStream
  <2> HIDE DEF a, m
  <2> QED BY <2>1, SliceFacts
<1> QED BY <1>1, <1>2

(* Reading the last token of a request takes it out, reading another one   *)
(* changes nothing.                                                        *)
LEMMA WholeTail ==
  ASSUME NEW s \in Seq(Token), NEW q \in Seq(Requests), NEW at, Stream(s, q, at), s # <<>>
  PROVE  IF LastPart(s[1])
         THEN /\ Whole(s) # <<>>
              /\ Head(Whole(s)) = s[1].of
              /\ Tail(Whole(s)) = Whole(Tail(s))
         ELSE Whole(Tail(s)) = Whole(s)
<1> DEFINE l == Len(s)
           t == Tail(s)
           at2 == [i \in 1..(l - 1) |-> at[i + 1]]
           a == at[1]
           m == LastWhole(s, at, l)
<1>1. /\ l \in Nat \ {0} /\ t \in Seq(Token) /\ Len(t) = l - 1
      /\ \A i \in 1..(l - 1) : t[i] = s[i + 1]
      /\ t = <<>> <=> l = 1
  BY TailFacts
<1>2. Stream(t, q, at2)
  BY StreamTail
<1>3. /\ Whole(s) = SubSeq(q, a, m)
      /\ a \in Nat \ {0} /\ m \in Nat /\ a <= m + 1 /\ m <= Len(q)
  BY WholeOfStream
<1>4. s[1].of = q[a]
  BY <1>1 DEF Stream
<1>5. m = IF LastPart(s[l]) THEN at[l] ELSE at[l] - 1
  BY DEF LastWhole
<1>6. CASE l = 1
  <2>1. Whole(t) = <<>>
    BY <1>1, <1>6, WholeOfNone
  <2>2. m = IF LastPart(s[1]) THEN a ELSE a - 1
    BY <1>5, <1>6
  <2> HIDE DEF l, t, m, a
  <2>3. CASE LastPart(s[1])
    <3>1. m = a /\ m < a + 1
      BY <1>3, <2>2, <2>3
    <3>2. SubSeq(q, a + 1, m) = <<>>
      BY <1>3, <3>1, SubSeqEmpty
    <3>3. /\ Whole(s) # <<>>
          /\ Head(Whole(s)) = q[a]
          /\ Tail(Whole(s)) = SubSeq(q, a + 1, m)
      BY <1>3, <3>1, SliceTail
    <3> QED BY <1>4, <2>1, <2>3, <3>2, <3>3 DEF t
  <2>4. CASE ~LastPart(s[1])
    <3>1. m < a
      BY <1>3, <2>2, <2>4
    <3>2. SubSeq(q, a, m) = <<>>
      BY <1>3, <3>1, SubSeqEmpty
    <3> QED BY <1>3, <2>1, <2>4, <3>2 DEF t
  <2> QED BY <2>3, <2>4
<1>7. CASE l # 1
  <2>1. 1 \in 1..(l - 1) /\ l - 1 \in 1..(l - 1) /\ 1 + 1 = 2 /\ l - 1 + 1 = l
    BY <1>1, <1>7
  <2>2. t[l - 1] = s[l] /\ at2[1] = at[2] /\ at2[l - 1] = at[l]
    BY <1>1, <2>1
  <2> HIDE DEF l, t, at2
  <2>3. LastWhole(t, at2, Len(t)) = m
    BY <1>1, <1>5, <2>2 DEF LastWhole
  <2>4. t # <<>>
    BY <1>1, <1>7
  <2>5. Whole(t) = SubSeq(q, at[2], m)
    BY <1>1, <1>2, <2>2, <2>3, <2>4, WholeOfStream
  <2>6. IF LastPart(s[1]) THEN at[2] = a + 1 ELSE at[2] = a
    BY <2>1 DEF Stream, l
  <2>7. CASE LastPart(s[1])
    <3>1. a <= m
      <4>1. /\ 1 \in 1..Len(s) /\ l \in 1..Len(s) /\ 1 <= l
        BY <1>1 DEF l
      <4>2. LastWhole(s, at, 1) <= LastWhole(s, at, l)
        BY <4>1, Rising
      <4>3. LastWhole(s, at, 1) = a
        BY <2>7 DEF LastWhole
      <4> QED BY <4>2, <4>3
    <3> HIDE DEF a, m
    <3>2. /\ Whole(s) # <<>>
          /\ Head(Whole(s)) = q[a]
          /\ Tail(Whole(s)) = SubSeq(q, a + 1, m)
      BY <1>3, <3>1, SliceTail
    <3> QED BY <1>4, <2>5, <2>6, <2>7, <3>2 DEF t
  <2>8. CASE ~LastPart(s[1])
    BY <1>3, <2>5, <2>6, <2>8 DEF t
  <2> QED BY <2>7, <2>8
<1> QED BY <1>6, <1>7

(* What is left of a stream that is cut has the first of its requests.     *)
LEMMA WholePrefix ==
  ASSUME NEW s \in Seq(Token), NEW q \in Seq(Requests), NEW at, Stream(s, q, at),
         NEW j \in 0..Len(s)
  PROVE  \E k \in 0..Len(Whole(s)) : Whole(SubSeq(s, 1, j)) = SubSeq(Whole(s), 1, k)
<1> DEFINE t == SubSeq(s, 1, j)
           at2 == [i \in 1..j |-> at[i]]
<1>1. t \in Seq(Token) /\ Len(t) = j /\ \A i \in 1..j : t[i] = s[i]
  BY PrefixFacts
<1>2. Stream(t, q, at2)
  BY StreamPrefix
<1>3. Whole(s) \in Seq(Requests)
  BY WholeType
<1>4. CASE j = 0
  <2>1. Whole(t) = <<>>
    <3>1. t = <<>>
      BY <1>1, <1>4, EmptySeq
    <3> HIDE DEF t
    <3> QED BY <3>1, WholeOfNone
  <2>2. SubSeq(Whole(s), 1, 0) = <<>> /\ 0 \in 0..Len(Whole(s))
    BY <1>3, SubSeqEmpty
  <2> QED BY <2>1, <2>2
<1>5. CASE j # 0
  <2> DEFINE a == at[1]
             l == Len(s)
             m == LastWhole(s, at, l)
             n == LastWhole(s, at, j)
  <2>1. l \in Nat /\ j \in 1..l /\ l \in 1..l /\ j \in 1..j /\ 1 \in 1..j /\ j <= l /\ s # <<>>
    BY <1>5
  <2>2. at2[1] = a /\ at2[j] = at[j] /\ t[j] = s[j]
    BY <1>1, <2>1
  <2>3. Whole(s) = SubSeq(q, a, m) /\ a \in Nat \ {0} /\ m \in Nat /\ m <= Len(q)
    BY <2>1, WholeOfStream
  <2> HIDE DEF t, at2
  <2>4. LastWhole(t, at2, Len(t)) = n /\ t # <<>>
    BY <1>1, <1>5, <2>2 DEF LastWhole
  <2>5. Whole(t) = SubSeq(q, a, n) /\ n \in Nat /\ a <= n + 1
    BY <1>1, <1>2, <2>2, <2>4, WholeOfStream
  <2>6. n <= m
    BY <2>1, Rising
  <2> HIDE DEF a, m, n
  <2>7. \E k \in 0..Len(SubSeq(q, a, m)) : SubSeq(q, a, n) = SubSeq(SubSeq(q, a, m), 1, k)
    BY <2>3, <2>5, <2>6, SlicePrefix
  <2> QED BY <2>3, <2>5, <2>7 DEF t
<1> QED BY <1>4, <1>5

(* A request that is sent comes last.                                      *)
LEMMA WholeGrown ==
  ASSUME NEW s \in Seq(Token), NEW q \in Seq(Requests), NEW at, Stream(s, q, at),
         NEW req \in Requests,
         s # <<>> => LastPart(s[Len(s)]) /\ at[Len(s)] = Len(q)
  PROVE  Whole(s \o Frame(req)) = Append(Whole(s), req)
<1> DEFINE t == s \o Frame(req)
           q2 == Append(q, req)
           at2 == [i \in 1..Len(t) |-> IF i <= Len(s) THEN at[i] ELSE Len(q) + 1]
           b == Len(q)
<1>1. /\ Stream(t, q2, at2)
      /\ t \in Seq(Token) /\ t # <<>> /\ Len(t) > Len(s)
      /\ LastPart(t[Len(t)])
  BY StreamGrow
<1>2. /\ q2 \in Seq(Requests) /\ Len(q2) = b + 1 /\ q2[b + 1] = req /\ b \in Nat
      /\ \A i \in 1..b : q2[i] = q[i]
  BY AppendRow
<1>3. /\ Len(t) \in 1..Len(t) /\ 1 \in 1..Len(t) /\ ~(Len(t) <= Len(s)) /\ Len(s) \in Nat
  <2>1. Len(t) \in Nat /\ Len(s) \in Nat
    BY <1>1
  <2> HIDE DEF t
  <2> QED BY <1>1, <2>1
<1>4. at2[Len(t)] = b + 1 /\ at2[1] = IF 1 <= Len(s) THEN at[1] ELSE b + 1
  BY <1>3
<1> HIDE DEF t, q2, at2, b
<1>5. LastWhole(t, at2, Len(t)) = b + 1
  BY <1>1, <1>4 DEF LastWhole
<1>6. Whole(t) = SubSeq(q2, at2[1], b + 1) /\ at2[1] \in Nat \ {0}
  <2>1. Whole(t) = SubSeq(q2, at2[1], LastWhole(t, at2, Len(t))) /\ at2[1] \in Nat \ {0}
    BY <1>1, <1>2, WholeOfStream
  <2> QED BY <1>5, <2>1
<1>7. ASSUME NEW a \in Nat \ {0}, a <= b + 1
      PROVE  SubSeq(q2, a, b + 1) = Append(SubSeq(q, a, b), req)
  <2>1. SubSeq(q2, a, b + 1) = Append(SubSeq(q2, a, b), req)
    <3>1. b + 1 \in Nat /\ b + 1 <= Len(q2) /\ b + 1 - 1 = b
      BY <1>2
    <3> QED BY <1>2, <1>7, <3>1, SliceAppend
  <2>2. SubSeq(q2, a, b) = SubSeq(q, a, b)
    <3>1. /\ SubSeq(q2, a, b) \in Seq(Requests)
          /\ Len(SubSeq(q2, a, b)) = b + 1 - a
          /\ \A i \in 1..(b + 1 - a) : SubSeq(q2, a, b)[i] = q2[i + a - 1]
      BY <1>2, <1>7, SliceFacts
    <3>2. /\ SubSeq(q, a, b) \in Seq(Requests)
          /\ Len(SubSeq(q, a, b)) = b + 1 - a
          /\ \A i \in 1..(b + 1 - a) : SubSeq(q, a, b)[i] = q[i + a - 1]
      BY <1>2, <1>7, SliceFacts DEF b
    <3>3. \A i \in 1..(b + 1 - a) : i + a - 1 \in 1..b
      BY <1>2, <1>7
    <3> QED BY <1>2, <3>1, <3>2, <3>3, SeqEqual
  <2> QED BY <2>1, <2>2
<1>8. CASE s = <<>>
  <2>1. at2[1] = b + 1
    BY <1>4, <1>8
  <2>2. SubSeq(q, b + 1, b) = <<>>
    BY <1>2, SubSeqEmpty
  <2>3. SubSeq(q2, b + 1, b + 1) = Append(SubSeq(q, b + 1, b), req)
    <3>1. b + 1 \in Nat \ {0} /\ b + 1 <= b + 1
      BY <1>2
    <3> QED BY <1>7, <3>1
  <2>4. Whole(t) = Append(<<>>, req)
    BY <1>6, <2>1, <2>2, <2>3
  <2> QED BY <1>8, <2>4, WholeOfNone DEF t
<1>9. CASE s # <<>>
  <2>1. at2[1] = at[1]
    BY <1>3, <1>4, <1>9
  <2>2. LastWhole(s, at, Len(s)) = b
    BY <1>9 DEF LastWhole, b
  <2>3. Whole(s) = SubSeq(q, at[1], b) /\ at[1] \in Nat \ {0} /\ at[1] <= b + 1
    BY <1>9, <2>2, WholeOfStream
  <2> QED BY <1>6, <1>7, <2>1, <2>3 DEF t
<1> QED BY <1>8, <1>9
-----------------------------------------------------------------------------
(* What Service sees of the server's state.                                *)
Link == [c \in Conns |-> IF conn[c] \in {"none", "open"} THEN conn[c] ELSE "broken"]
Owed == [c \in Conns |-> Executable(c)]
Held == [c \in Conns |-> BeingWritten(c)]

(* Service sees nothing of what happens at the connection c.               *)
Quiet(c) == Link'[c] = Link[c] /\ Owed'[c] = Owed[c] /\ Held'[c] = Held[c]

IsFcn(f) == f = [d \in Conns |-> f[d]]

LEMMA AllFcns == IsFcn(Link) /\ IsFcn(Owed) /\ IsFcn(Held)
                 /\ IsFcn(Link') /\ IsFcn(Owed') /\ IsFcn(Held')
BY DEF IsFcn, Link, Owed, Held

LEMMA SameFcn ==
  ASSUME NEW f, NEW g, IsFcn(f), IsFcn(g), \A d \in Conns : g[d] = f[d]
  PROVE  g = f
BY DEF IsFcn

LEMMA OneChanged ==
  ASSUME NEW f, NEW g, IsFcn(f), IsFcn(g), NEW c \in Conns, NEW x,
         \A d \in Conns \ {c} : g[d] = f[d], g[c] = x
  PROVE  g = [f EXCEPT ![c] = x]
BY DEF IsFcn

LEMMA QuietFcns ==
  ASSUME \A d \in Conns : Quiet(d)
  PROVE  Link' = Link /\ Owed' = Owed /\ Held' = Held
BY AllFcns, SameFcn DEF Quiet

LEMMA OwedChanged ==
  ASSUME NEW c \in Conns, NEW x, \A d \in Conns \ {c} : Owed'[d] = Owed[d], Owed'[c] = x
  PROVE  Owed' = [Owed EXCEPT ![c] = x]
BY AllFcns, OneChanged

(* A step that Service does not see.                                       *)
LEMMA Stutters ==
  ASSUME \A d \in Conns : Quiet(d), UNCHANGED <<sent, replies>>,
         Registry' = Registry, Readings' = Readings
  PROVE  UNCHANGED Svc!vars
<1>1. Link' = Link /\ Owed' = Owed /\ Held' = Held
  BY QuietFcns
<1> QED BY <1>1 DEF Svc!vars, Svc!logVars, Svc!linkVars, Link, Owed, Held, Registry, Readings

LEMMA SameLog ==
  ASSUME UNCHANGED dbVars \/ UNCHANGED <<variable, variable_value>>
  PROVE  Registry' = Registry /\ Readings' = Readings
BY DEF dbVars, Registry, Readings, VariableIds, ValueIds, NameOf

LEMMA OwedAt ==
  ASSUME NEW c \in Conns
  PROVE  /\ Link[c] = IF conn[c] \in {"none", "open"} THEN conn[c] ELSE "broken"
         /\ Link'[c] = IF conn'[c] \in {"none", "open"} THEN conn'[c] ELSE "broken"
         /\ Owed[c] = (IF phase[c] = "body" /\ work[c] = GetVariables
                       THEN <<work[c]>> ELSE <<>>) \o Whole(inbox[c])
         /\ Owed'[c] = (IF phase'[c] = "body" /\ work'[c] = GetVariables
                        THEN <<work'[c]>> ELSE <<>>) \o Whole(inbox'[c])
         /\ Held[c] = IF phase[c] = "write" /\ conn[c] = "open" THEN <<work[c]>> ELSE <<>>
         /\ Held'[c] = IF phase'[c] = "write" /\ conn'[c] = "open" THEN <<work'[c]>> ELSE <<>>
BY DEF Link, Owed, Held, Executable, BeingWritten

LEMMA UntouchedQuiet == ASSUME NEW c \in Conns, Untouched(c) PROVE Quiet(c)
BY OwedAt DEF Untouched, Quiet

(* The stream of a connection between two steps.                           *)
LEMMA StreamOf ==
  ASSUME IInv, NEW c \in Conns, NEW k, SessionInv(c, k)
  PROVE  /\ inbox[c] \in Seq(Token) /\ sent[c] \in Seq(Requests)
         /\ \E at : /\ Stream(inbox[c], sent[c], at)
                    /\ inbox[c] # <<>> /\ conn[c] = "open" =>
                         /\ LastPart(inbox[c][Len(inbox[c])])
                         /\ at[Len(inbox[c])] = Len(sent[c])
BY DEF IInv, SessionsType, HistoryType, SessionInv, StreamInv

LEMMA OwedType ==
  ASSUME IInv, NEW c \in Conns, NEW k, SessionInv(c, k)
  PROVE  Whole(inbox[c]) \in Seq(Requests)
<1>1. PICK at : Stream(inbox[c], sent[c], at)
  BY StreamOf
<1> QED BY <1>1, StreamOf, WholeType

(* The session reads a token.                                              *)
LEMMA TokenRead ==
  ASSUME IInv, NEW c \in Conns, NEW k, SessionInv(c, k), NEW part, Has(c, part), Consume(c)
  PROVE  /\ inbox[c][1] \in Token /\ inbox[c][1].part = part /\ Head(inbox[c]) = inbox[c][1]
         /\ IF LastPart(inbox[c][1])
            THEN /\ Whole(inbox[c]) # <<>>
                 /\ Head(Whole(inbox[c])) = inbox[c][1].of
                 /\ Tail(Whole(inbox[c])) = Whole(inbox'[c])
            ELSE Whole(inbox'[c]) = Whole(inbox[c])
<1>1. /\ inbox[c] # <<>> /\ Head(inbox[c]) = inbox[c][1]
      /\ inbox[c][1] \in Token /\ inbox[c][1].part = part
  BY HasFirst DEF IInv
<1>2. inbox'[c] = Tail(inbox[c])
  BY <1>1, ConsumeAt DEF IInv
<1>3. PICK at : Stream(inbox[c], sent[c], at)
  BY StreamOf
<1>4. IF LastPart(inbox[c][1])
      THEN /\ Whole(inbox[c]) # <<>>
           /\ Head(Whole(inbox[c])) = inbox[c][1].of
           /\ Tail(Whole(inbox[c])) = Whole(Tail(inbox[c]))
      ELSE Whole(Tail(inbox[c])) = Whole(inbox[c])
  BY <1>1, <1>3, StreamOf, WholeTail
<1> QED BY <1>1, <1>2, <1>4
-----------------------------------------------------------------------------
(* Steps of a session between two executions.                              *)

LEMMA MetaHeaderQuiet ==
  ASSUME IInv, NEW c \in Conns, NEW k, SessionInv(c, k), ReadMetaHeader(c)
  PROVE  Quiet(c)
<1>1. /\ phase[c] = "mh" /\ phase'[c] = "h" /\ conn' = conn
      /\ Has(c, "MetaHeader") /\ Consume(c)
  BY StepAt DEF ReadMetaHeader, IInv
<1>2. Whole(inbox'[c]) = Whole(inbox[c])
  <2>1. inbox[c][1].part = "MetaHeader"
    BY <1>1, TokenRead
  <2>2. ~LastPart(inbox[c][1])
    BY <2>1 DEF LastPart
  <2> QED BY <1>1, <2>2, TokenRead
<1> QED BY <1>1, <1>2, OwedAt DEF Quiet

(* A GET_VARIABLES whose header is read is as good as in the stream.       *)
LEMMA HeaderQuiet ==
  ASSUME IInv, NEW c \in Conns, NEW k, SessionInv(c, k), ReadHeader(c), Requests \subseteq Understood
  PROVE  Quiet(c)
<1> DEFINE tok == inbox[c][1]
           w == Whole(inbox[c])
<1>1. phase[c] = "h" /\ conn' = conn /\ Has(c, "Header") /\ Consume(c)
  BY DEF ReadHeader
<1>2. tok \in Token /\ tok.part = "Header" /\ Head(inbox[c]) = tok /\ tok.of \in Requests
  BY <1>1, TokenRead DEF Token
<1>3. phase'[c] = "body" /\ work'[c] = tok.of
  BY <1>2, ReadAsSent, StepAt DEF ReadHeader, IInv
<1>4. LastPart(tok) <=> tok.of = GetVariables
  BY <1>2, EndsLast DEF EndsMessage
<1>5. w \in Seq(Requests)
  BY OwedType
<1>6. Owed'[c] = Owed[c]
  <2>1. Owed[c] = <<>> \o w
    BY <1>1, OwedAt
  <2>2. CASE LastPart(tok)
    <3>1. w # <<>> /\ Head(w) = tok.of /\ Tail(w) = Whole(inbox'[c])
      BY <1>1, <2>2, TokenRead
    <3>2. Owed'[c] = <<tok.of>> \o Whole(inbox'[c])
      BY <1>3, <1>4, <2>2, OwedAt
    <3> HIDE DEF w, tok
    <3>3. w = <<Head(w)>> \o Tail(w)
      BY <1>5, <3>1
    <3>4. <<>> \o w = w
      BY <1>5, ConcatEmptySeq
    <3> QED BY <2>1, <3>1, <3>2, <3>3, <3>4
  <2>3. CASE ~LastPart(tok)
    <3>1. Whole(inbox'[c]) = w
      BY <1>1, <2>3, TokenRead
    <3>2. Owed'[c] = <<>> \o Whole(inbox'[c])
      BY <1>3, <1>4, <2>3, OwedAt
    <3> QED BY <2>1, <3>1, <3>2
  <2> QED BY <2>2, <2>3
<1> QED BY <1>1, <1>3, <1>6, OwedAt DEF Quiet

(* Accepting, ends of streams and writes nobody receives.                  *)
LEMMA OtherQuiet ==
  ASSUME IInv, NEW c \in Conns,
         \/ Accept(c) \/ HeaderReadFailed(c) \/ BodyReadFailed(c) \/ WriteFailed(c)
         \/ WriteDone(c) /\ conn[c] # "open"
  PROVE  Quiet(c)
<1>1. conn' = conn /\ inbox' = inbox
  BY DEF Accept, HeaderReadFailed, BodyReadFailed, WriteFailed, WriteDone
<1>2. phase[c] = "body" => work[c] # GetVariables
  BY DEF Accept, HeaderReadFailed, BodyReadFailed, WriteFailed, WriteDone, GetVariables
<1>4. \E p, w : Step(c, p, w) /\ p # "body" /\ (p = "write" => conn[c] \in {"fin", "rst"})
  <2>1. ASSUME NEW p, NEW w, Step(c, p, w), p # "body", p = "write" => conn[c] \in {"fin", "rst"}
        PROVE  \E x, y : Step(c, x, y) /\ x # "body" /\ (x = "write" => conn[c] \in {"fin", "rst"})
    BY <2>1, Zenon
  <2>2. CASE Accept(c) \/ BodyReadFailed(c) \/ WriteDone(c)
    <3>1. Step(c, "mh", Idle) \/ Step(c, "gone", Idle)
      BY <2>2 DEF Accept, BodyReadFailed, WriteDone
    <3> QED BY <2>1, <3>1
  <2>3. CASE HeaderReadFailed(c) \/ WriteFailed(c)
    <3>1. Step(c, "write", Failed) /\ conn[c] \in {"fin", "rst"}
      BY <2>3 DEF HeaderReadFailed, WriteFailed, Respond, ReadError
    <3> QED BY <2>1, <3>1
  <2> QED BY <2>2, <2>3
<1>5. PICK p, w : Step(c, p, w) /\ p # "body" /\ (p = "write" => conn[c] \in {"fin", "rst"})
  BY <1>4
<1>6. phase'[c] = p /\ work'[c] = w
  BY <1>5, StepAt DEF IInv
<1>7. phase[c] = "write" => conn[c] # "open"
  BY DEF Accept, HeaderReadFailed, BodyReadFailed, WriteFailed, WriteDone
<1> QED BY <1>1, <1>2, <1>5, <1>6, <1>7, OwedAt DEF Quiet
-----------------------------------------------------------------------------
(* The steps of clients and of the network.                                *)

LEMMA ConnectOpens ==
  ASSUME IInv, NEW c \in Conns, NEW k, SessionInv(c, k), Connect(c),
         \A d \in Conns \ {c} : Quiet(d)
  PROVE  Svc!Open(c)
<1>1. /\ conn[c] = "none" /\ conn'[c] = "open" /\ phase[c] = "unborn" /\ phase'[c] = "unborn"
      /\ UNCHANGED <<dbVars, inbox, sent, replies>>
  BY DEF Connect, history, IInv, SessionsType, SessionInv
<1>2. Link[c] = "none" /\ Link'[c] = "open" /\ Owed'[c] = Owed[c] /\ Held'[c] = Held[c]
  BY <1>1, OwedAt
<1>3. Link' = [Link EXCEPT ![c] = "open"]
  BY <1>2, AllFcns, OneChanged DEF Quiet
<1>4. Owed' = Owed /\ Held' = Held
  BY <1>2, AllFcns, SameFcn DEF Quiet
<1>5. Registry' = Registry /\ Readings' = Readings
  BY <1>1, SameLog
<1> QED BY <1>1, <1>2, <1>3, <1>4, <1>5
        DEF Svc!Open, Svc!logVars, Link, Owed, Held, Registry, Readings

(* The request whose body is read was sent.                                *)
LEMMA BodyAsked ==
  ASSUME IInv, NEW c \in Conns, NEW k, SessionInv(c, k), phase[c] = "body"
  PROVE  work[c] \in Requests
BY DEF IInv, HistoryType, SessionInv

LEMMA SendAsks ==
  ASSUME IInv, NEW c \in Conns, NEW k, SessionInv(c, k), NEW req \in Requests,
         SendRequest(c, req), \A d \in Conns \ {c} : Quiet(d)
  PROVE  Svc!Ask(c, req)
<1> DEFINE w == Whole(inbox[c])
           p == IF phase[c] = "body" /\ work[c] = GetVariables THEN <<work[c]>> ELSE <<>>
<1>1. /\ conn[c] = "open" /\ inbox'[c] = inbox[c] \o Frame(req)
      /\ sent' = [sent EXCEPT ![c] = Append(@, req)]
      /\ UNCHANGED <<dbVars, conn, phase, work, replies>>
  BY DEF SendRequest, IInv, SessionsType
<1>2. Whole(inbox'[c]) = Append(w, req)
  <2>1. PICK at : /\ Stream(inbox[c], sent[c], at)
                  /\ inbox[c] # <<>> =>
                       /\ LastPart(inbox[c][Len(inbox[c])])
                       /\ at[Len(inbox[c])] = Len(sent[c])
    BY <1>1, StreamOf
  <2> QED BY <1>1, <2>1, StreamOf, WholeGrown
<1>3. Owed[c] = p \o w /\ Owed'[c] = p \o Append(w, req)
  BY <1>1, <1>2, OwedAt
<1>4. w \in Seq(Requests) /\ p \in Seq(Requests)
  <2>1. phase[c] = "body" => work[c] \in Requests
    BY BodyAsked
  <2> QED BY <2>1, OwedType
<1> HIDE DEF w, p
<1>5. p \o Append(w, req) = Append(p \o w, req)
  BY <1>4, AppendIsConcat, ConcatAssociative, ConcatProperties
<1>6. Owed'[c] = Append(Owed[c], req)
  BY <1>3, <1>5
<1>7. Link[c] = "open" /\ Link'[c] = Link[c] /\ Held'[c] = Held[c]
  BY <1>1, OwedAt
<1>8. Owed' = [Owed EXCEPT ![c] = Append(Owed[c], req)]
  BY <1>6, AllFcns, OneChanged DEF Quiet
<1>9. Link' = Link /\ Held' = Held
  BY <1>7, AllFcns, SameFcn DEF Quiet
<1>10. Registry' = Registry /\ Readings' = Readings
  BY <1>1, SameLog
<1> QED BY <1>1, <1>7, <1>8, <1>9, <1>10
        DEF Svc!Ask, Svc!logVars, Link, Owed, Held, Registry, Readings

LEMMA DisconnectBreaks ==
  ASSUME IInv, NEW c \in Conns, NEW k, SessionInv(c, k), NEW how, Disconnect(c, how),
         \A d \in Conns \ {c} : Quiet(d)
  PROVE  Svc!Break(c)
<1> DEFINE w == Whole(inbox[c])
           p == IF phase[c] = "body" /\ work[c] = GetVariables THEN <<work[c]>> ELSE <<>>
<1>1. /\ conn[c] \in {"open", "fin"} /\ conn'[c] \in {"fin", "rst"}
      /\ UNCHANGED <<dbVars, phase, work, sent, replies>>
  BY DEF Disconnect, IInv, SessionsType, history
<1>2. PICK j \in 0..Len(inbox[c]) : inbox'[c] = SubSeq(inbox[c], 1, j)
  BY DEF Disconnect, IInv, SessionsType
<1>3. PICK n \in 0..Len(w) : Whole(inbox'[c]) = SubSeq(w, 1, n)
  <2>1. PICK at : Stream(inbox[c], sent[c], at)
    BY StreamOf
  <2> QED BY <1>2, <2>1, StreamOf, WholePrefix
<1>4. Owed[c] = p \o w /\ Owed'[c] = p \o SubSeq(w, 1, n)
  BY <1>1, <1>3, OwedAt
<1>5. w \in Seq(Requests) /\ p \in Seq(Requests)
  <2>1. phase[c] = "body" => work[c] \in Requests
    BY BodyAsked
  <2> QED BY <2>1, OwedType
<1> HIDE DEF w, p
<1>6. PICK m \in 0..Len(Owed[c]) : Owed'[c] = SubSeq(Owed[c], 1, m)
  <2> DEFINE u == p \o w
             v == SubSeq(w, 1, n)
             l == Len(p)
             m == l + n
             x == SubSeq(u, 1, m)
  <2>1. l \in Nat /\ Len(w) \in Nat /\ n \in Nat /\ n <= Len(w) /\ 1 <= n + 1 /\ n + 1 - 1 = n
    BY <1>5
  <2>2. /\ u \in Seq(Requests) /\ Len(u) = l + Len(w)
        /\ \A i \in 1..(l + Len(w)) : u[i] = IF i <= l THEN p[i] ELSE w[i - l]
    BY <1>5, ConcatProperties
  <2>3. /\ v \in Seq(Requests) /\ Len(v) = n /\ \A i \in 1..n : v[i] = w[i]
    <3>1. \A i \in 1..n : v[i] = w[i + 1 - 1] /\ i + 1 - 1 = i
      BY <1>5, <2>1, SliceFacts
    <3> QED BY <1>5, <2>1, <3>1, SliceFacts
  <2>4. m \in 0..Len(u) /\ m \in Nat /\ m <= Len(u) /\ 1 <= m + 1 /\ m + 1 - 1 = m
    BY <2>1, <2>2
  <2> HIDE DEF u, v, l, m
  <2>5. /\ x \in Seq(Requests) /\ Len(x) = m
        /\ \A i \in 1..m : x[i] = u[i + 1 - 1] /\ i + 1 - 1 = i
    BY <2>2, <2>4, SliceFacts
  <2>6. /\ p \o v \in Seq(Requests) /\ Len(p \o v) = m
        /\ \A i \in 1..m : (p \o v)[i] = IF i <= l THEN p[i] ELSE v[i - l]
    BY <1>5, <2>1, <2>3, ConcatProperties DEF l, m
  <2>7. \A i \in 1..m : x[i] = (p \o v)[i]
    <3> TAKE i \in 1..m
    <3>1. i \in 1..(l + Len(w)) /\ x[i] = u[i]
      BY <2>1, <2>5 DEF m
    <3>2. ~(i <= l) => i - l \in 1..n
      BY <2>1 DEF m
    <3> QED BY <2>2, <2>3, <2>6, <3>1, <3>2
  <2> HIDE DEF x
  <2>8. x = p \o v
    BY <2>5, <2>6, <2>7, SeqEqual
  <2> QED BY <1>4, <2>4, <2>8 DEF u, v, x
<1>7. Link[c] # "none" /\ Link'[c] = "broken" /\ Held'[c] = <<>>
  BY <1>1, OwedAt
<1>8. /\ Link' = [Link EXCEPT ![c] = "broken"]
      /\ Held' = [Held EXCEPT ![c] = <<>>]
      /\ Owed' = [Owed EXCEPT ![c] = SubSeq(Owed[c], 1, m)]
  BY <1>6, <1>7, AllFcns, OneChanged DEF Quiet
<1>9. Registry' = Registry /\ Readings' = Readings
  BY <1>1, SameLog
<1> QED BY <1>1, <1>6, <1>7, <1>8, <1>9
        DEF Svc!Break, Svc!logVars, Link, Owed, Held, Registry, Readings

(* The response reaches a client that is still there.                      *)
LEMMA WriteDelivers ==
  ASSUME IInv, NEW c \in Conns, WriteDone(c), conn[c] = "open",
         \A d \in Conns \ {c} : Quiet(d)
  PROVE  Svc!Deliver(c)
<1>1. /\ phase[c] = "write" /\ phase'[c] = "mh" /\ UNCHANGED <<dbVars, conn, inbox, sent>>
      /\ replies' = [replies EXCEPT ![c] = Append(@, work[c])]
  BY StepAt DEF WriteDone, IInv
<1>2. work[c] \in ResponseType /\ replies[c] \in Seq(ResponseType)
  BY <1>1 DEF IInv, SessionsType, HistoryType, WorkFits
<1>3. Link'[c] = Link[c] /\ Owed'[c] = Owed[c] /\ Held[c] = <<work[c]>> /\ Held'[c] = <<>>
  BY <1>1, OwedAt
<1>4. Append(replies[c], work[c]) = replies[c] \o Held[c]
  BY <1>2, <1>3, AppendIsConcat
<1>5. replies' = [replies EXCEPT ![c] = replies[c] \o Held[c]] /\ Held[c] # <<>>
  BY <1>1, <1>3, <1>4
<1>6. Held' = [Held EXCEPT ![c] = <<>>]
  BY <1>3, AllFcns, OneChanged DEF Quiet
<1>7. Link' = Link /\ Owed' = Owed
  BY <1>3, AllFcns, SameFcn DEF Quiet
<1>8. Registry' = Registry /\ Readings' = Readings
  BY <1>1, SameLog
<1> QED BY <1>1, <1>5, <1>6, <1>7, <1>8
        DEF Svc!Deliver, Svc!logVars, Link, Owed, Held, Registry, Readings

(* The process ends, for whatever reason.                                  *)
LEMMA ExitStops ==
  ASSUME IInv, NEW how, Exit(how), UNCHANGED dbVars
  PROVE  Svc!Stop
<1>1. ASSUME NEW c \in Conns
      PROVE  /\ Link'[c] = IF Link[c] = "none" THEN "none" ELSE "broken"
             /\ Owed'[c] = <<>> /\ Held'[c] = <<>>
  <2>1. /\ conn'[c] = IF conn[c] = "none" THEN "none" ELSE "rst"
        /\ inbox'[c] = <<>> /\ phase'[c] \in {"unborn", "gone"}
    BY DEF Exit
  <2>2. <<>> \o <<>> = <<>>
    BY EmptySeq, ConcatEmptySeq
  <2> QED BY <2>1, <2>2, OwedAt, WholeOfNone
<1>2. /\ Link' = [c \in Conns |-> IF Link[c] = "none" THEN "none" ELSE "broken"]
      /\ Owed' = [c \in Conns |-> <<>>] /\ Held' = [c \in Conns |-> <<>>]
  <2>1. Link' = [c \in Conns |-> Link'[c]]
    BY AllFcns DEF IsFcn
  <2>2. Owed' = [c \in Conns |-> Owed'[c]]
    BY AllFcns DEF IsFcn
  <2>3. Held' = [c \in Conns |-> Held'[c]]
    BY AllFcns DEF IsFcn
  <2> QED BY <1>1, <2>1, <2>2, <2>3
<1>3. Registry' = Registry /\ Readings' = Readings /\ UNCHANGED <<sent, replies>>
  BY SameLog DEF Exit, history
<1> QED BY <1>2, <1>3
        DEF Svc!Stop, Svc!logVars, Link, Owed, Held, Registry, Readings
-----------------------------------------------------------------------------
(* Requests are only read while the server runs, on a complete schema: a   *)
(* statement fails because of what it asks for or for no visible reason.   *)
ServedInv ==
  /\ proc \in {"schema", "serving"} => Tables \subseteq tables
  /\ \A c \in Conns : phase[c] \notin {"unborn", "gone"} => proc = "serving"

LEMMA NextServed ==
  ASSUME IInv, ServedInv, Next
  PROVE  ServedInv'
<1>1. ASSUME NEW how, Exit(how), how \notin {"schema", "serving"} PROVE ServedInv'
  BY <1>1 DEF Exit, ServedInv
<1>2. CASE Process
  <2>1. CASE Open
    BY <2>1 DEF Open, Listening, sessionVars, dbVars, ServedInv, IInv, ProcessType
  <2>2. CASE create_scheme
    <3>1. CASE Exit("down")
      BY <1>1, <3>1
    <3>2. CASE ~Exit("down")
      <4>1. /\ proc \in {"opened", "half"} /\ UNCHANGED sessionVars
            /\ proc' \in {"half", "schema"}
            /\ proc' = "schema" => tables' = tables \cup {"VARIABLE_VALUE"} /\ proc = "half"
        BY <2>2, <3>2 DEF create_scheme, CreateStatement, CreateTable
      <4>2. proc = "half" => "VARIABLE" \in tables
        BY DEF IInv, SchemaInv
      <4> QED BY <4>1, <4>2 DEF ServedInv, sessionVars, Tables
    <3> QED BY <3>1, <3>2
  <2>3. CASE Seed
    <3>1. tables' = tables
      BY <2>3 DEF Seed, add_variable, InsertVariable, dbVars
    <3> QED BY <2>3, <3>1 DEF Seed, sessionVars, ServedInv
  <2>4. CASE Crash
    BY <1>1, <2>4 DEF Crash
  <2> QED BY <1>2, <2>1, <2>2, <2>3, <2>4 DEF Process
<1>3. ASSUME NEW c \in Conns, Environment(c) PROVE ServedInv'
  <2>1. phase' = phase /\ proc' = proc
    BY <1>3 DEF Environment, Connect, SendRequest, Disconnect
  <2>2. tables' = tables
    BY <1>3, RequestsKeepSchema DEF IInv
  <2> QED BY <2>1, <2>2 DEF ServedInv
<1>4. ASSUME NEW c \in Conns, Session(c) PROVE ServedInv'
  <2>1. CASE DieInCompress(c)
    BY <1>1, <2>1 DEF DieInCompress
  <2>2. CASE ~DieInCompress(c) /\ ~Astray(c)
    <3>1. tables' = tables
      BY <1>4, RequestsKeepSchema DEF IInv
    <3>2. proc' = proc
      BY <1>4, <2>2
         DEF Session, Database, Accept, ReadMetaHeader, ReadHeader, HeaderReadFailed,
             BodyReadFailed, WriteDone, WriteFailed,
             read_add_variable_request, read_save_value_request,
             read_get_values_request, read_get_variables_request
    <3>3. phase[c] # "unborn" \/ proc = "serving"
      BY <1>4, <2>2
         DEF Session, Database, Accept, ReadMetaHeader, ReadHeader, HeaderReadFailed,
             BodyReadFailed, WriteDone, WriteFailed, BodyRead,
             read_add_variable_request, read_save_value_request,
             read_get_values_request, read_get_variables_request
    <3>4. phase[c] # "gone"
      BY <1>4, <2>2
         DEF Session, Database, Accept, ReadMetaHeader, ReadHeader, HeaderReadFailed,
             BodyReadFailed, WriteDone, WriteFailed, BodyRead,
             read_add_variable_request, read_save_value_request,
             read_get_values_request, read_get_variables_request
    <3>5. \A d \in Conns \ {c} : phase'[d] = phase[d]
      BY <1>4, <2>2, SessionUntouched DEF IInv, Untouched
    <3>6. proc = "serving"
      BY <3>3, <3>4 DEF ServedInv
    <3> QED BY <3>1, <3>2, <3>5, <3>6 DEF ServedInv
  <2>3. CASE Astray(c)
    <3>1. tables' = tables /\ TablesInv'
      BY <1>4, <2>3, RequestsKeepSchema, AstrayStatement, StatementInv DEF IInv
    <3>2. AstrayEffect(c)
      BY <2>3, <3>1, AstrayEffects DEF IInv
    <3>3. proc = "serving"
      BY <2>3 DEF Astray, ReadMisaligned, Misplaced, ReadAstrayBody, AstrayReadFailed,
                  DieAstray, ServedInv
    <3>4. CASE proc' = proc
      BY <3>1, <3>3, <3>4 DEF ServedInv
    <3> QED BY <1>1, <3>2, <3>4 DEF AstrayEffect
  <2> QED BY <2>1, <2>2, <2>3
<1> QED BY <1>2, <1>3, <1>4 DEF Next

LEMMA ServedInvariant == Spec => []ServedInv
<1>1. Init => ServedInv
  BY DEF Init, ServedInv
<1>2. IInv /\ ServedInv /\ [Next]_vars => ServedInv'
  <2>1. UNCHANGED vars /\ ServedInv => ServedInv'
    BY DEF vars, dbVars, sessionVars, ServedInv
  <2> QED BY <2>1, NextServed
<1> QED BY <1>1, <1>2, Invariant, PTL DEF Spec
-----------------------------------------------------------------------------
(* What a handler does to the tables and answers is what Service does to   *)
(* the registry and the log and answers.                                   *)

LEMMA SvcRegister ==
  ASSUME NEW n, Log!Register(n)
  PROVE  Svc!Log!Register(n)
BY DEF Log!Register, Svc!Log!Register, Log!Registered, Svc!Log!Registered

LEMMA SvcLog ==
  ASSUME NEW n, NEW v, NEW t, Log!Log(n, v, t)
  PROVE  Svc!Log!Log(n, v, t)
BY DEF Log!Log, Svc!Log!Log, Log!Registered, Svc!Log!Registered

LEMMA Lengths ==
  ASSUME TablesInv
  PROVE  /\ Len(Registry) = Len(variable) /\ Len(variable) \in Nat
         /\ Len(Readings) = Len(variable_value) /\ Len(variable_value) \in Nat
         /\ DOMAIN Registry = VariableIds /\ DOMAIN Readings = ValueIds
<1>1. Len(variable) \in Nat /\ Len(variable_value) \in Nat
  BY DEF TablesInv, TablesTypeOK
<1> QED BY <1>1 DEF Registry, Readings, VariableIds, ValueIds

LEMMA SvcRegistered ==
  ASSUME TablesInv, NEW n
  PROVE  Svc!Log!Registered(n) <=> SelectId(n) # {}
<1>1. Svc!Log!Registered(n) <=> \E k \in 1..Len(Registry) : Registry[k] = n
  BY DEF Svc!Log!Registered, Registry
<1>2. 1..Len(Registry) = VariableIds /\ \A k \in VariableIds : Registry[k] = variable[k].name
  BY Lengths DEF Registry, VariableIds
<1> QED BY <1>1, <1>2 DEF SelectId

LEMMA AddVariableAnswers ==
  ASSUME TablesInv, Tables \subseteq tables, NEW req \in Understood,
         req.msg_type = "REQUEST_ADD_VAR",
         NEW err \in {"Ok", "Failed"}, add_variable(req.name, req.color, err),
         NEW res, res = IF err = "Ok" THEN OkTo("REQUEST_ADD_VAR", Len(variable')) ELSE Failed
  PROVE  Svc!Answer(req, res) /\ res \in Svc!PossibleAnswers(req)
<1>1. req.name \in Names /\ req.color \in Colors
  BY RequestFields
<1>2. CASE err = "Ok"
  <2>1. InsertVariable(req.name, req.color)
    BY <1>2 DEF add_variable
  <2>2. Svc!Log!Register(req.name)
    BY <1>1, <2>1, RegisterStep, SvcRegister
  <2>3. Len(variable') = Len(Registry) + 1
    <3>1. /\ variable \in Seq(VariableRow)
          /\ [name |-> req.name, color |-> req.color] \in VariableRow
      BY <1>1 DEF TablesInv, TablesTypeOK, VariableRow
    <3>2. variable' = Append(variable, [name |-> req.name, color |-> req.color])
      BY <2>1 DEF InsertVariable
    <3> QED BY <3>1, <3>2, AppendRow, Lengths
  <2>4. res = OkTo("REQUEST_ADD_VAR", Len(Registry) + 1)
    BY <1>2, <2>3
  <2> QED BY <2>2, <2>4
          DEF Svc!Answer, Svc!Register, Svc!PossibleAnswers, Svc!OkTo, OkTo,
              Svc!Response, Response, Registry
<1>3. CASE err = "Failed"
  <2>1. res = Failed /\ UNCHANGED dbVars /\ (SelectId(req.name) # {} \/ IoErrors)
    BY <1>3 DEF add_variable, Fails, CanInsertVariable, Tables
  <2>2. Registry' = Registry /\ Readings' = Readings
    BY <2>1, SameLog
  <2>3. Svc!Log!Registered(req.name) \/ IoErrors
    BY <2>1, SvcRegistered
  <2> QED BY <2>1, <2>2, <2>3
          DEF Svc!Answer, Svc!Register, Svc!Rejected, Svc!PossibleAnswers, Svc!Failed, Failed,
              Svc!Response, Response, Svc!logVars, Registry, Readings
<1> QED BY <1>2, <1>3


LEMMA SaveValueAnswers ==
  ASSUME TablesInv, Tables \subseteq tables, NEW req \in Understood,
         req.msg_type = "REQUEST_SAVE_VALUE",
         NEW err \in {"Ok", "Failed"}, add_variable_value(req.variable, req.value, err),
         NEW res, res = IF err = "Ok" THEN OkTo(Absent, Len(variable_value')) ELSE Failed
  PROVE  Svc!Answer(req, res) /\ res \in Svc!PossibleAnswers(req)
<1> DEFINE n == req.variable
           v == req.value
           Rounded == [x \in Vals \ {NotFinite} |-> ToSixDecimals(x)]
<1>1. n \in Names /\ v \in Vals
  BY RequestFields
<1>2. CASE err = "Ok"
  <2>1. PICK now \in Clock : InsertValue(n, v, now)
    BY <1>2 DEF add_variable_value
  <2>2. v \in DOMAIN Rounded /\ Rounded[v] = ToSixDecimals(v)
    BY <1>1, <2>1 DEF InsertValue, CanInsertValue
  <2>3. Svc!Log!Log(n, ToSixDecimals(v), now)
    BY <1>1, <2>1, LogStep, SvcLog
  <2>4. Len(variable_value') = Len(Readings) + 1
    <3>1. variable_value \in Seq(ValueRow) /\ ValueRowOf(n, v, now) \in ValueRow
      BY <1>1, <2>1, ValueRowType DEF TablesInv, TablesTypeOK, InsertValue
    <3>2. variable_value' = Append(variable_value, ValueRowOf(n, v, now))
      BY <2>1 DEF InsertValue
    <3> QED BY <3>1, <3>2, AppendRow, Lengths
  <2>5. res = OkTo(Absent, Len(Readings) + 1)
    BY <1>2, <2>4
  <2>6. Svc!Log!Log(n, Rounded[v], now)
    BY <2>2, <2>3
  <2>7. Svc!Record(req, res)
    BY <2>2, <2>5, <2>6
       DEF Svc!Record, Svc!OkTo, OkTo, Svc!Response, Response, Readings
  <2>8. res \in Svc!PossibleAnswers(req)
    BY <2>5 DEF Svc!PossibleAnswers, Svc!OkTo, OkTo, Svc!Response, Response, Readings
  <2> QED BY <2>7, <2>8 DEF Svc!Answer
<1>3. CASE err = "Failed"
  <2>1. /\ res = Failed /\ UNCHANGED dbVars
        /\ SelectId(n) = {} \/ v = NotFinite \/ IoErrors
    BY <1>3 DEF add_variable_value, Fails, CanInsertValue
  <2>2. Registry' = Registry /\ Readings' = Readings
    BY <2>1, SameLog
  <2>3. ~(Svc!Log!Registered(n) /\ v \in DOMAIN Rounded) \/ IoErrors
    BY <2>1, SvcRegistered
  <2>4. Svc!Record(req, res)
    BY <2>1, <2>2, <2>3
       DEF Svc!Record, Svc!Rejected, Svc!Failed, Failed, Svc!Response, Response,
           Svc!logVars, Registry, Readings
  <2>5. res \in Svc!PossibleAnswers(req)
    BY <2>1 DEF Svc!PossibleAnswers, Svc!Failed, Failed, Svc!Response, Response
  <2> QED BY <2>4, <2>5 DEF Svc!Answer
<1> QED BY <1>2, <1>3

LEMMA SvcAskedFor ==
  ASSUME TablesInv, NEW req
  PROVE  Svc!AskedFor(req) = AskedFor(req)
<1>1. Svc!AskedFor(req) = {id \in DOMAIN Readings :
                             /\ Readings[id].name = req.variable
                             /\ Svc!InPeriod(req, Readings[id].timestamp)}
  BY DEF Svc!AskedFor, Readings
<1>2. \A id \in ValueIds : /\ Readings[id].name = NameOf(id)
                           /\ Readings[id].timestamp = variable_value[id].timestamp
  BY DEF Readings
<1> QED BY <1>1, <1>2, Lengths DEF AskedFor, Svc!InPeriod

LEMMA SvcCardinality ==
  ASSUME NEW S
  PROVE  Svc!Cardinality(S) = Cardinality(S)
BY DEF Svc!Cardinality, Cardinality

LEMMA GetValuesAnswers ==
  ASSUME TablesInv, Tables \subseteq tables, UNCHANGED dbVars,
         max_values_ammount <= VectorMax, Requests \subseteq Understood,
         NEW req \in Understood, req.msg_type = "REQUEST_GET_VALUES",
         NEW got \in fetch_variable_values(Selected(req), max_values_ammount),
         NEW res, res = IF got.err = "Ok" THEN ValuesResponse(got.rows, got.size) ELSE Failed
  PROVE  Svc!Answer(req, res) /\ res \in Svc!PossibleAnswers(req)
<1> DEFINE rows == AskedFor(req)
           n == Cardinality(rows)
           m == max_values_ammount
<1>1. Registry' = Registry /\ Readings' = Readings
  BY SameLog
<1>2. Selected(req) = rows /\ Svc!AskedFor(req) = rows
  BY SelectedIsAskedFor, SvcAskedFor
<1>3. CASE got.err = "Ok"
  <2>1. got = Capped(rows, m)
    BY <1>2, <1>3 DEF fetch_variable_values, Fetched
  <2>2. m \in Nat \ {0} /\ VectorMax \in Nat
    BY ServerAssumption, VectorAssumption
  <2>3. got.rows = rows /\ got.size = Svc!AtMost(m, n)
    <3>1. CASE MustCompress(rows, m)
      BY <2>1, <2>2, <3>1 DEF MustCompress, Capped, Fetched, Svc!AtMost
    <3>2. CASE ~MustCompress(rows, m)
      BY <2>1, <2>2, <3>2 DEF MustCompress, Capped, Fetched, Svc!AtMost
    <3> QED BY <3>1, <3>2
  <2>4. res = Svc!ValuesResponse(rows, Svc!AtMost(m, n))
    BY <1>3, <2>3 DEF Svc!ValuesResponse, ValuesResponse, Svc!Response, Response
  <2>5. Svc!Read(req, res)
    BY <1>1, <1>2, <2>4, SvcCardinality DEF Svc!Read, Svc!logVars, Registry, Readings
  <2>6. res \in Svc!PossibleAnswers(req)
    BY <1>2, <2>4, SvcCardinality DEF Svc!PossibleAnswers
  <2> QED BY <2>5, <2>6 DEF Svc!Answer
<1>4. CASE got.err # "Ok"
  <2>1. res = Failed /\ IoErrors
    BY <1>4 DEF fetch_variable_values, Fails, CanSelectValues
  <2>2. Svc!Read(req, res)
    BY <1>1, <2>1 DEF Svc!Read, Svc!Rejected, Svc!Failed, Failed, Svc!Response, Response,
                      Svc!logVars, Registry, Readings
  <2>3. res \in Svc!PossibleAnswers(req)
    BY <2>1 DEF Svc!PossibleAnswers, Svc!Failed, Failed, Svc!Response, Response
  <2> QED BY <2>2, <2>3 DEF Svc!Answer
<1> QED BY <1>3, <1>4

LEMMA GetVariablesAnswers ==
  ASSUME TablesInv, Tables \subseteq tables, UNCHANGED dbVars,
         NEW req, req.msg_type = "REQUEST_GET_VARIABLES",
         NEW got \in fetch_variables,
         NEW res, res = IF got.err = "Ok" THEN VariablesResponse(got.rows, got.size) ELSE Failed
  PROVE  Svc!Answer(req, res) /\ res \in Svc!PossibleAnswers(req)
<1>1. Registry' = Registry /\ Readings' = Readings
  BY SameLog
<1>2. CASE got.err = "Ok"
  <2>1. got.rows = DOMAIN Registry /\ got.size = Len(Registry)
    BY <1>2, Lengths DEF fetch_variables, Fetched
  <2>2. res = Svc!VariablesResponse(DOMAIN Registry, Len(Registry))
    BY <1>2, <2>1 DEF Svc!VariablesResponse, VariablesResponse, Svc!Response, Response
  <2>3. Svc!List(res)
    BY <1>1, <2>2 DEF Svc!List, Svc!logVars, Registry, Readings
  <2>4. res \in Svc!PossibleAnswers(req)
    BY <2>2 DEF Svc!PossibleAnswers, Registry
  <2> QED BY <2>3, <2>4 DEF Svc!Answer
<1>3. CASE got.err # "Ok"
  <2>1. res = Failed /\ IoErrors
    BY <1>3 DEF fetch_variables, Fetched, Fails, CanSelectVariables, Tables
  <2>2. Svc!List(res)
    BY <1>1, <2>1 DEF Svc!List, Svc!Rejected, Svc!Failed, Failed, Svc!Response, Response,
                      Svc!logVars, Registry, Readings
  <2>3. res \in Svc!PossibleAnswers(req)
    BY <2>1 DEF Svc!PossibleAnswers, Svc!Failed, Failed, Svc!Response, Response
  <2> QED BY <2>2, <2>3 DEF Svc!Answer
<1> QED BY <1>2, <1>3
-----------------------------------------------------------------------------
(* A handler that answers a request is the moment it is executed.          *)

LEMMA Executes ==
  ASSUME NEW c \in Conns, NEW req, NEW res,
         Owed[c] # <<>>, Head(Owed[c]) = req, Owed'[c] = Tail(Owed[c]), Held[c] = <<>>,
         Held'[c] = IF conn[c] = "open" THEN <<res>> ELSE <<>>,
         conn' = conn, UNCHANGED <<sent, replies>>,
         Svc!Answer(req, res), res \in Svc!PossibleAnswers(req),
         \A d \in Conns \ {c} : Quiet(d)
  PROVE  Svc!Execute(c)
<1>1. Link'[c] = Link[c] /\ (Link[c] = "open" <=> conn[c] = "open")
  BY OwedAt
<1>2. Link' = Link /\ Owed' = [Owed EXCEPT ![c] = Tail(Owed[c])]
  <2>1. Link' = Link
    BY <1>1, AllFcns, SameFcn DEF Quiet
  <2>2. \A d \in Conns \ {c} : Owed'[d] = Owed[d]
    BY DEF Quiet
  <2>3. PICK x : x = Tail(Owed[c])
    OBVIOUS
  <2>4. Owed' = [Owed EXCEPT ![c] = x]
    BY <2>2, <2>3, OwedChanged
  <2> QED BY <2>1, <2>3, <2>4
<1>3. Held' = IF Link[c] = "open" THEN [Held EXCEPT ![c] = <<res>>] ELSE Held
  <2>1. CASE conn[c] = "open"
    <3>1. \A d \in Conns \ {c} : Held'[d] = Held[d]
      BY DEF Quiet
    <3>2. PICK x : x = <<res>>
      OBVIOUS
    <3>3. Held' = [Held EXCEPT ![c] = x]
      BY <2>1, <3>1, <3>2, AllFcns, OneChanged
    <3> QED BY <1>1, <2>1, <3>2, <3>3
  <2>2. CASE conn[c] # "open"
    <3>1. Held' = Held
      BY <2>2, AllFcns, SameFcn DEF Quiet
    <3> QED BY <1>1, <2>2, <3>1
  <2> QED BY <2>1, <2>2
<1> QED BY <1>2, <1>3 DEF Svc!Execute, Link, Owed, Held

(* The body of the request is taken from the stream.                       *)
LEMMA BodyTaken ==
  ASSUME IInv, NEW c \in Conns, NEW k, SessionInv(c, k),
         NEW msg_type, msg_type # "REQUEST_GET_VARIABLES", BodyRead(c, msg_type),
         NEW res, Respond(c, res), conn' = conn
  PROVE  /\ work[c] \in Requests /\ work[c].msg_type = msg_type
         /\ Owed[c] # <<>> /\ Head(Owed[c]) = work[c] /\ Owed'[c] = Tail(Owed[c])
         /\ Held[c] = <<>>
         /\ Held'[c] = IF conn[c] = "open" THEN <<res>> ELSE <<>>
<1>1. /\ phase[c] = "body" /\ work[c].msg_type = msg_type /\ work[c] # GetVariables
      /\ Has(c, "Body") /\ Consume(c)
  BY DEF BodyRead, GetVariables
<1>2. phase'[c] = "write" /\ work'[c] = res
  BY StepAt DEF Respond, IInv
<1>3. inbox[c][1].part = "Body" /\ Head(inbox[c]) = inbox[c][1] /\ LastPart(inbox[c][1])
  <2>1. inbox[c][1].part = "Body" /\ Head(inbox[c]) = inbox[c][1]
    BY <1>1, TokenRead
  <2> QED BY <2>1 DEF LastPart
<1>4. /\ Whole(inbox[c]) # <<>>
      /\ Head(Whole(inbox[c])) = inbox[c][1].of
      /\ Tail(Whole(inbox[c])) = Whole(inbox'[c])
  BY <1>1, <1>3, TokenRead
<1>5. inbox[c][1].of = work[c]
  <2>1. Expects(phase[c], work[c], inbox[c][1])
    BY <1>1 DEF Has, SessionInv, StreamInv
  <2> QED BY <1>1, <2>1 DEF Expects
<1>6. Whole(inbox[c]) \in Seq(Requests) /\ Whole(inbox'[c]) \in Seq(Requests)
  BY <1>4, OwedType, HeadTailProperties
<1>7. Owed[c] = Whole(inbox[c]) /\ Owed'[c] = Whole(inbox'[c])
  BY <1>1, <1>2, <1>6, OwedAt, ConcatEmptySeq
<1>8. work[c] \in Requests
  BY <1>1, BodyAsked
<1> QED BY <1>1, <1>2, <1>4, <1>5, <1>7, <1>8, OwedAt

LEMMA DatabaseExecutes ==
  ASSUME IInv, ServedInv, Requests \subseteq Understood, max_values_ammount <= VectorMax,
         NEW c \in Conns, NEW k, SessionInv(c, k), Database(c), ~DieInCompress(c),
         \A d \in Conns \ {c} : Quiet(d)
  PROVE  Svc!Execute(c)
<1>1. TablesInv /\ phase[c] = "body" /\ Tables \subseteq tables /\ work[c] \in Understood
      /\ conn' = conn /\ UNCHANGED <<sent, replies>>
  BY BodyOf DEF IInv, ServedInv, Database, BodyRead, history, read_add_variable_request,
         read_save_value_request, read_get_values_request, read_get_variables_request
<1>2. CASE read_add_variable_request(c)
  <2>1. BodyRead(c, "REQUEST_ADD_VAR")
    BY <1>2 DEF read_add_variable_request, AddVariable
  <2>2. PICK err \in {"Ok", "Failed"} :
          /\ add_variable(work[c].name, work[c].color, err)
          /\ Respond(c, IF err = "Ok"
                        THEN OkTo("REQUEST_ADD_VAR", Len(variable')) ELSE Failed)
    BY <1>2 DEF read_add_variable_request, AddVariable
  <2>3. PICK res : res = IF err = "Ok" THEN OkTo("REQUEST_ADD_VAR", Len(variable')) ELSE Failed
    OBVIOUS
  <2>4. Respond(c, res)
    BY <2>2, <2>3
  <2>5. /\ work[c] \in Requests /\ work[c].msg_type = "REQUEST_ADD_VAR"
        /\ Owed[c] # <<>> /\ Head(Owed[c]) = work[c] /\ Owed'[c] = Tail(Owed[c])
        /\ Held[c] = <<>> /\ Held'[c] = IF conn[c] = "open" THEN <<res>> ELSE <<>>
    BY <1>1, <2>1, <2>4, BodyTaken
  <2>6. Svc!Answer(work[c], res) /\ res \in Svc!PossibleAnswers(work[c])
    BY <1>1, <2>2, <2>3, <2>5, AddVariableAnswers
  <2> QED BY <1>1, <2>5, <2>6, Executes
<1>3. CASE read_save_value_request(c)
  <2>1. BodyRead(c, "REQUEST_SAVE_VALUE")
    BY <1>3 DEF read_save_value_request, AddVariableValue
  <2>2. PICK err \in {"Ok", "Failed"} :
          /\ add_variable_value(work[c].variable, work[c].value, err)
          /\ Respond(c, IF err = "Ok"
                        THEN OkTo(Absent, Len(variable_value')) ELSE Failed)
    BY <1>3 DEF read_save_value_request, AddVariableValue
  <2>3. PICK res : res = IF err = "Ok" THEN OkTo(Absent, Len(variable_value')) ELSE Failed
    OBVIOUS
  <2>4. Respond(c, res)
    BY <2>2, <2>3
  <2>5. /\ work[c] \in Requests /\ work[c].msg_type = "REQUEST_SAVE_VALUE"
        /\ Owed[c] # <<>> /\ Head(Owed[c]) = work[c] /\ Owed'[c] = Tail(Owed[c])
        /\ Held[c] = <<>> /\ Held'[c] = IF conn[c] = "open" THEN <<res>> ELSE <<>>
    BY <1>1, <2>1, <2>4, BodyTaken
  <2>6. Svc!Answer(work[c], res) /\ res \in Svc!PossibleAnswers(work[c])
    BY <1>1, <2>2, <2>3, <2>5, SaveValueAnswers
  <2> QED BY <1>1, <2>5, <2>6, Executes
<1>4. CASE read_get_values_request(c)
  <2>1. BodyRead(c, "REQUEST_GET_VALUES") /\ UNCHANGED dbVars
    BY <1>4 DEF read_get_values_request, FetchValues
  <2>2. PICK got \in fetch_variable_values(Selected(work[c]), max_values_ammount) :
          Respond(c, IF got.err = "Ok" THEN ValuesResponse(got.rows, got.size) ELSE Failed)
    BY <1>4 DEF read_get_values_request, FetchValues
  <2>3. PICK res : res = IF got.err = "Ok" THEN ValuesResponse(got.rows, got.size) ELSE Failed
    OBVIOUS
  <2>4. Respond(c, res)
    BY <2>2, <2>3
  <2>5. /\ work[c] \in Requests /\ work[c].msg_type = "REQUEST_GET_VALUES"
        /\ Owed[c] # <<>> /\ Head(Owed[c]) = work[c] /\ Owed'[c] = Tail(Owed[c])
        /\ Held[c] = <<>> /\ Held'[c] = IF conn[c] = "open" THEN <<res>> ELSE <<>>
    BY <1>1, <2>1, <2>4, BodyTaken
  <2>6. Svc!Answer(work[c], res) /\ res \in Svc!PossibleAnswers(work[c])
    BY <1>1, <2>1, <2>3, <2>5, GetValuesAnswers
  <2> QED BY <1>1, <2>5, <2>6, Executes
<1>5. CASE read_get_variables_request(c)
  <2>1. /\ phase[c] = "body" /\ work[c].msg_type = "REQUEST_GET_VARIABLES"
        /\ inbox' = inbox /\ UNCHANGED dbVars
    BY <1>5 DEF read_get_variables_request, FetchVariables
  <2>2. PICK got \in fetch_variables :
          Respond(c, IF got.err = "Ok" THEN VariablesResponse(got.rows, got.size) ELSE Failed)
    BY <1>5 DEF read_get_variables_request, FetchVariables
  <2>3. PICK res : res = IF got.err = "Ok" THEN VariablesResponse(got.rows, got.size) ELSE Failed
    OBVIOUS
  <2>4. phase'[c] = "write" /\ work'[c] = res
    BY <2>2, <2>3, StepAt DEF Respond, IInv
  <2>5. work[c] \in Requests /\ work[c] = GetVariables
    <3>1. work[c] \in Requests
      BY <2>1, BodyAsked
    <3> QED BY <1>1, <2>1, <3>1
            DEF Understood, KnownRequests, AddVar, SaveValue, GetValues, GetVariables
  <2>6. /\ Owed[c] # <<>> /\ Head(Owed[c]) = work[c] /\ Owed'[c] = Tail(Owed[c])
        /\ Held[c] = <<>> /\ Held'[c] = IF conn[c] = "open" THEN <<res>> ELSE <<>>
    <3> DEFINE w == Whole(inbox[c])
    <3>1. Owed[c] = <<work[c]>> \o w /\ Owed'[c] = <<>> \o w
      BY <2>1, <2>4, <2>5, OwedAt
    <3>2. w \in Seq(Requests)
      BY OwedType
    <3> HIDE DEF w
    <3>3. /\ <<work[c]>> \o w # <<>> /\ Head(<<work[c]>> \o w) = work[c]
          /\ Tail(<<work[c]>> \o w) = w /\ <<>> \o w = w
      BY <2>5, <3>2
    <3> QED BY <1>1, <2>1, <2>4, <3>1, <3>3, OwedAt
  <2>7. Svc!Answer(work[c], res) /\ res \in Svc!PossibleAnswers(work[c])
    BY <1>1, <2>1, <2>3, GetVariablesAnswers
  <2> QED BY <1>1, <2>6, <2>7, Executes
<1> QED BY <1>2, <1>3, <1>4, <1>5 DEF Database
-----------------------------------------------------------------------------
(* Every step of the server is a step of Service or not seen by it.        *)

LEMMA AllQuiet ==
  ASSUME UNCHANGED sessionVars
  PROVE  \A c \in Conns : Quiet(c)
BY OwedAt DEF sessionVars, Quiet

LEMMA ProcessServes ==
  ASSUME IInv, Process
  PROVE  Svc!Next \/ UNCHANGED Svc!vars
<1>1. CASE Exit("down") /\ UNCHANGED dbVars
  BY <1>1, ExitStops DEF Svc!Next
<1>2. CASE UNCHANGED <<sessionVars, history, variable, variable_value>>
  <2>1. Registry' = Registry /\ Readings' = Readings
    BY <1>2, SameLog
  <2> QED BY <1>2, <2>1, AllQuiet, Stutters DEF history
<1>3. CASE Seed
  <2>1. CASE \E err \in {"Ok"} : add_variable(SeedName, SeedColor, err)
    <3>1. InsertVariable(SeedName, SeedColor) /\ UNCHANGED <<sessionVars, history>>
      BY <1>3, <2>1 DEF Seed, add_variable
    <3>2. Svc!Log!Register(SeedName)
      BY <3>1, RegisterStep, SvcRegister, ServerAssumption DEF IInv
    <3>3. Link' = Link /\ Owed' = Owed /\ Held' = Held
      BY <3>1, AllQuiet, QuietFcns
    <3>4. Svc!Seed
      BY <3>1, <3>2, <3>3 DEF Svc!Seed, Svc!linkVars, history, Link, Owed, Held
    <3> QED BY <3>4 DEF Svc!Next
  <2>2. CASE ~\E err \in {"Ok"} : add_variable(SeedName, SeedColor, err)
    <3>1. UNCHANGED <<sessionVars, history, dbVars>>
      BY <1>3, <2>2 DEF Seed, add_variable
    <3> QED BY <1>2, <3>1 DEF dbVars
  <2> QED BY <2>1, <2>2
<1>4. CASE Open
  BY <1>2, <1>4 DEF Open, dbVars
<1>5. CASE create_scheme
  <2>1. CASE \E t \in Tables : CreateTable(t) /\ UNCHANGED <<sessionVars, history>>
    BY <1>2, <2>1 DEF CreateTable
  <2>2. \/ Exit("down") /\ UNCHANGED dbVars
        \/ \E t \in Tables : CreateTable(t) /\ UNCHANGED <<sessionVars, history>>
    BY <1>5 DEF create_scheme, CreateStatement, Tables
  <2> QED BY <1>1, <2>1, <2>2
<1>6. CASE Crash
  BY <1>1, <1>6 DEF Crash
<1> QED BY <1>3, <1>4, <1>5, <1>6 DEF Process

LEMMA EnvironmentServes ==
  ASSUME IInv, NEW c \in Conns, NEW k, SessionInv(c, k), Environment(c)
  PROVE  Svc!Next
<1>1. \A d \in Conns \ {c} : Quiet(d)
  BY EnvironmentUntouched, UntouchedQuiet DEF IInv
<1>2. CASE Connect(c)
  BY <1>1, <1>2, ConnectOpens DEF Svc!Next
<1>3. ASSUME NEW req \in Requests, SendRequest(c, req) PROVE Svc!Next
  <2>1. Svc!Ask(c, req)
    BY <1>1, <1>3, SendAsks
  <2> QED BY <2>1 DEF Svc!Next
<1>4. ASSUME NEW how, Disconnect(c, how) PROVE Svc!Next
  <2>1. Svc!Break(c)
    BY <1>1, <1>4, DisconnectBreaks
  <2> QED BY <2>1 DEF Svc!Next
<1> QED BY <1>2, <1>3, <1>4 DEF Environment

LEMMA SessionServes ==
  ASSUME IInv, ServedInv, Requests \subseteq Understood, max_values_ammount <= VectorMax,
         NEW c \in Conns, NEW k, SessionInv(c, k), Session(c)
  PROVE  Svc!Next \/ UNCHANGED Svc!vars
<1>1. CASE DieInCompress(c)
  <2>1. Svc!Stop
    BY <1>1, ExitStops DEF DieInCompress
  <2> QED BY <2>1 DEF Svc!Next
<1>2. CASE ~DieInCompress(c) /\ ~Astray(c)
  <2>1. \A d \in Conns \ {c} : Quiet(d)
    BY <1>2, SessionUntouched, UntouchedQuiet DEF IInv
  <2>2. CASE Database(c)
    <3>1. Svc!Execute(c)
      BY <1>2, <2>1, <2>2, DatabaseExecutes
    <3> QED BY <3>1 DEF Svc!Next
  <2>3. CASE WriteDone(c) /\ conn[c] = "open"
    <3>1. Svc!Deliver(c)
      BY <2>1, <2>3, WriteDelivers
    <3> QED BY <3>1 DEF Svc!Next
  <2>4. CASE ~Database(c) /\ ~(WriteDone(c) /\ conn[c] = "open")
    <3>1. /\ UNCHANGED <<sent, replies>>
          /\ Registry' = Registry /\ Readings' = Readings
      <4>1. UNCHANGED <<sent, replies, dbVars>>
        <5>1. CASE WriteDone(c)
          BY <2>4, <5>1 DEF WriteDone
        <5>2. CASE ~WriteDone(c)
          BY <1>2, <2>4, <5>2 DEF Session, Accept, ReadMetaHeader, ReadHeader, HeaderReadFailed,
                            BodyReadFailed, WriteFailed, history
        <5> QED BY <5>1, <5>2
      <4> QED BY <4>1, SameLog
    <3>2. Quiet(c)
      BY <1>2, <2>4, MetaHeaderQuiet, HeaderQuiet, OtherQuiet DEF Session
    <3>3. \A d \in Conns : Quiet(d)
      BY <2>1, <3>2
    <3> QED BY <3>1, <3>3, Stutters
  <2> QED BY <2>2, <2>3, <2>4
<1> QED BY <1>1, <1>2, NeverAstray

LEMMA InitServes == Init => Svc!Init
<1> SUFFICES ASSUME Init PROVE Svc!Init
  OBVIOUS
<1>1. Registry = <<>> /\ Readings = <<>>
  BY DEF Init, EmptyDatabase, Registry, Readings, VariableIds, ValueIds
<1>2. ASSUME NEW c \in Conns PROVE Link[c] = "none" /\ Owed[c] = <<>> /\ Held[c] = <<>>
  <2>1. <<>> \o <<>> = <<>>
    BY EmptySeq, ConcatEmptySeq
  <2> QED BY <2>1, OwedAt, WholeOfNone DEF Init
<1>3. /\ Link = [c \in Conns |-> "none"]
      /\ Owed = [c \in Conns |-> <<>>] /\ Held = [c \in Conns |-> <<>>]
  <2>1. Link = [c \in Conns |-> Link[c]]
    BY AllFcns DEF IsFcn
  <2>2. Owed = [c \in Conns |-> Owed[c]]
    BY AllFcns DEF IsFcn
  <2>3. Held = [c \in Conns |-> Held[c]]
    BY AllFcns DEF IsFcn
  <2> QED BY <1>2, <2>1, <2>2, <2>3
<1>4. Svc!Log!Init
  BY <1>1 DEF Svc!Log!Init, Registry, Readings
<1> QED BY <1>3, <1>4 DEF Svc!Init, Init, Link, Owed, Held

(* The server is a service: every request of a known kind is executed at   *)
(* most once, in the order its client sent them, at one moment between     *)
(* sending and answer, and answered with what the shared tables gave at    *)
(* that moment, however many clients pipeline requests, wherever           *)
(* connections break and whenever the process is killed.  (Where vectors   *)
(* cannot hold max_values_ammount readings compress answers with none.)    *)
THEOREM ServiceImplemented ==
  ASSUME Requests \subseteq Understood, max_values_ammount <= VectorMax
  PROVE  Spec => ImplementsService
<1>1. IInv /\ ServedInv /\ AnswersInv /\ [Next]_vars => [Svc!Next]_(Svc!vars)
  <2> SUFFICES ASSUME IInv, ServedInv, AnswersInv, [Next]_vars
               PROVE  Svc!Next \/ UNCHANGED Svc!vars
    OBVIOUS
  <2>1. PICK cur : Sessions(cur)
    BY DEF AnswersInv
  <2>2. \A c \in Conns : SessionInv(c, cur[c])
    BY <2>1 DEF Sessions
  <2>3. CASE UNCHANGED vars
    <3>1. UNCHANGED <<sessionVars, history, variable, variable_value>>
      BY <2>3 DEF vars, dbVars
    <3>2. Registry' = Registry /\ Readings' = Readings
      BY <3>1, SameLog
    <3> QED BY <3>1, <3>2, AllQuiet, Stutters DEF history
  <2>4. ASSUME NEW c \in Conns, Environment(c) PROVE Svc!Next
    BY <2>2, <2>4, EnvironmentServes
  <2>5. ASSUME NEW c \in Conns, Session(c) PROVE Svc!Next \/ UNCHANGED Svc!vars
    BY <2>2, <2>5, SessionServes
  <2> QED BY <2>3, <2>4, <2>5, ProcessServes DEF Next
<1>2. Spec => []AnswersInv
  BY AnswersInvariant
<1> QED BY <1>1, <1>2, InitServes, Invariant, ServedInvariant, PTL
        DEF Spec, ImplementsService, Svc!Spec
================================================================================
