------------------------- MODULE SQLiteWrapperProofs -------------------------
(***************************************************************************)
(* What the data source promises its caller, for any names, values, clock  *)
(* and number of rows, and whether or not statements fail.                 *)
(***************************************************************************)
EXTENDS SQLiteWrapper, SQLiteTablesProofs, FiniteSetTheorems

(* What a caller saw of its last call: the part of TypeOK about call.      *)
CallInv ==
  /\ call.err \in {"Ok", "Failed"}
  /\ call.name \in Names \cup {NoName}
  /\ call.count \in Nat
  /\ \A k \in DOMAIN call.sent : call.sent[k].index \in Nat
-----------------------------------------------------------------------------
LEMMA CalledFields ==
  ASSUME NEW op, NEW name, NEW err
  PROVE  /\ Called(op, name, err).op = op
         /\ Called(op, name, err).name = name
         /\ Called(op, name, err).err = err
         /\ Called(op, name, err).sent = <<>>
         /\ Called(op, name, err).count = 0
         /\ Called(op, name, err).start = 0
         /\ Called(op, name, err).end = 0
BY DEF Called

LEMMA FiniteIds ==
  ASSUME TablesInv, NEW ids \in SUBSET ValueIds
  PROVE  IsFiniteSet(ids) /\ Cardinality(ids) \in Nat /\ ids \subseteq Nat
<1>1. Len(variable_value) \in Nat
  BY DEF TablesInv, TablesTypeOK
<1>2. IsFiniteSet(ValueIds)
  BY <1>1, FS_Interval DEF ValueIds
<1>3. IsFiniteSet(ids)
  BY <1>2, FS_Subset
<1>4. Cardinality(ids) \in Nat
  BY <1>3, FS_CardinalityType
<1>5. ids \subseteq Nat
  BY <1>1 DEF ValueIds
<1> QED BY <1>3, <1>4, <1>5

(* A SELECT visits every row of its result: as many rows as there are IDs, *)
(* no ID twice.                                                            *)
LEMMA VisitsAll ==
  ASSUME NEW ids \in SUBSET Nat, IsFiniteSet(ids), NEW rows \in InOrder(ids)
  PROVE  /\ Cardinality(ids) \in Nat
         /\ rows \in [1..Cardinality(ids) -> ids]
         /\ \A j, k \in 1..Cardinality(ids) : j < k => rows[j] < rows[k]
         /\ \A id \in ids : \E k \in 1..Cardinality(ids) : rows[k] = id
<1> DEFINE n == Cardinality(ids)
<1>1. n \in Nat
  BY FS_CardinalityType
<1>2. /\ rows \in [1..n -> ids]
      /\ \A j, k \in 1..n : j < k => rows[j] < rows[k]
  BY DEF InOrder
<1>3. \A j, k \in 1..n : rows[j] = rows[k] => j = k
  <2> SUFFICES ASSUME NEW j \in 1..n, NEW k \in 1..n, rows[j] = rows[k]
               PROVE  j = k
    OBVIOUS
  <2> HIDE DEF n
  <2>1. rows[j] \in Nat /\ rows[k] \in Nat
    BY <1>2
  <2>2. ~(rows[j] < rows[k]) /\ ~(rows[k] < rows[j])
    BY <2>1
  <2>3. ~(j < k) /\ ~(k < j)
    BY <1>2, <2>2
  <2> QED BY <1>1, <2>3
<1>4. rows \in Injection(1..n, ids)
  BY <1>2, <1>3 DEF Injection, IsInjective
<1>5. Cardinality(1..n) = n
  BY <1>1, FS_Interval
<1>6. rows \in Surjection(1..n, ids)
  BY <1>4, <1>5, FS_Injection
<1>7. \A id \in ids : \E k \in 1..n : rows[k] = id
  BY <1>6 DEF Surjection
<1> QED BY <1>1, <1>2, <1>7

(* The callbacks of a SELECT that stops after k rows.                      *)
Handed(rows, k, sent, out) ==
  /\ DOMAIN sent = 1..k
  /\ \A j \in 1..k : sent[j] = Sent(rows[j], NoName, j - 1)
  /\ DOMAIN out = 1..k
  /\ \A j \in 1..k : out[j] = sent[j].id

(* They hand over the k smallest IDs.                                      *)
LEMMA DeliversPrefix ==
  ASSUME NEW ids \in SUBSET Nat, NEW rows \in InOrder(ids),
         NEW k \in 0..Cardinality(ids), NEW sent, NEW out,
         IsFiniteSet(ids), Handed(rows, k, sent, out)
  PROVE  /\ Range(out) \subseteq ids
         /\ \A j, l \in DOMAIN out : j < l => out[j] < out[l]
         /\ \A j \in DOMAIN out, id \in ids : id < out[j] => id \in Range(out)
         /\ \A j \in DOMAIN out : sent[j].index = j - 1
         /\ k = Cardinality(ids) => Range(out) = ids
<1> DEFINE n == Cardinality(ids)
<1>1. /\ n \in Nat
      /\ rows \in [1..n -> ids]
      /\ \A j, l \in 1..n : j < l => rows[j] < rows[l]
      /\ \A id \in ids : \E j \in 1..n : rows[j] = id
  BY VisitsAll
<1>2. k \in 0..n /\ k \in Nat
  BY <1>1
<1> HIDE DEF n
<1>3. DOMAIN out = 1..k
  BY DEF Handed
<1>4. \A j \in 1..k : j \in 1..n /\ out[j] = rows[j] /\ sent[j].index = j - 1
  BY <1>1, <1>2, <1>3 DEF Sent, Handed
<1>5. Range(out) = {rows[j] : j \in 1..k}
  BY <1>3, <1>4 DEF Range
<1>6. Range(out) \subseteq ids
  BY <1>1, <1>4, <1>5
<1>7. \A j, l \in 1..k : j < l => out[j] < out[l]
  BY <1>1, <1>4
<1>8. \A j \in 1..k, id \in ids : id < out[j] => id \in Range(out)
  <2> SUFFICES ASSUME NEW j \in 1..k, NEW id \in ids, id < out[j]
               PROVE  id \in Range(out)
    OBVIOUS
  <2>1. PICK l \in 1..n : rows[l] = id
    BY <1>1
  <2>2. rows[l] < rows[j] /\ j \in 1..n
    BY <1>4, <2>1
  <2>3. rows[l] \in Nat /\ rows[j] \in Nat
    BY <1>1, <2>2
  <2>4. ~(rows[j] < rows[l]) /\ l # j
    BY <2>2, <2>3
  <2>5. l < j
    BY <1>1, <1>2, <2>2, <2>4
  <2>6. l \in 1..k
    BY <1>1, <1>2, <2>5
  <2> QED BY <1>5, <2>1, <2>6
<1>9. k = n => Range(out) = ids
  <2> SUFFICES ASSUME k = n PROVE ids \subseteq Range(out)
    BY <1>6
  <2> QED BY <1>1, <1>5
<1> QED BY <1>3, <1>4, <1>6, <1>7, <1>8, <1>9 DEF n

(* The join of the two tables finds the rows of the subselect.             *)
LEMMA JoinFindsRows ==
  ASSUME TablesInv, NEW n \in Names
  PROVE  SelectValues(n)
           = {id \in ValueIds : variable[variable_value[id].variable_id].name = n}
BY DEF SelectValues, SelectId, TablesInv, Integrity, ReferencesResolve

LEMMA AskedOfAll ==
  ASSUME TablesInv, NEW c, c.name \in Names,
         c.op \in {"fetch_variable_values", "count_variable_values"}
  PROVE  Asked(c) = SelectValues(c.name)
BY JoinFindsRows DEF Asked

LEMMA AskedOfRange ==
  ASSUME TablesInv, NEW c, c.name \in Names, c.start \in Clock, c.end \in Clock,
         c.op \in {"fetch_variable_values_between",
                   "count_variable_values_between"}
  PROVE  Asked(c) = SelectValuesBetween(c.name, c.start, c.end)
<1>1. \A id \in ValueIds : variable_value[id].timestamp \in Nat
  <2>1. variable_value \in Seq(ValueRow)
    BY DEF TablesInv, TablesTypeOK
  <2>2. \A id \in ValueIds : variable_value[id] \in ValueRow
    BY <2>1 DEF ValueIds
  <2>3. \A row \in ValueRow : row.timestamp \in Clock
    BY DEF ValueRow
  <2> QED BY <2>2, <2>3, TablesAssumption
<1>2. c.start \in Nat /\ c.end \in Nat
  BY TablesAssumption
<1>3. \A id \in ValueIds :
        variable_value[id].timestamp \in c.start..c.end
          <=> /\ variable_value[id].timestamp >= c.start
              /\ variable_value[id].timestamp <= c.end
  BY <1>1, <1>2
<1>4. SelectValues(c.name)
        = {id \in ValueIds :
             variable[variable_value[id].variable_id].name = c.name}
  BY JoinFindsRows
<1>5. Asked(c) = {id \in ValueIds :
                    /\ variable[variable_value[id].variable_id].name = c.name
                    /\ variable_value[id].timestamp \in c.start..c.end}
  BY DEF Asked
<1> QED BY <1>3, <1>4, <1>5 DEF SelectValuesBetween
-----------------------------------------------------------------------------
(* The rows keep their type and order, and the text of a double its value. *)
DataInv ==
  /\ TablesInv
  /\ given \in Seq(Vals \ {NotFinite})
  /\ StoredWithinPrecision

(* %f keeps a double to half of the sixth decimal; where it cuts digits    *)
(* off, the last place printed is at most ten parts in MaxSignificand.     *)
LEMMA SixDecimals ==
  ASSUME NEW v \in Vals \ {NotFinite} PROVE Precise(ToSixDecimals(v), v)
<1>1. v \in Int
  BY TablesAssumption
<1>2. PICK n \in Nat : n = Millionths(v) /\ 10 * n <= Abs(v) + 5 /\ Abs(v) + 5 <= 10 * n + 9
  BY <1>1 DEF Millionths, Abs
<1>3. PICK p : p = CHOOSE x \in Places(n) : TRUE
  OBVIOUS
<1>4. p \in Places(n) /\ p \in Nat \ {0} /\ (p = 1 \/ p % 10 = 0)
  BY <1>2, <1>3, PrecisionAssumption DEF Places
<1>5. PICK s \in Int : s = n - (n % p) /\ n - s \in 0..(p - 1) /\ (p = 1 => s = n)
  <2>1. n % p \in 0..(p - 1)
    BY <1>2, <1>4
  <2>2. n - (n % p) \in Int /\ n - (n - (n % p)) = n % p
    BY <1>2, <2>1
  <2>3. p = 1 => n - (n % p) = n
    BY <1>2, <2>1, <2>2
  <2> QED BY <2>1, <2>2, <2>3
<1>6. ToSixDecimals(v) = IF v >= 0 THEN 10 * s ELSE -(10 * s)
  BY <1>2, <1>3, <1>5 DEF ToSixDecimals, Significant
<1>7. PICK d \in Int : d = Abs(v) - 10 * s
  BY <1>1, <1>5 DEF Abs
<1>8. /\ ToSixDecimals(v) - v \in {d, -d}
      /\ d >= -5 /\ d <= 10 * (n - s) + 4
  BY <1>1, <1>2, <1>5, <1>6, <1>7 DEF Abs
<1>9. CASE d <= 5
  BY <1>8, <1>9 DEF Precise
<1>10. CASE d > 5
  <2>1. p >= 10 /\ MaxSignificand * p <= 10 * n
    BY <1>4, <1>5, <1>8, <1>10 DEF Places
  <2>2. MaxSignificand * 10 <= MaxSignificand * p
    BY <1>4, <2>1, PrecisionAssumption
  <2>3. d + 6 <= 10 * p
    BY <1>4, <1>5, <1>8
  <2>4. MaxSignificand * (d + 6) <= MaxSignificand * (10 * p)
    BY <1>4, <2>3, PrecisionAssumption
  <2>5. MaxSignificand * (10 * p) = 10 * (MaxSignificand * p)
    BY <1>4, PrecisionAssumption
  <2>6. MaxSignificand * (d + 6) = MaxSignificand * d + 6 * MaxSignificand
    BY PrecisionAssumption
  <2>7. MaxSignificand * d <= 10 * Abs(v)
    <3>1. PICK a \in Int, b \in Int : a = MaxSignificand * d /\ b = MaxSignificand * p
      BY <1>4, PrecisionAssumption
    <3>2. Abs(v) \in Int
      BY <1>1 DEF Abs
    <3> QED BY <1>2, <2>1, <2>4, <2>5, <2>6, <3>1, <3>2, PrecisionAssumption
  <2>8. Abs(ToSixDecimals(v) - v) = d
    BY <1>8, <1>10 DEF Abs
  <2>9. Abs(v) + 5 >= 10 * MaxSignificand
    <3>1. Abs(v) \in Int
      BY <1>1 DEF Abs
    <3>2. PICK b \in Int : b = MaxSignificand * p
      BY <1>4, PrecisionAssumption
    <3> QED BY <1>2, <2>1, <2>2, <3>1, <3>2, PrecisionAssumption
  <2> QED BY <2>7, <2>8, <2>9 DEF Precise
<1> QED BY <1>9, <1>10

LEMMA DataUnchanged == DataInv /\ UNCHANGED <<dbVars, given>> => DataInv'
<1> SUFFICES ASSUME DataInv, UNCHANGED <<dbVars, given>> PROVE DataInv'
  OBVIOUS
<1>1. TablesInv'
  BY TablesUnchanged DEF DataInv
<1> QED BY <1>1 DEF DataInv, StoredWithinPrecision, dbVars, ValueIds

(* create_scheme, whichever statement it stops at.                         *)
LEMMA SchemeTables ==
  ASSUME create_scheme, TablesInv
  PROVE  /\ tables' = tables \/ tables = {}
         /\ tables' \in {tables, tables \cup {"VARIABLE"}, tables \cup Tables}
<1>1. PICK k \in 1..3 :
        /\ \A j \in 1..(k - 1) : CanCreate(stataments[j])
        /\ k \in DOMAIN stataments => Fails(CanCreate(stataments[k]))
        /\ tables' = tables \cup {stataments[j] : j \in 1..(k - 1)}
  BY DEF create_scheme
<1>2. stataments[1] = "VARIABLE" /\ stataments[2] = "VARIABLE_VALUE"
  BY DEF stataments
<1>3. k = 1 \/ k = 2 \/ k = 3
  BY <1>1
<1>4. CASE k = 1
  <2>1. {stataments[j] : j \in 1..(k - 1)} = {}
    BY <1>4
  <2> QED BY <1>1, <2>1
<1>5. tables # {} => "VARIABLE" \in tables
  BY DEF TablesInv, TablesTypeOK, Tables, Integrity, RowsHaveTables
<1>6. CASE k = 2
  <2>1. {stataments[j] : j \in 1..(k - 1)} = {"VARIABLE"}
    BY <1>2, <1>6
  <2>2. "VARIABLE" \notin tables
    BY <1>1, <1>2, <1>6 DEF CanCreate
  <2> QED BY <1>1, <1>5, <2>1, <2>2
<1>7. CASE k = 3
  <2>1. {stataments[j] : j \in 1..(k - 1)} = Tables
    <3>1. 1..(k - 1) = {1, 2}
      BY <1>7
    <3> QED BY <1>2, <3>1 DEF Tables
  <2>2. "VARIABLE" \notin tables
    BY <1>1, <1>2, <1>7 DEF CanCreate
  <2> QED BY <1>1, <1>5, <2>1, <2>2
<1> QED BY <1>3, <1>4, <1>6, <1>7


LEMMA SchemeData == create_scheme /\ DataInv => DataInv'
<1> SUFFICES ASSUME create_scheme, DataInv PROVE DataInv'
  OBVIOUS
<1>1. /\ tables' \in {tables, tables \cup {"VARIABLE"}, tables \cup Tables}
      /\ UNCHANGED <<variable, variable_value, given>>
  BY SchemeTables DEF create_scheme, DataInv
<1>2. TablesInv'
  BY <1>1 DEF DataInv, TablesInv, TablesTypeOK, Tables, Integrity, NamesUnique,
              ReferencesResolve, RowsHaveTables, VariableIds, ValueIds
<1> QED BY <1>1, <1>2 DEF DataInv, StoredWithinPrecision, ValueIds

LEMMA AddVariableData ==
  ASSUME NEW n \in Names, NEW color \in Colors, add_variable(n, color), DataInv
  PROVE  DataInv'
<1>1. CASE InsertVariable(n, color)
  <2>1. TablesInv'
    BY <1>1, InsertVariableInv DEF DataInv
  <2>2. UNCHANGED <<variable_value, given>>
    BY <1>1 DEF InsertVariable, add_variable
  <2> QED BY <2>1, <2>2 DEF DataInv, StoredWithinPrecision, ValueIds
<1>2. CASE UNCHANGED dbVars
  BY <1>2, DataUnchanged DEF add_variable
<1> QED BY <1>1, <1>2 DEF add_variable

LEMMA AddValueData ==
  ASSUME NEW n \in Names, NEW v \in Vals, add_variable_value(n, v), DataInv
  PROVE  DataInv'
<1>1. ASSUME NEW now \in Clock, InsertValue(n, v, now), given' = Append(given, v)
      PROVE  DataInv'
  <2> DEFINE row == ValueRowOf(n, v, now)
  <2>1. /\ TablesInv'
        /\ CanInsertValue(n, v)
        /\ variable_value' = Append(variable_value, row)
    BY <1>1, InsertValueInv DEF DataInv, InsertValue
  <2>2. row \in ValueRow
    BY <2>1, ValueRowType DEF DataInv
  <2>3. v \in Vals \ {NotFinite} /\ v \in Int
    BY <2>1, TablesAssumption DEF CanInsertValue
  <2>4. Precise(row.val, v)
    BY <2>3, SixDecimals DEF ValueRowOf
  <2> HIDE DEF row
  <2>5. variable_value \in Seq(ValueRow) /\ given \in Seq(Vals \ {NotFinite})
    BY DEF DataInv, TablesInv, TablesTypeOK
  <2>6. /\ Len(variable_value') = Len(variable_value) + 1
        /\ Len(variable_value) \in Nat
        /\ \A k \in 1..Len(variable_value) : variable_value'[k] = variable_value[k]
        /\ variable_value'[Len(variable_value) + 1] = row
    BY <2>1, <2>2, <2>5, AppendRow
  <2>7. /\ given' \in Seq(Vals \ {NotFinite})
        /\ Len(given') = Len(given) + 1
        /\ Len(given) \in Nat
        /\ \A k \in 1..Len(given) : given'[k] = given[k]
        /\ given'[Len(given) + 1] = v
    BY <1>1, <2>3, <2>5, AppendRow
  <2>8. /\ Len(given) = Len(variable_value)
        /\ \A k \in 1..Len(variable_value) : Precise(variable_value[k].val, given[k])
    BY DEF DataInv, StoredWithinPrecision, ValueIds
  <2>9. \A k \in ValueIds' : Precise(variable_value'[k].val, given'[k])
    <3> SUFFICES ASSUME NEW k \in 1..Len(variable_value')
                 PROVE  Precise(variable_value'[k].val, given'[k])
      BY DEF ValueIds
    <3>1. CASE k \in 1..Len(variable_value)
      <4>1. variable_value'[k] = variable_value[k] /\ given'[k] = given[k]
        BY <2>6, <2>7, <2>8, <3>1
      <4>2. Precise(variable_value[k].val, given[k])
        BY <2>8, <3>1
      <4> QED BY <4>1, <4>2, Zenon
    <3>2. CASE k = Len(variable_value) + 1
      <4>1. variable_value'[k] = row /\ given'[k] = v
        BY <2>6, <2>7, <2>8, <3>2
      <4> QED BY <2>4, <4>1, Zenon
    <3> QED BY <2>6, <3>1, <3>2
  <2> QED BY <2>1, <2>6, <2>7, <2>8, <2>9 DEF DataInv, StoredWithinPrecision
<1>2. CASE UNCHANGED <<dbVars, given>>
  BY <1>2, DataUnchanged
<1> QED BY <1>1, <1>2 DEF add_variable_value

(* The other calls leave the file alone.                                   *)
Reads ==
  \/ Reopen
  \/ fetch_variables
  \/ \E n \in Names : fetch_variable_values(n) \/ count_variable_values(n)
  \/ \E n \in Names, start, end \in Clock :
       \/ fetch_variable_values_between(n, start, end)
       \/ count_variable_values_between(n, start, end)

LEMMA ReadsOnly == Reads => UNCHANGED <<dbVars, given>>
BY DEF Reads, Reopen, fetch_variables, fetch_variable_values, Select, Count,
       count_variable_values, fetch_variable_values_between,
       count_variable_values_between

LEMMA NextCases ==
  ASSUME [Next]_vars
  PROVE  \/ UNCHANGED vars
         \/ create_scheme
         \/ \E n \in Names, color \in Colors : add_variable(n, color)
         \/ \E n \in Names, v \in Vals : add_variable_value(n, v)
         \/ Reads
BY DEF Next, Reads

LEMMA DataStep == DataInv /\ [Next]_vars => DataInv'
<1> SUFFICES ASSUME DataInv, [Next]_vars PROVE DataInv'
  OBVIOUS
<1>1. CASE UNCHANGED vars
  BY <1>1, DataUnchanged DEF vars
<1>2. CASE create_scheme
  BY <1>2, SchemeData
<1>3. CASE \E n \in Names, color \in Colors : add_variable(n, color)
  BY <1>3, AddVariableData
<1>4. CASE \E n \in Names, v \in Vals : add_variable_value(n, v)
  BY <1>4, AddValueData
<1>5. CASE Reads
  BY <1>5, ReadsOnly, DataUnchanged
<1> QED BY <1>1, <1>2, <1>3, <1>4, <1>5, NextCases
-----------------------------------------------------------------------------
(* What the caller saw: CallInv and the two properties of the answers.     *)
AnswerInv == CallInv /\ FetchDeliversWhatWasAsked /\ CountAgreesWithFetch

(* A call that is neither a fetch nor a count of readings.                 *)
LEMMA OtherCalls ==
  ASSUME NEW op \in {"open", "create_scheme", "add_variable",
                     "add_variable_value", "fetch_variables"},
         call'.op = op, CallInv'
  PROVE  AnswerInv'
BY DEF AnswerInv, FetchDeliversWhatWasAsked, CountAgreesWithFetch

LEMMA PlainCall ==
  ASSUME NEW op \in {"open", "create_scheme", "add_variable",
                     "add_variable_value"},
         NEW name \in Names \cup {NoName}, NEW err \in {"Ok", "Failed"},
         call' = Called(op, name, err)
  PROVE  AnswerInv'
<1>1. /\ call'.op = op /\ call'.name = name /\ call'.err = err
      /\ call'.sent = <<>> /\ call'.count = 0
  BY CalledFields
<1>2. CallInv'
  BY <1>1 DEF CallInv
<1> QED BY <1>1, <1>2, OtherCalls


(* What a SELECT gives its caller: it runs to its end, or fails after k    *)
(* rows.                                                                   *)
Outcome(c, result, sent) ==
  \/ c = [result EXCEPT !.sent = sent]
  \/ \E k \in 0..Len(sent) :
       c = [result EXCEPT !.sent = SubSeq(sent, 1, k), !.err = "Failed"]

Ranged(op, name, start, end) ==
  [Called(op, name, "Ok") EXCEPT !.start = start, !.end = end]

LEMMA RangedRecord ==
  ASSUME NEW op, NEW name, NEW start, NEW end
  PROVE  Ranged(op, name, start, end)
           = [op |-> op, name |-> name, err |-> "Ok", sent |-> <<>>,
              count |-> 0, start |-> start, end |-> end]
<1>1. PICK c : c = [Called(op, name, "Ok") EXCEPT !.start = start, !.end = end]
  OBVIOUS
<1>2. c = [op |-> op, name |-> name, err |-> "Ok", sent |-> <<>>,
           count |-> 0, start |-> start, end |-> end]
  BY <1>1 DEF Called
<1> QED BY <1>1, <1>2 DEF Ranged

LEMMA SubSeqPrefix ==
  ASSUME NEW S, NEW s \in Seq(S), NEW k \in 0..Len(s)
  PROVE  /\ DOMAIN SubSeq(s, 1, k) = 1..k
         /\ \A j \in 1..k : SubSeq(s, 1, k)[j] = s[j]
OBVIOUS

LEMMA SelectOutcome ==
  ASSUME NEW op, NEW name, NEW start, NEW end, NEW S, NEW sent \in Seq(S), NEW c,
         Outcome(c, Ranged(op, name, start, end), sent)
  PROVE  /\ c.op = op /\ c.name = name
         /\ c.start = start /\ c.end = end /\ c.count = 0
         /\ c.err \in {"Ok", "Failed"}
         /\ \E k \in 0..Len(sent) :
              /\ DOMAIN c.sent = 1..k
              /\ \A j \in 1..k : c.sent[j] = sent[j]
              /\ c.err = "Ok" => k = Len(sent)
<1>1. CASE c = [Ranged(op, name, start, end) EXCEPT !.sent = sent]
  <2>1. c = [op |-> op, name |-> name, err |-> "Ok", sent |-> sent,
             count |-> 0, start |-> start, end |-> end]
    BY <1>1 DEF Ranged, Called
  <2>2. c.sent = sent /\ c.err = "Ok"
    BY <2>1
  <2>3. Len(sent) \in 0..Len(sent) /\ DOMAIN sent = 1..Len(sent)
    OBVIOUS
  <2>4. \E k \in 0..Len(sent) : /\ DOMAIN c.sent = 1..k
                                /\ \A j \in 1..k : c.sent[j] = sent[j]
                                /\ c.err = "Ok" => k = Len(sent)
    BY <2>2, <2>3
  <2> QED BY <2>1, <2>4
<1>2. ASSUME NEW k \in 0..Len(sent),
             c = [Ranged(op, name, start, end)
                    EXCEPT !.sent = SubSeq(sent, 1, k), !.err = "Failed"]
      PROVE  /\ c.op = op /\ c.name = name
             /\ c.start = start /\ c.end = end /\ c.count = 0
             /\ c.err = "Failed"
             /\ DOMAIN c.sent = 1..k
             /\ \A j \in 1..k : c.sent[j] = sent[j]
  <2>1. c = [op |-> op, name |-> name, err |-> "Failed",
             sent |-> SubSeq(sent, 1, k),
             count |-> 0, start |-> start, end |-> end]
    BY <1>2 DEF Ranged, Called
  <2>2. c.sent = SubSeq(sent, 1, k)
    BY <2>1
  <2>3. /\ DOMAIN SubSeq(sent, 1, k) = 1..k
        /\ \A j \in 1..k : SubSeq(sent, 1, k)[j] = sent[j]
    BY SubSeqPrefix
  <2> QED BY <2>1, <2>2, <2>3
<1>3. CASE \E k \in 0..Len(sent) :
             c = [Ranged(op, name, start, end)
                    EXCEPT !.sent = SubSeq(sent, 1, k), !.err = "Failed"]
  BY <1>2, <1>3
<1> QED BY <1>1, <1>3 DEF Outcome

LEMMA SentValuesType ==
  ASSUME TablesInv, NEW ids \in SUBSET ValueIds, NEW rows \in InOrder(ids)
  PROVE  /\ Len(SentValues(rows)) = Cardinality(ids)
         /\ SentValues(rows) \in Seq(Range(SentValues(rows)))
         /\ \A j \in 1..Cardinality(ids) :
              SentValues(rows)[j] = Sent(rows[j], NoName, j - 1)
<1>1. Cardinality(ids) \in Nat /\ DOMAIN rows = 1..Cardinality(ids)
  BY FiniteIds, VisitsAll
<1> QED BY <1>1 DEF SentValues, Range

(* c holds the callbacks of the first of n rows, of all when it is Ok.     *)
Stopped(c, rows, n) ==
  \E k \in 0..n :
    /\ DOMAIN c.sent = 1..k
    /\ \A j \in 1..k : c.sent[j] = Sent(rows[j], NoName, j - 1)
    /\ c.err = "Ok" => k = n

LEMMA FetchOutcome ==
  ASSUME TablesInv, NEW op, NEW name, NEW start, NEW end,
         NEW ids \in SUBSET ValueIds, NEW rows \in InOrder(ids), NEW c,
         Outcome(c, Ranged(op, name, start, end), SentValues(rows))
  PROVE  /\ c.op = op /\ c.name = name
         /\ c.start = start /\ c.end = end /\ c.count = 0
         /\ c.err \in {"Ok", "Failed"}
         /\ Stopped(c, rows, Cardinality(ids))
<1>1. PICK all : all = Cardinality(ids)
  OBVIOUS
<1>2. PICK full : full = SentValues(rows)
  OBVIOUS
<1>3. /\ Len(full) = all /\ all \in Nat
      /\ full \in Seq(Range(full))
      /\ \A j \in 1..all : full[j] = Sent(rows[j], NoName, j - 1)
  BY <1>1, <1>2, SentValuesType, FiniteIds
<1>4. Outcome(c, Ranged(op, name, start, end), full)
  BY <1>2
<1>5. /\ c.op = op /\ c.name = name
      /\ c.start = start /\ c.end = end /\ c.count = 0
      /\ c.err \in {"Ok", "Failed"}
      /\ \E k \in 0..Len(full) :
           /\ DOMAIN c.sent = 1..k
           /\ \A j \in 1..k : c.sent[j] = full[j]
           /\ c.err = "Ok" => k = Len(full)
  BY <1>3, <1>4, SelectOutcome
<1>6. PICK k \in 0..all :
           /\ DOMAIN c.sent = 1..k
           /\ \A j \in 1..k : c.sent[j] = full[j]
           /\ c.err = "Ok" => k = all
  BY <1>3, <1>5
<1>7. \A j \in 1..k : c.sent[j] = Sent(rows[j], NoName, j - 1)
  BY <1>3, <1>6
<1>8. Stopped(c, rows, all)
  BY <1>6, <1>7 DEF Stopped
<1> QED BY <1>1, <1>5, <1>8

(* A fetch of the readings ids hands over the smallest of them, all of     *)
(* them when it returns Ok.                                                *)
LEMMA FetchDelivers ==
  ASSUME TablesInv, NEW ids \in SUBSET ValueIds, NEW rows \in InOrder(ids),
         NEW c, Stopped(c, rows, Cardinality(ids)), NEW out, DOMAIN out = DOMAIN c.sent,
         \A j \in DOMAIN c.sent : out[j] = c.sent[j].id
  PROVE  /\ Range(out) \subseteq ids
         /\ \A j, l \in DOMAIN out : j < l => out[j] < out[l]
         /\ \A j \in DOMAIN out, id \in ids : id < out[j] => id \in Range(out)
         /\ \A j \in DOMAIN c.sent : c.sent[j].index = j - 1 /\ j - 1 \in Nat
         /\ c.err = "Ok" => Range(out) = ids
<1>1. PICK k \in 0..Cardinality(ids) :
           /\ DOMAIN c.sent = 1..k
           /\ \A j \in 1..k : c.sent[j] = Sent(rows[j], NoName, j - 1)
           /\ c.err = "Ok" => k = Cardinality(ids)
  BY DEF Stopped
<1>2. IsFiniteSet(ids) /\ ids \in SUBSET Nat /\ Cardinality(ids) \in Nat
  BY FiniteIds
<1>3. PICK sent : sent = c.sent
  OBVIOUS
<1>4. Handed(rows, k, sent, out)
  BY <1>1, <1>3 DEF Handed
<1>5. /\ Range(out) \subseteq ids
      /\ \A j, l \in DOMAIN out : j < l => out[j] < out[l]
      /\ \A j \in DOMAIN out, id \in ids : id < out[j] => id \in Range(out)
      /\ \A j \in DOMAIN out : sent[j].index = j - 1
      /\ k = Cardinality(ids) => Range(out) = ids
  BY <1>2, <1>4, DeliversPrefix
<1>6. \A j \in 1..k : j - 1 \in Nat
  BY <1>1, <1>2
<1> QED BY <1>1, <1>3, <1>5, <1>6


(* What the caller learns from a fetch and from a count.                   *)
LEMMA FetchStep ==
  ASSUME TablesInv, UNCHANGED dbVars,
         NEW op \in {"fetch_variable_values", "fetch_variable_values_between"},
         NEW name \in Names, NEW start, NEW end,
         NEW ids \in SUBSET ValueIds, NEW rows \in InOrder(ids),
         NEW c, c = call',
         Outcome(c, Ranged(op, name, start, end), SentValues(rows)),
         ids = Asked(c)
  PROVE  AnswerInv'
<1>1. /\ c.op = op /\ c.name = name /\ c.count = 0
      /\ c.err \in {"Ok", "Failed"}
      /\ Stopped(c, rows, Cardinality(ids))
  BY FetchOutcome
<1>2. PICK out : out = [j \in DOMAIN c.sent |-> c.sent[j].id]
  OBVIOUS
<1>3. DOMAIN out = DOMAIN c.sent /\ \A j \in DOMAIN c.sent : out[j] = c.sent[j].id
  BY <1>2
<1>4. /\ Range(out) \subseteq ids
      /\ \A j, l \in DOMAIN out : j < l => out[j] < out[l]
      /\ \A j \in DOMAIN out, id \in ids : id < out[j] => id \in Range(out)
      /\ \A j \in DOMAIN c.sent : c.sent[j].index = j - 1 /\ j - 1 \in Nat
      /\ c.err = "Ok" => Range(out) = ids
  <2> HIDE <1>2
  <2> QED BY <1>1, <1>3, FetchDelivers
<1>5. Asked(call)' = ids
  BY DEF Asked, dbVars, ValueIds
<1>6. FetchDeliversWhatWasAsked'
  <2>1. [j \in DOMAIN call'.sent |-> call'.sent[j].id] = out
    BY <1>2
  <2>2. \A j \in DOMAIN out : call'.sent[j].index = j - 1
    BY <1>3, <1>4
  <2>3. call'.err = "Ok" => Range(out) = ids
    BY <1>4
  <2> QED BY <1>4, <1>5, <2>1, <2>2, <2>3 DEF FetchDeliversWhatWasAsked
<1>7. CountAgreesWithFetch'
  BY <1>1 DEF CountAgreesWithFetch
<1>8. CallInv'
  <2>1. \A j \in DOMAIN c.sent : c.sent[j].index \in Nat
    BY <1>4
  <2>2. /\ c.err \in {"Ok", "Failed"} /\ c.name \in Names \cup {NoName}
        /\ c.count \in Nat
    BY <1>1
  <2> QED BY <2>1, <2>2 DEF CallInv
<1> QED BY <1>6, <1>7, <1>8 DEF AnswerInv

LEMMA CountStep ==
  ASSUME TablesInv, UNCHANGED dbVars,
         NEW op \in {"count_variable_values", "count_variable_values_between"},
         NEW name \in Names, NEW start, NEW end, NEW ids \in SUBSET ValueIds,
         NEW c, c = call',
         \/ c = [Ranged(op, name, start, end) EXCEPT !.count = Cardinality(ids)]
         \/ c = [Ranged(op, name, start, end) EXCEPT !.err = "Failed"],
         ids = Asked(c)
  PROVE  AnswerInv'
<1>1. Cardinality(ids) \in Nat
  BY FiniteIds
<1>2. PICK n : n = Cardinality(ids)
  OBVIOUS
<1>3. /\ c.op = op /\ c.name = name /\ c.err \in {"Ok", "Failed"}
      /\ c.sent = <<>> /\ c.count \in {0, n}
      /\ c.err = "Ok" => c.count = n
  BY <1>2 DEF Ranged, Called
<1>4. Asked(call)' = ids
  BY DEF Asked, dbVars, ValueIds
<1>5. CountAgreesWithFetch'
  <2>1. Cardinality(Asked(call))' = n
    BY <1>2, <1>4
  <2> QED BY <1>3, <2>1 DEF CountAgreesWithFetch
<1>6. FetchDeliversWhatWasAsked'
  BY <1>3 DEF FetchDeliversWhatWasAsked
<1>7. CallInv'
  <2>1. c.count \in Nat
    BY <1>1, <1>2, <1>3
  <2>2. \A k \in DOMAIN c.sent : c.sent[k].index \in Nat
    BY <1>3
  <2> QED BY <1>3, <2>1, <2>2 DEF CallInv
<1> QED BY <1>5, <1>6, <1>7 DEF AnswerInv

(* fetch_variables hands over rows of VARIABLE, with index 0.              *)
LEMMA FetchVariablesStep ==
  ASSUME TablesInv, fetch_variables
  PROVE  AnswerInv'
<1>1. PICK sent : sent = [id \in VariableIds |-> Sent(id, variable[id].name, 0)]
  OBVIOUS
<1>2. Len(variable) \in Nat
  BY DEF TablesInv, TablesTypeOK
<1>3. /\ sent \in Seq(Range(sent)) /\ Len(sent) = Len(variable)
      /\ \A j \in 1..Len(sent) : sent[j].index = 0
  BY <1>1, <1>2 DEF VariableIds, Range, Sent
<1>4. PICK c : c = call'
  OBVIOUS
<1>5. \/ c = [Called("fetch_variables", NoName, "Ok") EXCEPT !.sent = sent]
      \/ \E k \in 0..Len(sent) :
           c = [Called("fetch_variables", NoName, "Ok")
                  EXCEPT !.sent = SubSeq(sent, 1, k), !.err = "Failed"]
  BY <1>1, <1>4 DEF fetch_variables, Select
<1>6. Called("fetch_variables", NoName, "Ok")
        = Ranged("fetch_variables", NoName, 0, 0)
  BY RangedRecord DEF Called
<1>7. Outcome(c, Ranged("fetch_variables", NoName, 0, 0), sent)
  BY <1>5, <1>6 DEF Outcome
<1>8. /\ c.op = "fetch_variables" /\ c.name = NoName /\ c.count = 0
      /\ c.err \in {"Ok", "Failed"}
      /\ \E k \in 0..Len(sent) :
           /\ DOMAIN c.sent = 1..k
           /\ \A j \in 1..k : c.sent[j] = sent[j]
           /\ c.err = "Ok" => k = Len(sent)
  <2> HIDE <1>5
  <2> QED BY <1>3, <1>7, SelectOutcome
<1>9. \A j \in DOMAIN c.sent : c.sent[j].index \in Nat
  BY <1>2, <1>3, <1>8
<1>10. CallInv'
  BY <1>4, <1>8, <1>9 DEF CallInv
<1> QED BY <1>4, <1>8, <1>10, OtherCalls


LEMMA ReadsAnswer ==
  ASSUME TablesInv, Reads
  PROVE  AnswerInv'
<1>1. UNCHANGED dbVars
  BY ReadsOnly
<1>2. PICK c : c = call'
  OBVIOUS
<1>3. CASE Reopen
  <2>1. call' = Called("open", NoName, "Ok")
    BY <1>3 DEF Reopen
  <2> QED BY <2>1, PlainCall
<1>4. CASE fetch_variables
  BY <1>4, FetchVariablesStep
<1>5. ASSUME NEW n \in Names, fetch_variable_values(n)
      PROVE  AnswerInv'
  <2>1. PICK rows \in InOrder(SelectValues(n)) :
          Select(Called("fetch_variable_values", n, "Ok"), CanSelectValues,
                 SentValues(rows))
    BY <1>5 DEF fetch_variable_values
  <2>2. Called("fetch_variable_values", n, "Ok")
          = Ranged("fetch_variable_values", n, 0, 0)
    BY RangedRecord DEF Called
  <2>3. Outcome(c, Ranged("fetch_variable_values", n, 0, 0), SentValues(rows))
    BY <1>2, <2>1, <2>2 DEF Select, Outcome
  <2>4. c.op = "fetch_variable_values" /\ c.name = n
    BY <2>3, FetchOutcome DEF SelectValues
  <2>5. SelectValues(n) = Asked(c)
    BY <2>4, AskedOfAll
  <2>6. SelectValues(n) \in SUBSET ValueIds
    BY DEF SelectValues
  <2> QED BY <1>1, <1>2, <2>3, <2>5, <2>6, FetchStep
<1>6. ASSUME NEW n \in Names, count_variable_values(n)
      PROVE  AnswerInv'
  <2>1. Called("count_variable_values", n, "Ok")
          = Ranged("count_variable_values", n, 0, 0)
    BY RangedRecord DEF Called
  <2>2. \/ c = [Ranged("count_variable_values", n, 0, 0)
                  EXCEPT !.count = Cardinality(SelectValues(n))]
        \/ c = [Ranged("count_variable_values", n, 0, 0) EXCEPT !.err = "Failed"]
    BY <1>2, <1>6, <2>1 DEF count_variable_values, Count
  <2>3. c.op = "count_variable_values" /\ c.name = n
    BY <2>2, RangedRecord
  <2>4. SelectValues(n) = Asked(c)
    BY <2>3, AskedOfAll
  <2>5. SelectValues(n) \in SUBSET ValueIds
    BY DEF SelectValues
  <2> QED BY <1>1, <1>2, <2>2, <2>4, <2>5, CountStep
<1>7. ASSUME NEW n \in Names, NEW start \in Clock, NEW end \in Clock,
             fetch_variable_values_between(n, start, end)
      PROVE  AnswerInv'
  <2>1. PICK rows \in InOrder(SelectValuesBetween(n, start, end)) :
          Select([Called("fetch_variable_values_between", n, "Ok")
                    EXCEPT !.start = start, !.end = end],
                 CanSelectValues, SentValues(rows))
    BY <1>7 DEF fetch_variable_values_between
  <2>2. Outcome(c, Ranged("fetch_variable_values_between", n, start, end),
                SentValues(rows))
    BY <1>2, <2>1 DEF Select, Outcome, Ranged
  <2>3. SelectValuesBetween(n, start, end) \in SUBSET ValueIds
    BY DEF SelectValuesBetween, SelectValues
  <2>4. /\ c.op = "fetch_variable_values_between" /\ c.name = n
        /\ c.start = start /\ c.end = end
    BY <2>2, <2>3, FetchOutcome
  <2>5. SelectValuesBetween(n, start, end) = Asked(c)
    BY <2>4, AskedOfRange
  <2> QED BY <1>1, <1>2, <2>2, <2>3, <2>5, FetchStep
<1>8. ASSUME NEW n \in Names, NEW start \in Clock, NEW end \in Clock,
             count_variable_values_between(n, start, end)
      PROVE  AnswerInv'
  <2>1. \/ c = [Ranged("count_variable_values_between", n, start, end)
                  EXCEPT !.count = Cardinality(SelectValuesBetween(n, start, end))]
        \/ c = [Ranged("count_variable_values_between", n, start, end)
                  EXCEPT !.err = "Failed"]
    BY <1>2, <1>8 DEF count_variable_values_between, Count, Ranged
  <2>2. /\ c.op = "count_variable_values_between" /\ c.name = n
        /\ c.start = start /\ c.end = end
    BY <2>1, RangedRecord
  <2>3. SelectValuesBetween(n, start, end) = Asked(c)
    BY <2>2, AskedOfRange
  <2>4. SelectValuesBetween(n, start, end) \in SUBSET ValueIds
    BY DEF SelectValuesBetween, SelectValues
  <2> QED BY <1>1, <1>2, <2>1, <2>3, <2>4, CountStep
<1> QED BY <1>3, <1>4, <1>5, <1>6, <1>7, <1>8 DEF Reads

LEMMA AnswerStep == DataInv /\ AnswerInv /\ [Next]_vars => AnswerInv'
<1> SUFFICES ASSUME DataInv, AnswerInv, [Next]_vars PROVE AnswerInv'
  OBVIOUS
<1>1. CASE UNCHANGED vars
  BY <1>1 DEF vars, dbVars, AnswerInv, CallInv, FetchDeliversWhatWasAsked,
              CountAgreesWithFetch, Asked, ValueIds
<1>2. CASE create_scheme
  <2>1. \E err \in {"Ok", "Failed"} : call' = Called("create_scheme", NoName, err)
    BY <1>2 DEF create_scheme
  <2> QED BY <2>1, PlainCall
<1>3. CASE \E n \in Names, color \in Colors : add_variable(n, color)
  <2>1. \E n \in Names, err \in {"Ok", "Failed"} :
          call' = Called("add_variable", n, err)
    BY <1>3 DEF add_variable
  <2> QED BY <2>1, PlainCall
<1>4. CASE \E n \in Names, v \in Vals : add_variable_value(n, v)
  <2>1. \E n \in Names, err \in {"Ok", "Failed"} :
          call' = Called("add_variable_value", n, err)
    BY <1>4 DEF add_variable_value
  <2> QED BY <2>1, PlainCall
<1>5. CASE Reads
  BY <1>5, ReadsAnswer DEF DataInv
<1> QED BY <1>1, <1>2, <1>3, <1>4, <1>5, NextCases
-----------------------------------------------------------------------------
WrapperInv == DataInv /\ AnswerInv

LEMMA InitWrapper == Init => WrapperInv
<1> SUFFICES ASSUME Init PROVE WrapperInv
  OBVIOUS
<1>1. /\ call.op = "open" /\ call.name = NoName /\ call.err = "Ok"
      /\ call.sent = <<>> /\ call.count = 0
  BY CalledFields DEF Init
<1>2. CallInv
  BY <1>1 DEF CallInv
<1>3. AnswerInv
  BY <1>1, <1>2 DEF AnswerInv, FetchDeliversWhatWasAsked, CountAgreesWithFetch
<1>4. DataInv
  BY EmptyTables DEF Init, DataInv, StoredWithinPrecision, EmptyDatabase, ValueIds
<1> QED BY <1>3, <1>4 DEF WrapperInv

(* The inductive invariant holds of every state of the data source.        *)
THEOREM WrapperInvariant == Spec => []WrapperInv
<1>1. Init => WrapperInv
  BY InitWrapper
<1>2. WrapperInv /\ [Next]_vars => WrapperInv'
  BY DataStep, AnswerStep DEF WrapperInv
<1> QED BY <1>1, <1>2, PTL DEF Spec

(* Types of the tables, the answers and the stored readings.               *)
THEOREM TypeCorrect == Spec => []TypeOK
<1>1. WrapperInv => TypeOK
  BY DEF WrapperInv, DataInv, AnswerInv, CallInv, TypeOK, TablesInv
<1> QED BY <1>1, WrapperInvariant, PTL

(* A fetch hands over the readings asked for, in the order of their        *)
(* insertion and without a gap: all of them, or the first ones when it     *)
(* fails on the way.                                                       *)
THEOREM FetchIsComplete == Spec => []FetchDeliversWhatWasAsked
<1>1. WrapperInv => FetchDeliversWhatWasAsked
  BY DEF WrapperInv, AnswerInv
<1> QED BY <1>1, WrapperInvariant, PTL

(* A count that returns Ok is the number of readings a fetch would hand    *)
(* over.                                                                   *)
THEOREM CountIsExact == Spec => []CountAgreesWithFetch
<1>1. WrapperInv => CountAgreesWithFetch
  BY DEF WrapperInv, AnswerInv
<1> QED BY <1>1, WrapperInvariant, PTL

(* Every reading is stored once, to within half of the sixth decimal of    *)
(* the double that was given, or of its sixteen leading digits all but the *)
(* last, where the text of the statement has no more than these.           *)
THEOREM PrecisionKept == Spec => []StoredWithinPrecision
<1>1. WrapperInv => StoredWithinPrecision
  BY DEF WrapperInv, DataInv
<1> QED BY <1>1, WrapperInvariant, PTL

LEMMA AppendPrefix ==
  ASSUME NEW S, NEW s \in Seq(S), NEW e \in S
  PROVE  IsPrefix(s, Append(s, e)) /\ IsPrefix(s, s)
BY DEF IsPrefix

(* No call changes or removes a row, and one that fails adds none.         *)
THEOREM RowsAreKept == Spec => AppendOnly
<1> DEFINE Step == /\ IsPrefix(variable, variable')
                   /\ IsPrefix(variable_value, variable_value')
                   /\ call'.err = "Failed" => UNCHANGED <<variable, variable_value>>
<1>1. WrapperInv /\ [Next]_vars => [Step]_vars
  <2> SUFFICES ASSUME WrapperInv, [Next]_vars PROVE Step \/ UNCHANGED vars
    OBVIOUS
  <2>1. /\ TablesInv
        /\ variable \in Seq(VariableRow) /\ variable_value \in Seq(ValueRow)
    BY DEF WrapperInv, DataInv, TablesInv, TablesTypeOK
  <2>2. IsPrefix(variable, variable) /\ IsPrefix(variable_value, variable_value)
    BY <2>1 DEF IsPrefix
  <2>3. ASSUME UNCHANGED <<variable, variable_value>> PROVE Step
    BY <2>2, <2>3
  <2>4. CASE create_scheme
    BY <2>3, <2>4 DEF create_scheme
  <2>5. ASSUME NEW n \in Names, NEW color \in Colors, add_variable(n, color)
        PROVE  Step
    <3>1. CASE UNCHANGED dbVars
      BY <2>3, <3>1 DEF dbVars
    <3>2. CASE InsertVariable(n, color) /\ call' = Called("add_variable", n, "Ok")
      <4>1. call'.err = "Ok"
        BY <3>2, CalledFields
      <4>2. PICK row \in VariableRow :
              variable' = Append(variable, row) /\ variable_value' = variable_value
        BY <3>2 DEF InsertVariable, VariableRow
      <4>3. IsPrefix(variable, variable')
        BY <2>1, <4>2, AppendPrefix
      <4>4. IsPrefix(variable_value, variable_value')
        BY <2>2, <4>2
      <4> QED BY <4>1, <4>3, <4>4
    <3> QED BY <2>5, <3>1, <3>2 DEF add_variable
  <2>6. ASSUME NEW n \in Names, NEW v \in Vals, add_variable_value(n, v)
        PROVE  Step
    <3>1. CASE UNCHANGED dbVars
      BY <2>3, <3>1 DEF dbVars
    <3>2. ASSUME NEW now \in Clock, InsertValue(n, v, now),
                 call' = Called("add_variable_value", n, "Ok")
          PROVE  Step
      <4>1. call'.err = "Ok"
        BY <3>2, CalledFields
      <4>2. ValueRowOf(n, v, now) \in ValueRow
        BY <2>1, <3>2, ValueRowType DEF InsertValue
      <4>3. PICK row \in ValueRow :
              variable_value' = Append(variable_value, row) /\ variable' = variable
        BY <3>2, <4>2 DEF InsertValue
      <4>4. IsPrefix(variable_value, variable_value')
        BY <2>1, <4>3, AppendPrefix
      <4>5. IsPrefix(variable, variable')
        BY <2>2, <4>3
      <4> QED BY <4>1, <4>4, <4>5
    <3> QED BY <2>6, <3>1, <3>2 DEF add_variable_value
  <2>7. CASE Reads
    BY <2>3, <2>7, ReadsOnly DEF dbVars
  <2> QED BY <2>4, <2>5, <2>6, <2>7, NextCases
<1> QED BY <1>1, WrapperInvariant, PTL DEF Spec, AppendOnly

(* Once any table exists no later call creates the missing one.            *)
THEOREM SchemaOnce == Spec => SchemaIsCreatedOnce
<1>1. WrapperInv /\ [Next]_vars => [tables # {} => tables' = tables]_vars
  <2> SUFFICES ASSUME WrapperInv, [Next]_vars, tables # {} PROVE tables' = tables
    OBVIOUS
  <2>1. CASE UNCHANGED vars
    BY <2>1 DEF vars, dbVars
  <2>2. CASE create_scheme
    BY <2>2, SchemeTables DEF WrapperInv, DataInv
  <2>3. CASE \E n \in Names, color \in Colors : add_variable(n, color)
    BY <2>3 DEF add_variable, InsertVariable, dbVars
  <2>4. CASE \E n \in Names, v \in Vals : add_variable_value(n, v)
    BY <2>4 DEF add_variable_value, InsertValue, dbVars
  <2>5. CASE Reads
    BY <2>5, ReadsOnly DEF dbVars
  <2> QED BY <2>1, <2>2, <2>3, <2>4, <2>5, NextCases
<1> QED BY <1>1, WrapperInvariant, PTL DEF Spec, SchemaIsCreatedOnce
=============================================================================
