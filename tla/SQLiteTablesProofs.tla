-------------------------- MODULE SQLiteTablesProofs --------------------------
(***************************************************************************)
(* What every statement the data source executes preserves of the tables,  *)
(* for any names, values and clock.                                        *)
(***************************************************************************)
EXTENDS SQLiteTables, TLAPS

TablesInv == TablesTypeOK /\ Integrity

(* One element is appended: what was there stays, and the type is kept.    *)
LEMMA AppendRow ==
  ASSUME NEW S, NEW s \in Seq(S), NEW e \in S
  PROVE  /\ Append(s, e) \in Seq(S)
         /\ Len(Append(s, e)) = Len(s) + 1
         /\ Len(s) \in Nat
         /\ \A k \in 1..Len(s) : Append(s, e)[k] = s[k]
         /\ Append(s, e)[Len(s) + 1] = e
OBVIOUS

LEMMA EmptyTables == EmptyDatabase => TablesInv
BY DEF EmptyDatabase, TablesInv, TablesTypeOK, Integrity, NamesUnique,
       ReferencesResolve, RowsHaveTables, VariableIds, ValueIds

LEMMA TablesUnchanged == TablesInv /\ UNCHANGED dbVars => TablesInv'
BY DEF dbVars, TablesInv, TablesTypeOK, Integrity, NamesUnique,
       ReferencesResolve, RowsHaveTables, VariableIds, ValueIds

(* The tables are created in their order: VARIABLE_VALUE only where        *)
(* VARIABLE is.                                                            *)
LEMMA CreateTableInv ==
  ASSUME TablesInv, NEW t \in Tables, CreateTable(t),
         t = "VARIABLE_VALUE" => "VARIABLE" \in tables
  PROVE  TablesInv'
BY DEF CreateTable, CanCreate, Tables, TablesInv, TablesTypeOK, Integrity,
       NamesUnique, ReferencesResolve, RowsHaveTables, VariableIds, ValueIds

LEMMA InsertVariableInv ==
  ASSUME TablesInv, NEW n \in Names, NEW color \in Colors, InsertVariable(n, color)
  PROVE  TablesInv'
<1> DEFINE row == [name |-> n, color |-> color]
<1>1. /\ variable \in Seq(VariableRow) /\ row \in VariableRow
      /\ variable' = Append(variable, row)
      /\ tables' = tables /\ variable_value' = variable_value
      /\ "VARIABLE" \in tables
      /\ \A id \in VariableIds : variable[id].name # n
  BY DEF TablesInv, TablesTypeOK, InsertVariable, CanInsertVariable, SelectId, VariableRow
<1>2. /\ variable' \in Seq(VariableRow)
      /\ Len(variable') = Len(variable) + 1
      /\ Len(variable) \in Nat
      /\ \A k \in 1..Len(variable) : variable'[k] = variable[k]
      /\ variable'[Len(variable) + 1] = row
  BY <1>1, AppendRow
<1>3. VariableIds' = VariableIds \cup {Len(variable) + 1} /\ ValueIds' = ValueIds
  BY <1>1, <1>2 DEF VariableIds, ValueIds
<1>4. TablesTypeOK'
  BY <1>1, <1>2 DEF TablesInv, TablesTypeOK
<1>5. NamesUnique'
  <2>1. \A id \in VariableIds : variable'[id] = variable[id]
    BY <1>2 DEF VariableIds
  <2>2. row.name = n
    OBVIOUS
  <2> SUFFICES ASSUME NEW j \in VariableIds', NEW k \in VariableIds',
                      variable'[j].name = variable'[k].name
               PROVE  j = k
    BY Zenon DEF NamesUnique
  <2>3. NamesUnique
    BY DEF TablesInv, Integrity
  <2>4. CASE j \in VariableIds /\ k \in VariableIds
    BY <2>1, <2>3, <2>4, Zenon DEF NamesUnique
  <2>5. CASE j \notin VariableIds \/ k \notin VariableIds
    <3> HIDE DEF row
    <3> QED BY <1>1, <1>2, <1>3, <2>1, <2>2, <2>5, Zenon
  <2> QED BY <2>4, <2>5
<1>6. ReferencesResolve'
  BY <1>1, <1>3 DEF TablesInv, Integrity, ReferencesResolve
<1>7. RowsHaveTables'
  BY <1>1 DEF TablesInv, Integrity, RowsHaveTables
<1> QED BY <1>4, <1>5, <1>6, <1>7 DEF TablesInv, Integrity

(* The row of a reading has the shape of its table and refers to a row.    *)
LEMMA ValueRowType ==
  ASSUME TablesInv, NEW n \in Names, NEW v \in Vals, NEW now \in Clock,
         CanInsertValue(n, v)
  PROVE  /\ ValueRowOf(n, v, now) \in ValueRow
         /\ ValueRowOf(n, v, now).variable_id \in SelectId(n)
         /\ ValueRowOf(n, v, now).variable_id \in VariableIds
<1> DEFINE row == ValueRowOf(n, v, now)
<1>1. SelectId(n) # {} /\ v \in Vals \ {NotFinite}
  BY DEF CanInsertValue
<1>2. row.variable_id \in SelectId(n)
  BY <1>1 DEF ValueRowOf
<1>3. row.variable_id \in VariableIds
  BY <1>2 DEF SelectId
<1>4. row.variable_id \in Nat \ {0}
  BY <1>3 DEF VariableIds, TablesInv, TablesTypeOK
<1>5. ToSixDecimals(v) \in StoredVals
  BY <1>1 DEF StoredVals
<1>6. row \in ValueRow
  BY <1>4, <1>5 DEF ValueRowOf, ValueRow
<1> QED BY <1>2, <1>3, <1>6

LEMMA InsertValueInv ==
  ASSUME TablesInv, NEW n \in Names, NEW v \in Vals, NEW now \in Clock,
         InsertValue(n, v, now)
  PROVE  TablesInv'
<1> DEFINE row == ValueRowOf(n, v, now)
<1>1. /\ variable_value \in Seq(ValueRow)
      /\ variable_value' = Append(variable_value, row)
      /\ tables' = tables /\ variable' = variable
      /\ CanInsertValue(n, v)
  BY DEF TablesInv, TablesTypeOK, InsertValue
<1>2. row \in ValueRow /\ row.variable_id \in VariableIds
  BY <1>1, ValueRowType
<1> HIDE DEF row
<1>3. /\ variable_value' \in Seq(ValueRow)
      /\ Len(variable_value') = Len(variable_value) + 1
      /\ Len(variable_value) \in Nat
      /\ \A k \in 1..Len(variable_value) : variable_value'[k] = variable_value[k]
      /\ variable_value'[Len(variable_value) + 1] = row
  BY <1>1, <1>2, AppendRow
<1>4. VariableIds' = VariableIds /\ ValueIds' = ValueIds \cup {Len(variable_value) + 1}
  BY <1>1, <1>3 DEF VariableIds, ValueIds
<1>5. TablesTypeOK'
  BY <1>1, <1>3 DEF TablesInv, TablesTypeOK
<1>6. NamesUnique'
  BY <1>1, <1>4 DEF TablesInv, Integrity, NamesUnique
<1>7. ReferencesResolve'
  <2>1. \A id \in ValueIds : variable_value'[id] = variable_value[id]
    BY <1>3 DEF ValueIds
  <2> QED BY <1>2, <1>3, <1>4, <2>1 DEF TablesInv, Integrity, ReferencesResolve
<1>8. RowsHaveTables'
  BY <1>1 DEF TablesInv, Integrity, RowsHaveTables, CanInsertValue, Tables
<1> QED BY <1>5, <1>6, <1>7, <1>8 DEF TablesInv, Integrity
=============================================================================
