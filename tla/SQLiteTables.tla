---------------------------- MODULE SQLiteTables ----------------------------
(***************************************************************************)
(* The database file behind SQLiteWrapper: which of its two tables exist   *)
(* and the rows they hold, with one operator per SQL statement the wrapper *)
(* executes.  A row's ID is its index: both tables are AUTOINCREMENT and   *)
(* nothing is ever deleted, so IDs are 1, 2, 3, ...  The SELECT statements *)
(* have no ORDER BY; SQLite visits the rows in ID order, so the result of  *)
(* a SELECT is given by the set of the IDs it visits.                      *)
(*                                                                         *)
(* A double is an integer number of 10^-7 units, one decimal more than the *)
(* six the INSERT statement prints with %f; and that prints no more than   *)
(* the leading digits of a long number, zeros for the others.              *)
(***************************************************************************)
EXTENDS Integers, Sequences, FiniteSets

CONSTANTS Names,      \* names of variables
          Colors,     \* their colors
          Vals,       \* the doubles a reading may be: integers or NotFinite
          NotFinite,  \* an infinity or a NaN
          MaxSignificand,  \* the first number with too many digits for %f:
                           \* 10^16, for it prints sixteen
          PowersOfTen,     \* those up to the largest double
          Clock,      \* readings of system_clock, in milliseconds
          IoErrors    \* TRUE when any statement may fail (disk full, locked)

(* The absolute value of v in millionths, halves rounded up.               *)
Millionths(v) == ((IF v >= 0 THEN v ELSE -v) + 5) \div 10

(* The place of the last digit of n that is printed as it is.              *)
Places(n) ==
  {p \in PowersOfTen : /\ n < MaxSignificand * p
                       /\ p = 1 \/ MaxSignificand * p <= 10 * n}

ASSUME TablesAssumption ==
  /\ Clock \subseteq Nat
  /\ Vals \subseteq Int \cup {NotFinite}
  /\ NotFinite \notin Int
  /\ IoErrors \in BOOLEAN

ASSUME PrecisionAssumption ==
  /\ MaxSignificand \in Nat /\ MaxSignificand >= 10
  /\ \A p \in PowersOfTen : p \in Nat \ {0} /\ (p = 1 \/ p % 10 = 0)
  /\ \A v \in Vals \ {NotFinite} : Places(Millionths(v)) # {}

VARIABLES tables,          \* the tables that exist
          variable,        \* rows of VARIABLE
          variable_value   \* rows of VARIABLE_VALUE

dbVars == <<tables, variable, variable_value>>

(* n with zeros for the digits after the last one that is printed.         *)
Significant(n) == n - (n % (CHOOSE p \in Places(n) : TRUE))

(* Mutant: the fraction is cut off instead of rounded.                     *)
ToSixDecimals_Truncated(v) == 10 * (v \div 10)

(* sqlite3_mprintf("%f"): six decimals, halves away from zero, as far as   *)
(* the digits reach.                                                       *)
ToSixDecimals(v) == IF v >= 0 THEN 10 * Significant(Millionths(v))
                              ELSE -(10 * Significant(Millionths(v)))

(* What a column VAL can hold.                                             *)
StoredVals == {ToSixDecimals(v) : v \in Vals \ {NotFinite}}

Tables == {"VARIABLE", "VARIABLE_VALUE"}
VariableRow == [name : Names, color : Colors]
ValueRow == [val : StoredVals, timestamp : Clock, variable_id : Nat \ {0}]

(* A file that did not exist: sqlite3_open creates it empty.               *)
EmptyDatabase ==
  /\ tables = {}
  /\ variable = <<>>
  /\ variable_value = <<>>

VariableIds == 1..Len(variable)
ValueIds == 1..Len(variable_value)

(* SELECT ID FROM VARIABLE WHERE NAME = n: NULL when the set is empty.     *)
SelectId(n) == {id \in VariableIds : variable[id].name = n}

(* sqlite3_exec returns something else than SQLITE_OK for a statement that *)
(* the state of the tables allows (can) or not.                            *)
Fails(can) == ~can \/ IoErrors

(* Mutant: CREATE TABLE IF NOT EXISTS.                                     *)
CanCreate_IfNotExists(t) == TRUE

(* CREATE TABLE t: an error when t exists.                                 *)
CanCreate(t) == t \notin tables

CreateTable(t) ==
  /\ CanCreate(t)
  /\ tables' = tables \cup {t}
  /\ UNCHANGED <<variable, variable_value>>

(* Mutant: NAME is not declared UNIQUE.                                    *)
CanInsertVariable_NotUnique(n) == "VARIABLE" \in tables

(* INSERT INTO VARIABLE: NAME is UNIQUE.                                   *)
CanInsertVariable(n) == "VARIABLE" \in tables /\ SelectId(n) = {}

InsertVariable(n, color) ==
  /\ CanInsertVariable(n)
  /\ variable' = Append(variable, [name |-> n, color |-> color])
  /\ UNCHANGED <<tables, variable_value>>

(***************************************************************************)
(* INSERT INTO VARIABLE_VALUE(VAL, TIMESTAMP, VARIABLE_ID) VALUES(v, now,  *)
(* (SELECT ID ...)): an unknown name makes VARIABLE_ID NULL, which NOT     *)
(* NULL rejects (the foreign key is not enforced: SQLite's default); the   *)
(* text of an infinity or a NaN is no SQL literal.                         *)
(***************************************************************************)
CanInsertValue(n, v) ==
  /\ Tables \subseteq tables
  /\ SelectId(n) # {}
  /\ v # NotFinite

(* Mutant: the time is counted in seconds.                                 *)
ValueRowOf_Seconds(n, v, now) ==
  [val |-> ToSixDecimals(v), timestamp |-> now \div 1000,
   variable_id |-> CHOOSE id \in SelectId(n) : TRUE]

ValueRowOf(n, v, now) ==
  [val |-> ToSixDecimals(v), timestamp |-> now,
   variable_id |-> CHOOSE id \in SelectId(n) : TRUE]

(* Mutant: INSERT OR REPLACE of the variable's previous reading.           *)
InsertValue_Replacing(n, v, now) ==
  /\ CanInsertValue(n, v)
  /\ variable_value' =
       Append(SelectSeq(variable_value,
                        LAMBDA row : row.variable_id \notin SelectId(n)),
              ValueRowOf(n, v, now))
  /\ UNCHANGED <<tables, variable>>

(* Mutant: the statement is executed again after it succeeded.             *)
InsertValue_Twice(n, v, now) ==
  /\ CanInsertValue(n, v)
  /\ LET row == ValueRowOf(n, v, now)
     IN  variable_value' = variable_value \o <<row, row>>
  /\ UNCHANGED <<tables, variable>>

InsertValue(n, v, now) ==
  /\ CanInsertValue(n, v)
  /\ variable_value' = Append(variable_value, ValueRowOf(n, v, now))
  /\ UNCHANGED <<tables, variable>>

(* The SELECT statements: they fail when a table is missing.               *)
CanSelectVariables == "VARIABLE" \in tables
CanSelectValues == Tables \subseteq tables

SelectValues(n) ==
  {id \in ValueIds : variable_value[id].variable_id \in SelectId(n)}

(* Mutant: the end of the date range is excluded.                          *)
SelectValuesBetween_HalfOpen(n, start, end) ==
  {id \in SelectValues(n) : /\ variable_value[id].timestamp >= start
                            /\ variable_value[id].timestamp < end}

SelectValuesBetween(n, start, end) ==
  {id \in SelectValues(n) : /\ variable_value[id].timestamp >= start
                            /\ variable_value[id].timestamp <= end}
-----------------------------------------------------------------------------
TablesTypeOK ==
  /\ tables \subseteq Tables
  /\ variable \in Seq(VariableRow)
  /\ variable_value \in Seq(ValueRow)

(* No two variables share a name.                                          *)
NamesUnique ==
  \A j, k \in VariableIds : variable[j].name = variable[k].name => j = k

(* Every reading belongs to a variable, though no foreign key is enforced. *)
ReferencesResolve ==
  \A id \in ValueIds : variable_value[id].variable_id \in VariableIds

(* Rows live in tables that exist, and the tables come in their order.     *)
RowsHaveTables ==
  /\ variable # <<>> => "VARIABLE" \in tables
  /\ variable_value # <<>> => "VARIABLE_VALUE" \in tables
  /\ "VARIABLE_VALUE" \in tables => "VARIABLE" \in tables

Integrity == NamesUnique /\ ReferencesResolve /\ RowsHaveTables
=============================================================================
