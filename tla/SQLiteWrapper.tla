--------------------------- MODULE SQLiteWrapper ----------------------------
(***************************************************************************)
(* SQLiteWrapper, the implementation of IDataSource: one action per        *)
(* function.  The functions run to completion on the server's only thread, *)
(* so an action is a whole call; call holds what the caller saw of the     *)
(* last one: its result and, in order, the invocations of its callback.    *)
(***************************************************************************)
EXTENDS SQLiteTables, SequencesExt

CONSTANTS NoName,     \* the empty name of a default constructed Variable
          MaxRows     \* bound: rows per table

ASSUME WrapperAssumption ==
  /\ MaxRows \in Nat

VARIABLES call,    \* the last call and what it gave its caller
          given    \* history: the doubles of the readings that were stored

vars == <<dbVars, call, given>>

(* send_vale(val, index), for the row or variable with the given ID.       *)
Sent(id, name, index) == [id |-> id, name |-> name, index |-> index]

Called(op, name, err) ==
  [op |-> op, name |-> name, err |-> err, sent |-> <<>>, count |-> 0,
   start |-> 0, end |-> 0]

Init ==
  /\ EmptyDatabase
  /\ call = Called("open", NoName, "Ok")
  /\ given = <<>>

(* The destructor closes the file and the constructor opens it again.      *)
Reopen ==
  /\ call' = Called("open", NoName, "Ok")
  /\ UNCHANGED <<dbVars, given>>

stataments == <<"VARIABLE", "VARIABLE_VALUE">>

(* The statements run in turn up to the first that fails; those before it  *)
(* are not undone.                                                         *)
create_scheme ==
  /\ \E k \in 1..3 :
       /\ \A j \in 1..(k - 1) : CanCreate(stataments[j])
       /\ k \in DOMAIN stataments => Fails(CanCreate(stataments[k]))
       /\ tables' = tables \cup {stataments[j] : j \in 1..(k - 1)}
       /\ call' = Called("create_scheme", NoName,
                         IF k \in DOMAIN stataments THEN "Failed" ELSE "Ok")
  /\ UNCHANGED <<variable, variable_value, given>>

add_variable(n, color) ==
  /\ Len(variable) < MaxRows
  /\ \/ /\ InsertVariable(n, color)
        /\ call' = Called("add_variable", n, "Ok")
     \/ /\ Fails(CanInsertVariable(n))
        /\ call' = Called("add_variable", n, "Failed")
        /\ UNCHANGED dbVars
  /\ UNCHANGED given

(* The timestamp of the VarValue is ignored: the row gets the time now.    *)
add_variable_value(n, v) ==
  /\ Len(variable_value) < MaxRows
  /\ \/ /\ \E now \in Clock : InsertValue(n, v, now)
        /\ given' = Append(given, v)
        /\ call' = Called("add_variable_value", n, "Ok")
     \/ /\ Fails(CanInsertValue(n, v))
        /\ call' = Called("add_variable_value", n, "Failed")
        /\ UNCHANGED <<dbVars, given>>

(* A SELECT delivers its rows one callback at a time and may fail at any   *)
(* of them; what it delivered before stays delivered.                      *)
Select(result, can, sent) ==
  /\ \/ /\ can
        /\ call' = [result EXCEPT !.sent = sent]
     \/ /\ Fails(can)
        /\ \E k \in 0..Len(sent) :
             /\ k > 0 => can
             /\ call' = [result EXCEPT !.sent = SubSeq(sent, 1, k),
                                       !.err = "Failed"]
  /\ UNCHANGED <<dbVars, given>>

fetch_variables ==
  Select(Called("fetch_variables", NoName, "Ok"), CanSelectVariables,
         [id \in VariableIds |-> Sent(id, variable[id].name, 0)])

(* The rows of a SELECT as it visits them: every ID of the set, in order.  *)
InOrder(ids) ==
  {rows \in [1..Cardinality(ids) -> ids] :
     \A j, k \in DOMAIN rows : j < k => rows[j] < rows[k]}

(* The VarValue given to the callback has a value and a timestamp only.    *)
SentValues(rows) == [k \in DOMAIN rows |-> Sent(rows[k], NoName, k - 1)]

fetch_variable_values(n) ==
  \E rows \in InOrder(SelectValues(n)) :
    Select(Called("fetch_variable_values", n, "Ok"), CanSelectValues,
           SentValues(rows))

fetch_variable_values_between(n, start, end) ==
  \E rows \in InOrder(SelectValuesBetween(n, start, end)) :
    Select([Called("fetch_variable_values_between", n, "Ok")
              EXCEPT !.start = start, !.end = end],
           CanSelectValues, SentValues(rows))

Count(result, ids) ==
  /\ \/ /\ CanSelectValues
        /\ call' = [result EXCEPT !.count = Cardinality(ids)]
     \/ /\ Fails(CanSelectValues)
        /\ call' = [result EXCEPT !.err = "Failed"]
  /\ UNCHANGED <<dbVars, given>>

(* Mutant: the readings of every variable are counted.                     *)
count_variable_values_All(n) ==
  Count(Called("count_variable_values", n, "Ok"), ValueIds)

count_variable_values(n) ==
  Count(Called("count_variable_values", n, "Ok"), SelectValues(n))

count_variable_values_between(n, start, end) ==
  Count([Called("count_variable_values_between", n, "Ok")
           EXCEPT !.start = start, !.end = end],
        SelectValuesBetween(n, start, end))

Next ==
  \/ Reopen
  \/ create_scheme
  \/ \E n \in Names, color \in Colors : add_variable(n, color)
  \/ \E n \in Names, v \in Vals : add_variable_value(n, v)
  \/ fetch_variables
  \/ \E n \in Names : fetch_variable_values(n) \/ count_variable_values(n)
  \/ \E n \in Names, start, end \in Clock :
       \/ fetch_variable_values_between(n, start, end)
       \/ count_variable_values_between(n, start, end)

Spec == Init /\ [][Next]_vars
-----------------------------------------------------------------------------
(* Types of the tables and of what a call gives its caller.                *)
TypeOK ==
  /\ TablesTypeOK
  /\ call.err \in {"Ok", "Failed"}
  /\ call.name \in Names \cup {NoName}
  /\ call.count \in Nat
  /\ \A k \in DOMAIN call.sent : call.sent[k].index \in Nat
  /\ given \in Seq(Vals \ {NotFinite})

(* The readings of n whose time is in the range of the call, found through *)
(* the join of the two tables instead of the subselect of the code.        *)
Asked(c) ==
  {id \in ValueIds :
     /\ variable[variable_value[id].variable_id].name = c.name
     /\ c.op \in {"fetch_variable_values_between",
                  "count_variable_values_between"}
          => variable_value[id].timestamp \in c.start..c.end}

(* A fetch that returns Ok has delivered each of the readings asked for    *)
(* once, oldest insertion first, numbered from 0; one that fails on the    *)
(* way has delivered a prefix of them.                                     *)
FetchDeliversWhatWasAsked ==
  call.op \in {"fetch_variable_values", "fetch_variable_values_between"} =>
    LET ids == [k \in DOMAIN call.sent |-> call.sent[k].id]
    IN  /\ Range(ids) \subseteq Asked(call)
        /\ \A j, k \in DOMAIN ids : j < k => ids[j] < ids[k]
        /\ \A k \in DOMAIN ids, id \in Asked(call) :
             id < ids[k] => id \in Range(ids)
        /\ \A k \in DOMAIN ids : call.sent[k].index = k - 1
        /\ call.err = "Ok" => Range(ids) = Asked(call)

(* A count is the number of readings the fetch with the same arguments     *)
(* would deliver.                                                          *)
CountAgreesWithFetch ==
  /\ call.op \in {"count_variable_values", "count_variable_values_between"}
  /\ call.err = "Ok"
  => call.count = Cardinality(Asked(call))

Abs(x) == IF x >= 0 THEN x ELSE -x

(* What is kept of a double v: all of it up to half of the sixth decimal,  *)
(* and of one with too many digits for that, all up to ten parts in        *)
(* MaxSignificand.                                                         *)
Precise(stored, v) ==
  \/ stored - v \in -5..5
  \/ /\ Abs(v) + 5 >= 10 * MaxSignificand
     /\ MaxSignificand * Abs(stored - v) <= 10 * Abs(v)

(* A double survives the way through the text of the INSERT statement to   *)
(* within half of the sixth decimal, or to fifteen digits where six        *)
(* decimals are more than %f prints.                                       *)
StoredWithinPrecision ==
  /\ Len(given) = Len(variable_value)
  /\ \A id \in ValueIds : Precise(variable_value[id].val, given[id])

(* No call changes or removes a row: the tables only grow, and only when   *)
(* the call returns Ok.                                                    *)
AppendOnly ==
  [][/\ IsPrefix(variable, variable')
     /\ IsPrefix(variable_value, variable_value')
     /\ call'.err = "Failed" =>
          UNCHANGED <<variable, variable_value>>]_vars

(* A schema is created once: after a first call, successful or not, that   *)
(* created any table no later call, in this process or the next, adds the  *)
(* table that is missing.                                                  *)
SchemaIsCreatedOnce == [][tables # {} => tables' = tables]_vars

(* What varvalue.h says of a VarValue: "A read value is always related to  *)
(* a variable".                                                            *)
ReadValueHasVariable ==
  call.op \in {"fetch_variable_values", "fetch_variable_values_between"} =>
    \A k \in DOMAIN call.sent : call.sent[k].name = call.name
=============================================================================
