----------------------------- MODULE ReadingLog -----------------------------
(***************************************************************************)
(* What the database server keeps, whatever its clients, sessions, tables  *)
(* and restarts do: a registry of variables and a log of readings.  Both   *)
(* only grow, a name is registered once, and a reading is logged under a   *)
(* name that is registered and keeps that name for ever.                   *)
(***************************************************************************)
EXTENDS Sequences, Integers

CONSTANTS Names, Reals, Times

VARIABLES registry,   \* the registered names, in the order of registration
          readings    \* the log of readings

vars == <<registry, readings>>

Registered(n) == \E k \in 1..Len(registry) : registry[k] = n

Init == registry = <<>> /\ readings = <<>>

Register(n) ==
  /\ ~Registered(n)
  /\ registry' = Append(registry, n)
  /\ UNCHANGED readings

Log(n, v, t) ==
  /\ Registered(n)
  /\ readings' = Append(readings, [name |-> n, val |-> v, timestamp |-> t])
  /\ UNCHANGED registry

Next ==
  \/ \E n \in Names : Register(n)
  \/ \E n \in Names, v \in Reals, t \in Times : Log(n, v, t)

Spec == Init /\ [][Next]_vars
=============================================================================
