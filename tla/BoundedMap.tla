----------------------------- MODULE BoundedMap -----------------------------
(***************************************************************************)
(* What the filter tables of the module promise the program that fills     *)
(* them: each is a map of at most Cap keys that only grows, in which a     *)
(* call that reports success has stored its value, except the calls of a   *)
(* table that does not report that it is full, and the keys that it cannot *)
(* tell from an unused entry.                                              *)
(*                                                                         *)
(* WakeupRules implements it with three tables and SnmpTable with one, as  *)
(* long as a table is trusted: each of those modules says what its code    *)
(* can do that ends the promise.                                           *)
(***************************************************************************)
EXTENDS Naturals, FiniteSets

CONSTANTS
    Table,
    Key, Val,   \* Key[t], Val: the keys and the values of table t
    Blank,      \* Blank[t]: its keys that leave no trace in it
    Cap,        \* Cap[t]: the most keys it holds
    FullRet     \* FullRet[t]: what a call answers that finds it full

VARIABLES
    map,        \* map[t]: the entries in force, a function of a set of keys
    last,       \* last[t]: the last call, its key, value and answer
    trusted     \* trusted[t]: the promise holds of table t

Answer(t, k, v, r) == last'[t] = [key |-> k, val |-> v, ret |-> r]

Put(t, k, v) ==
    /\ Answer(t, k, v, "ok")
    /\ k \in DOMAIN map[t] \/ Cardinality(DOMAIN map[t]) < Cap[t]
    /\ map'[t] = [x \in DOMAIN map[t] \cup {k} |->
                    IF x = k THEN v ELSE map[t][x]]

Full(t, k, v) ==
    /\ Answer(t, k, v, FullRet[t])
    /\ k \notin DOMAIN map[t]
    /\ Cardinality(DOMAIN map[t]) = Cap[t]
    /\ map'[t] = map[t]

Ignore(t, k, v) ==
    /\ Answer(t, k, v, "ok")
    /\ k \in Blank[t]
    /\ map'[t] = map[t]

\* The call fails, or goes to another table.
Elsewhere(t) ==
    /\ last'[t].ret \in {"failed", "other"}
    /\ map'[t] = map[t]

Call(t) ==
    \/ Elsewhere(t)
    \/ \E k \in Key[t], v \in Val :
            Put(t, k, v) \/ Full(t, k, v) \/ Ignore(t, k, v)

Init ==
    /\ map = [t \in Table |-> [k \in {} |-> k]]
    /\ \A t \in Table : last[t].ret = "other"
    /\ trusted = [t \in Table |-> TRUE]

\* A step that leaves a table trusted is a call of it or of another one, and
\* trust that is lost does not come back.
Next == \A t \in Table : trusted'[t] => trusted[t] /\ Call(t)

Spec == Init /\ [][Next]_<<map, last, trusted>>
=============================================================================
