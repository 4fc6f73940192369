---------------------------- MODULE AtomicUpgrade ----------------------------
(***************************************************************************)
(* What opening a context store promises to everybody who reads the file.  *)
(* The tables of an older store are all of the old shape or all of the new *)
(* one, with the rows they always had, and from the moment they are new    *)
(* the search table has every record.  In an empty file the tables appear  *)
(* one after the other.  SchemaUpgrade implements it with several          *)
(* processes, a script and a transaction of many statements, and crashes.  *)
(***************************************************************************)
CONSTANTS
  Eras,          \* the databases to start from
  Tables,        \* the tables whose shape depends on the era
  Refers,        \* for each of them, the others that its foreign keys name
  StoredRows     \* what each of them holds in an existing database

VARIABLES
  shape,     \* of each table: "absent", "scoped", or that of an older era
  content,   \* the rows of each table
  search     \* "current", or "late": missing or not the present one

AllAre(x) == \A t \in Tables : shape[t] = x

Init ==
  \E e \in Eras :
    /\ shape = [t \in Tables |-> IF e = "fresh" THEN "absent" ELSE e]
    /\ content = [t \in Tables |-> IF e = "fresh" THEN {} ELSE StoredRows]
    /\ search = "late"

\* A missing table is made, after those it refers to.
Create(t) ==
  /\ shape[t] = "absent"
  /\ \A u \in Refers[t] : shape[u] # "absent"
  /\ shape' = [shape EXCEPT ![t] = "scoped"]
  /\ UNCHANGED <<content, search>>

\* A database of the last era is upgraded.  Older ones are refused: no step
\* starts from them.
Renew ==
  /\ AllAre("v2")
  /\ shape' = [t \in Tables |-> "scoped"]
  /\ search' = "current"
  /\ UNCHANGED content

\* The search table is made, or made again, when all tables are right.
Reindex ==
  /\ AllAre("scoped")
  /\ search' = "current"
  /\ UNCHANGED <<shape, content>>

Next == (\E t \in Tables : Create(t)) \/ Renew \/ Reindex

Spec == Init /\ [][Next]_<<shape, content, search>>
=============================================================================
