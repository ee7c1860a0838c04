----------------------------- MODULE LocalStore -----------------------------
(***************************************************************************)
(* The SQLite table in which Analytics keeps events until they have been   *)
(* uploaded (LocalStore.cpp, DatabaseConnection.cpp, behind SiftStore.cpp).*)
(*                                                                         *)
(* Each row has an id that SQLite never hands out twice (AUTOINCREMENT), so*)
(* the table is the set of the ids it holds and, for every id ever handed  *)
(* out, the event in that row.  DatabaseConnection runs one query at a time*)
(* under its mutex: each operation is one step.  Any query may fail.       *)
(***************************************************************************)
EXTENDS Naturals, Sequences, FiniteSets

CONSTANT EventsLimit  \* SiftConfig's eventslimit

ASSUME LimitAssumption == EventsLimit \in Nat

VARIABLES
    rows,    \* the ids of the rows in the table
    data,    \* data[id]: the event written with that id; Len(data) is the last id handed out
    crowded  \* history: a row was once too old to be among the latest EventsLimit

storeVars == <<rows, data, crowded>>

\* The file is there with an empty table.
StoreInit == rows = {} /\ data = <<>> /\ crowded = FALSE

\* INSERT: the row gets the next id.
AddEntry(event) ==
    /\ data' = Append(data, event)
    /\ rows' = rows \cup {Len(data) + 1}
    /\ crowded' = (crowded \/ \E i \in rows : i + EventsLimit <= Len(data) + 1)

\* Mutant: the rows with id > the last id handed out - maxCount.
LatestHandedOut(maxCount) == {i \in rows : Len(data) < i + maxCount}

\* buildGetEventsQuery() from 0: the rows with id > MAX(id) - maxCount.
Latest(maxCount) == {i \in rows : \A j \in rows : j < i + maxCount}

\* buildGetEventsQuery() from start on: the first rows with id >= start.
GetEntries(start, count) ==
    {i \in rows : i >= start /\ Cardinality({j \in rows : start <= j /\ j < i}) < count}

\* Mutant: the last one is left.
RemoveEntriesBefore(first, last) ==
    /\ rows' = {i \in rows : ~ (first <= i /\ i < last)}
    /\ UNCHANGED <<data, crowded>>

\* DELETE ... BETWEEN.
RemoveEntries(first, last) ==
    /\ rows' = {i \in rows : ~ (first <= i /\ i <= last)}
    /\ UNCHANGED <<data, crowded>>
=============================================================================
