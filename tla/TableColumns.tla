----------------------------- MODULE TableColumns -----------------------------
(***************************************************************************)
(* The columns of one table, the array config -> 'columns' of its row in   *)
(* public.tables: add_column, update_column, delete_column and             *)
(* update_col_order (V69), called through router/api/tables/columns.py and *)
(* the col_order part of PATCH /tables/{table_id}.                         *)
(*                                                                         *)
(* Each function reads the array in one statement, computes, and writes in *)
(* a later one.  The UPDATE waits for the row and is judged against its    *)
(* latest version, so writing and committing is one action: add_column     *)
(* appends to the latest array, the other three replace it by what they    *)
(* computed from the array they read.  The order of the array is left out, *)
(* so the array is a set of columns.                                       *)
(***************************************************************************)
EXTENDS Naturals, FiniteSets

CONSTANTS
    Editors,        \* clients, each with one request at a time
    ColumnIds,      \* what gen_random_uuid may return
    Names,          \* column names, trimmed and in lower case
    Seed,           \* the columns of the template
    MaxRequests,    \* bound: requests in a behaviour
    MaxFaults       \* bound: failed requests and lost replies

Columns == [id : ColumnIds, name : Names]

\* _column_names_are_unique
NamesAreUnique(S) == \A c, d \in S : c.name = d.name => c = d
IdsAreUnique(S) == \A c, d \in S : c.id = d.id => c = d

ASSUME ColumnsAssumption ==
    /\ Seed \in SUBSET Columns /\ NamesAreUnique(Seed) /\ IdsAreUnique(Seed)
    /\ MaxRequests \in Nat /\ MaxFaults \in Nat

VARIABLES
    columns,    \* the committed array
    drawn,      \* column ids generated so far
    shown,      \* per editor: the columns of its last reply
    req,        \* per editor: its request
    started,    \* requests so far
    faults      \* faults so far

vars == <<columns, drawn, shown, req, started, faults>>

Idle == [pc |-> "idle", op |-> "add", ids |-> {}, new |-> {}, read |-> {}]

RequestRecords ==
    [pc : {"idle", "append", "replace", "reply"},
     op : {"add", "update", "delete", "order"},
     ids : SUBSET ColumnIds,    \* the columns the caller named
     new : SUBSET Columns,      \* the column to append, or the array to write
     read : SUBSET ColumnIds]   \* history: the columns of the array it read

TypeOK ==
    /\ columns \in SUBSET Columns
    /\ drawn \in SUBSET ColumnIds
    /\ shown \in [Editors -> SUBSET Columns]
    /\ req \in [Editors -> RequestRecords]
    /\ started \in 0 .. MaxRequests
    /\ faults \in 0 .. MaxFaults

IdsOf(S) == {c.id : c \in S}

\* A table is created from a template; everybody has loaded it.
Init ==
    /\ columns = Seed
    /\ drawn = IdsOf(Seed)
    /\ shown = [e \in Editors |-> Seed]
    /\ req = [e \in Editors |-> Idle]
    /\ started = 0
    /\ faults = 0

-----------------------------------------------------------------------------
(* The first statement: read the array, check, compute the new one.  A failed *)
(* check (404, 409) ends the request, which then changed nothing.             *)

CanStart(e) == req[e].pc = "idle" /\ started < MaxRequests

Starts(e, pc, op, ids, new) ==
    /\ req' = [req EXCEPT ![e] = [pc |-> pc, op |-> op, ids |-> ids, new |-> new,
                                  read |-> IdsOf(columns)]]
    /\ started' = started + 1
    /\ UNCHANGED <<columns, shown, faults>>

\* _build_column_dict gives the new column an id of its own.
ReadForAdd(e, id, name) ==
    LET c == [id |-> id, name |-> name]
    IN /\ CanStart(e) /\ id \notin drawn
       /\ NamesAreUnique(columns \cup {c})
       /\ drawn' = drawn \cup {id}
       /\ Starts(e, "append", "add", {id}, {c})

\* Variant: a column that has the new name already gives way.
PatchedOver(id, name) ==
    {IF c.id = id THEN [c EXCEPT !.name = name] ELSE c :
         c \in {d \in columns : d.id = id \/ d.name # name}}

\* The columns with the patch merged into the one with that id.
Patched(id, name) == {IF c.id = id THEN [c EXCEPT !.name = name] ELSE c : c \in columns}

ReadForUpdate(e, id, name) ==
    /\ CanStart(e)
    /\ id \in IdsOf(shown[e]) /\ id \in IdsOf(columns)
    /\ NamesAreUnique(Patched(id, name))
    /\ Starts(e, "replace", "update", {id}, Patched(id, name))
    /\ UNCHANGED drawn

\* The caller names a column it sees; 404 when it is gone.
ReadForDelete(e, id) ==
    /\ CanStart(e)
    /\ id \in IdsOf(shown[e]) /\ id \in IdsOf(columns)
    /\ Starts(e, "replace", "delete", {id}, {c \in columns : c.id # id})
    /\ UNCHANGED drawn

\* The caller sends every column it sees, in a new order; the others go.
ReadForOrder(e) ==
    /\ CanStart(e)
    /\ Starts(e, "replace", "order", IdsOf(shown[e]),
              {c \in columns : c.id \in IdsOf(shown[e])})
    /\ UNCHANGED drawn

-----------------------------------------------------------------------------
(* The last statement, under the row lock, and its commit. *)

\* Variant: without the trigger of V39.
TriggerMissing(S) == S = S

\* trg_tables_validate_column_names: the row written is checked once more.
TriggerAccepts(S) == NamesAreUnique(S)

Writes(e, S) ==
    /\ columns' = IF TriggerAccepts(S) THEN S ELSE columns
    /\ req' = [req EXCEPT ![e].pc = IF TriggerAccepts(S) THEN "reply" ELSE "idle"]
    /\ UNCHANGED <<drawn, shown, started, faults>>

AppendColumn(e) ==
    /\ req[e].pc = "append"
    /\ Writes(e, columns \cup req[e].new)

\* Variant: what was computed is merged into the latest array.
MergesColumns(e) ==
    /\ req[e].pc = "replace"
    /\ Writes(e, columns \cup req[e].new)

ReplaceColumns(e) ==
    /\ req[e].pc = "replace"
    /\ Writes(e, req[e].new)

\* get_tables_schema after the commit; the client replaces its cache by it.
Reply(e) ==
    /\ req[e].pc = "reply"
    /\ shown' = [shown EXCEPT ![e] = columns]
    /\ req' = [req EXCEPT ![e] = Idle]
    /\ UNCHANGED <<columns, drawn, started, faults>>

\* The index build fails, the connection breaks, or the reply is lost.
Fault(e) ==
    /\ req[e].pc # "idle" /\ faults < MaxFaults
    /\ req' = [req EXCEPT ![e] = Idle]
    /\ faults' = faults + 1
    /\ UNCHANGED <<columns, drawn, shown, started>>

Next ==
    \E e \in Editors :
        \/ \E id \in ColumnIds, name \in Names :
               ReadForAdd(e, id, name) \/ ReadForUpdate(e, id, name)
        \/ \E id \in ColumnIds : ReadForDelete(e, id)
        \/ ReadForOrder(e)
        \/ AppendColumn(e) \/ ReplaceColumns(e)
        \/ Reply(e) \/ Fault(e)

Spec == Init /\ [][Next]_vars
-----------------------------------------------------------------------------
(* Properties. *)

\* No two columns of a table ever have the same normalized name, whatever two
\* functions read before either wrote.
NamesDistinct == NamesAreUnique(columns)

\* A column id names one column: an array written back late neither brings a
\* second version of a column nor a column that shares the id of a new one.
IdsDistinct == IdsAreUnique(columns)

\* The columns a request takes out of the array it has read: the one that
\* delete_column names, or those missing in the order that the client sent.
TakesOut(e, id) ==
    \/ req[e].op = "delete" /\ req[e].ids = {id}
    \/ req[e].op = "order" /\ id \notin req[e].ids

\* A column disappears only by the delete_column that names it, or because the
\* request that writes the array has not seen it: update_column, delete_column and
\* update_col_order read the array before another request added it, or the client
\* sent an order of the columns it still showed.
OnlyUnseenColumnsLost ==
    [][\A id \in IdsOf(columns) \ IdsOf(columns') :
          \E e \in Editors : /\ req[e].pc = "replace" /\ req'[e].pc = "reply"
                             /\ TakesOut(e, id) \/ id \notin req[e].read]_vars

\* What the proof of IdsDistinct carries along: an array waiting to be written
\* holds generated ids once each, and an id generated for a new column is in no
\* array yet, committed or computed.
Owed(e) == req[e].pc = "append"

IInv ==
    /\ TypeOK
    /\ NamesDistinct
    /\ IdsDistinct
    /\ IdsOf(columns) \subseteq drawn
    /\ \A e \in Editors : IdsAreUnique(req[e].new) /\ IdsOf(req[e].new) \subseteq drawn
    /\ \A e \in Editors : Owed(e) =>
           /\ \E c \in Columns : req[e].new = {c}
           /\ IdsOf(req[e].new) \cap IdsOf(columns) = {}
           /\ \A f \in Editors \ {e} : IdsOf(req[e].new) \cap IdsOf(req[f].new) = {}

\* An array waiting to be written has every column its request has read, but for
\* those the request takes out.
KeepsWhatItRead ==
    \A e \in Editors : req[e].pc = "replace" =>
        \A id \in req[e].read \ IdsOf(req[e].new) : TakesOut(e, id)
=============================================================================
