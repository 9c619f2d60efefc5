------------------------------ MODULE TableMove ------------------------------
(***************************************************************************)
(* migration/scripts/move_table_storage.py: the content of an archived     *)
(* table (tables_old, rows_old, ...) is copied into the new storage,       *)
(* compared and committed in one transaction. The application is already   *)
(* serving the new storage, and the script may be run again.               *)
(*                                                                         *)
(* The statements are the steps: each sees what is committed when it       *)
(* begins and what its own transaction has written, and its row locks last *)
(* to the end of the transaction. The model follows one archived table;    *)
(* the statements treat every table alike.                                 *)
(***************************************************************************)
EXTENDS Integers, FiniteSets, FiniteSetsExt

CONSTANTS
    MaxTables,  \* bound: table ids ever assigned
    MaxRow,     \* bound: row numbers
    MaxMark,    \* bound: row numbers that the archive has given out
    MaxView,    \* bound: view numbers
    Keys,       \* object keys of archived blobs
    MaxChanges, \* bound: changes made by users
    MaxRuns,    \* bound: runs of the script
    Absent      \* no table, row, view or owner

Tables == 1..MaxTables
RowIds == 1..MaxRow
ViewIds == 1..MaxView

\* Row contents. "raw" is one that the row trigger rewrites: a date of before the
\* column was made one.
Data == {"old", "raw", "new"}
Canonical(data) == IF data = "raw" THEN "new" ELSE data

\* A view: its config, and whether its created_at is the applied_at of V70.
Views == [config : {"placeholder", "own"}, seeded : BOOLEAN]

Table == [named : BOOLEAN, moved : BOOLEAN, mark : 0..MaxRow,
          rows : [RowIds -> Data \cup {Absent}], views : [ViewIds -> Views \cup {Absent}]]

ASSUME MoveConstants ==
    /\ {MaxTables, MaxRow, MaxMark, MaxView, MaxChanges, MaxRuns} \subseteq Nat
    /\ MaxTables > 0 /\ MaxMark <= MaxRow
    /\ Absent \notin Data \cup Views \cup Table \cup (Tables \X RowIds)

VARIABLES
    old,     \* the archive: rows, views, mark (last_row_id), blobs (key -> row) and
             \* cells, the keys that its rows refer to
    tables,  \* the committed tables
    ids,     \* table ids assigned
    owner,   \* blob_objects: the <<table, row>> that owns a key, or Absent
    queue,   \* blob_cleanup_queue: the keys the cleaner is to look at
    doomed,  \* keys that the cleaner has found unreferenced and is deleting
    mover,   \* the script's transaction
    runs, changes,
    issued,  \* issued[t]: row numbers that t has given out (history)
    kept,    \* rows users have added to a table that has come across (history)
    retired  \* the keys that have ever been on the queue (history)

cleaning == <<queue, doomed, retired>>
moveVars == <<old, tables, ids, owner, mover, runs, changes, issued, kept, cleaning>>

\* since: the changes users had made when the run began (history).
AtRest == [at |-> "idle", since |-> 0, target |-> 0, private |-> FALSE, frozen |-> FALSE,
           rows |-> <<>>, views |-> <<>>, mark |-> 0, keys |-> {}]

Partial(S, T) == UNION {[X -> T] : X \in SUBSET S}
Present(f) == {i \in DOMAIN f : f[i] # Absent}
Over(f, g) == [i \in DOMAIN f |-> IF i \in DOMAIN g THEN g[i] ELSE f[i]]
Top(S) == Max(S \cup {0})

EmptyTable == [named |-> TRUE, moved |-> FALSE, mark |-> 0,
               rows |-> [i \in RowIds |-> Absent], views |-> [v \in ViewIds |-> Absent]]
Placeholder == [config |-> "placeholder", seeded |-> TRUE]

\* V66 has renamed the old tables, but not the queue: of the archived keys it holds
\* those that no row refers to and may still hold others. V70 may have seeded the
\* new table (the announcement table).
MoveInit ==
    /\ old \in [rows : [RowIds -> {"old", "raw", Absent}],
                views : [ViewIds -> {Absent, [config |-> "own", seeded |-> FALSE]}],
                mark : 0..MaxMark,
                blobs : Partial(Keys, RowIds), cells : SUBSET Keys]
    /\ old.cells \subseteq DOMAIN old.blobs
    /\ \A i \in Present(old.rows) : i <= old.mark
    /\ Present(old.views) # {}
    /\ \A k \in DOMAIN old.blobs : old.blobs[k] \in Present(old.rows)
    /\ \E seeds \in BOOLEAN :
        /\ ids = IF seeds THEN 1 ELSE 0
        /\ tables = [t \in Tables |-> IF seeds /\ t = 1
                                      THEN [EmptyTable EXCEPT !.views[1] = Placeholder] ELSE Absent]
    /\ owner = [k \in Keys |-> Absent]
    /\ queue \in {keys \in SUBSET DOMAIN old.blobs : DOMAIN old.blobs \ old.cells \subseteq keys}
    /\ retired = queue /\ doomed = {}
    /\ mover = AtRest
    /\ runs = 0 /\ changes = 0
    /\ issued = [t \in Tables |-> {}]
    /\ kept = {}

Named == {t \in Present(tables) : tables[t].named}

\* The target as the script sees it.
Target ==
    LET base == IF mover.private THEN [EmptyTable EXCEPT !.moved = TRUE] ELSE tables[mover.target] IN
    [base EXCEPT !.rows = Over(@, mover.rows), !.views = Over(@, mover.views),
                 !.mark = IF mover.mark > 0 THEN mover.mark ELSE @]

Here == mover.private \/ (mover.target # 0 /\ tables[mover.target] # Absent)

-----------------------------------------------------------------------------
(* The script (apply). A statement that inserts into a table that users      *)
(* have deleted meanwhile fails (Rollback).                                  *)

Begin ==
    /\ mover.at = "idle"
    /\ runs < MaxRuns
    /\ runs' = runs + 1
    /\ mover' = [AtRest EXCEPT !.at = "tables", !.since = changes]
    /\ UNCHANGED <<old, tables, ids, owner, changes, issued, kept, cleaning>>

InsertTables ==
    /\ mover.at = "tables"
    /\ IF Named = {}
       THEN /\ ids < MaxTables
            /\ ids' = ids + 1
            /\ mover' = [mover EXCEPT !.at = "map", !.private = TRUE, !.target = ids + 1]
       ELSE mover' = [mover EXCEPT !.at = "map"] /\ UNCHANGED ids
    /\ UNCHANGED <<old, tables, owner, runs, changes, issued, kept, cleaning>>

\* COPY_TABLES: the temporary table keeps the ids for the rest of the transaction.
CopyTables ==
    /\ mover.at = "map"
    /\ mover' = [mover EXCEPT !.at = "rows",
                              !.target = IF mover.private THEN @ ELSE Top(Named)]
    /\ UNCHANGED <<old, tables, ids, owner, runs, changes, issued, kept, cleaning>>

\* The rows after the row triggers. ON CONFLICT locks a row that is the same
\* already, and the trigger has raised and locked the counter in any case.
InsertRows ==
    LET archived == Present(old.rows) IN
    /\ mover.at = "rows"
    /\ Here \/ mover.target = 0 \/ archived = {}
    /\ mover' = [mover EXCEPT
          !.at = "seeded",
          !.rows = IF Here THEN [i \in archived |-> Canonical(old.rows[i])] ELSE <<>>,
          !.mark = IF Here /\ archived # {} THEN Max({Target.mark, Top(archived)}) ELSE 0]
    /\ UNCHANGED <<old, tables, ids, owner, runs, changes, issued, kept, cleaning>>

\* Variant: by config alone.
SeededByConfig(v) == Target.views[v] # Absent /\ Target.views[v].config = "placeholder"

Seeded(v) ==
    LET view == Target.views[v] IN
    view # Absent /\ view.seeded /\ view.config = "placeholder"

DeleteSeededViews ==
    /\ mover.at = "seeded"
    /\ mover' = [mover EXCEPT
          !.at = "views",
          !.views = IF Here THEN [v \in {v \in ViewIds : Seeded(v) /\ old.views[v] = Absent} |-> Absent]
                    ELSE <<>>]
    /\ UNCHANGED <<old, tables, ids, owner, runs, changes, issued, kept, cleaning>>

\* Variant: ON CONFLICT DO NOTHING.
CopiedViewsIfAbsent == {v \in Present(old.views) : Target.views[v] = Absent}

CopiedViews == Present(old.views)

InsertViews ==
    /\ mover.at = "views"
    /\ Here \/ mover.target = 0
    /\ mover' = [mover EXCEPT
          !.at = "counters",
          !.views = IF Here THEN [v \in DOMAIN @ \cup CopiedViews |->
                                    IF v \in CopiedViews THEN old.views[v] ELSE Absent] ELSE <<>>]
    /\ UNCHANGED <<old, tables, ids, owner, runs, changes, issued, kept, cleaning>>

\* Variant: the archived mark overwrites the counter.
Overwritten(mark) == old.mark

Raised(mark) == Max({mark, old.mark})

InsertCounters ==
    /\ mover.at = "counters"
    /\ Here \/ mover.target = 0 \/ old.mark = 0
    /\ mover' = [mover EXCEPT !.at = "blobs",
                              !.mark = IF Here /\ old.mark > 0 THEN Raised(Target.mark) ELSE @]
    /\ UNCHANGED <<old, tables, ids, owner, runs, changes, issued, kept, cleaning>>

InsertBlobs ==
    /\ mover.at = "blobs"
    /\ Here \/ mover.target = 0 \/ DOMAIN old.blobs = {}
    /\ mover' = [mover EXCEPT
          !.at = "indexes",
          !.keys = IF Here THEN {k \in DOMAIN old.blobs : owner[k] = Absent} ELSE {}]
    /\ UNCHANGED <<old, tables, ids, owner, runs, changes, issued, kept, cleaning>>

\* CREATE INDEX, for a table with an indexed column, lets nobody write a row.
RebuildIndexes ==
    /\ mover.at = "indexes"
    /\ \E frozen \in {FALSE, Here} : mover' = [mover EXCEPT !.at = "verify", !.frozen = frozen]
    /\ UNCHANGED <<old, tables, ids, owner, runs, changes, issued, kept, cleaning>>

Owns(k) == IF k \in mover.keys THEN <<mover.target, old.blobs[k]>> ELSE owner[k]

\* Variant: the counts are compared.
ComparedByCount ==
    /\ Named # {} \/ mover.private
    /\ Here => /\ Cardinality(Present(Target.rows)) >= Cardinality(Present(old.rows))
               /\ Cardinality(Present(Target.views)) >= Cardinality(Present(old.views))
               /\ Target.mark >= old.mark

\* CHECKS. A mapped table that is gone leaves every archived row and view missing.
Compared ==
    LET new == Target IN
    /\ Named # {} \/ mover.private
    /\ mover.target # 0 =>
        /\ Here
        /\ \A i \in Present(old.rows) : new.rows[i] = old.rows[i]
        /\ \A v \in Present(old.views) : new.views[v] # Absent /\ new.views[v].config = old.views[v].config
        /\ new.mark >= old.mark
        /\ \A k \in DOMAIN old.blobs : Owns(k) = <<mover.target, old.blobs[k]>>

Verify ==
    /\ mover.at = "verify"
    /\ mover' = IF Compared THEN [mover EXCEPT !.at = "commit"] ELSE AtRest
    /\ UNCHANGED <<old, tables, ids, owner, runs, changes, issued, kept, cleaning>>

Commit ==
    /\ mover.at = "commit"
    /\ mover' = AtRest
    /\ IF Here
       THEN /\ tables' = [tables EXCEPT ![mover.target] = [Target EXCEPT !.moved = TRUE]]
            /\ owner' = [k \in Keys |-> Owns(k)]
            /\ issued' = [issued EXCEPT ![mover.target] = @ \cup 1..old.mark]
       ELSE UNCHANGED <<tables, owner, issued>>
    /\ UNCHANGED <<old, ids, runs, changes, kept, cleaning>>

\* An error, a lost connection, a killed process. Table ids are not given back.
Rollback ==
    /\ mover.at # "idle"
    /\ mover' = AtRest
    /\ UNCHANGED <<old, tables, ids, owner, runs, changes, issued, kept, cleaning>>

Move ==
    \/ Begin \/ InsertTables \/ CopyTables \/ InsertRows \/ DeleteSeededViews \/ InsertViews
    \/ InsertCounters \/ InsertBlobs \/ RebuildIndexes \/ Verify \/ Commit \/ Rollback

-----------------------------------------------------------------------------
(* The users, who wait for the locks of the script.                          *)

Mine(t) == mover.target = t /\ ~mover.private
LocksRow(t, i) == mover.frozen \/ (Mine(t) /\ i \in DOMAIN mover.rows)
LocksView(t, v) == Mine(t) /\ v \in DOMAIN mover.views
LocksCounter(t) == Mine(t) /\ mover.mark > 0

\* A foreign key check of the script's INSERTs holds the row of the table.
LocksName(t) ==
    /\ Mine(t)
    /\ \/ \E i \in DOMAIN mover.rows : tables[t].rows[i] = Absent
       \/ \E v \in DOMAIN mover.views : mover.views[v] # Absent /\ tables[t].views[v] = Absent
       \/ mover.mark > 0 /\ tables[t].mark = 0

\* Row i of table t holds the archived pointer to the object of k.
Refers(t, i, k) == k \in old.cells /\ old.blobs[k] = i /\ tables[t].rows[i] = old.rows[i]

\* Variant: without ON DELETE CASCADE.
ChangesTablesOnly(new, gone, edited) ==
    /\ changes < MaxChanges
    /\ changes' = changes + 1
    /\ tables' = new
    /\ UNCHANGED <<old, mover, runs, owner, cleaning>>

\* A change to the tables. The row trigger queues the keys that rows refer to no
\* longer; those of rows that are gone lose their owner.
Changes(new, gone, edited) ==
    LET lost == {k \in Present(owner) : /\ owner[k] \in gone \cup edited
                                       /\ Refers(owner[k][1], owner[k][2], k)} IN
    /\ changes < MaxChanges
    /\ changes' = changes + 1
    /\ tables' = new
    /\ owner' = [k \in Keys |-> IF owner[k] \in gone THEN Absent ELSE owner[k]]
    /\ queue' = queue \cup lost
    /\ retired' = retired \cup lost
    /\ UNCHANGED <<old, mover, runs, doomed>>

CreateTable ==
    /\ ids < MaxTables
    /\ Named = {} /\ ~mover.private
    /\ ids' = ids + 1
    /\ Changes([tables EXCEPT ![ids + 1] =
                   [EmptyTable EXCEPT !.views[1] = [config |-> "own", seeded |-> FALSE]]], {}, {})
    /\ UNCHANGED <<issued, kept>>

Rename(t) ==
    /\ ~LocksName(t)
    /\ tables[t].named \/ (Named = {} /\ ~mover.private)
    /\ Changes([tables EXCEPT ![t].named = ~@], {}, {})
    /\ UNCHANGED <<ids, issued, kept>>

DeleteTable(t) ==
    /\ ~LocksName(t) /\ ~LocksCounter(t)
    /\ \A i \in Present(tables[t].rows) : ~LocksRow(t, i)
    /\ \A v \in Present(tables[t].views) : ~LocksView(t, v)
    /\ Changes([tables EXCEPT ![t] = Absent], {t} \X RowIds, {})
    /\ kept' = {x \in kept : x[1] # t}
    /\ UNCHANGED <<ids, issued>>

\* Variant: the number after the highest row.
AfterLast(t) == Top(Present(tables[t].rows)) + 1

NextRow(t) == tables[t].mark + 1

InsertRow(t) ==
    LET i == NextRow(t) IN
    /\ i \in RowIds
    /\ ~LocksCounter(t) /\ ~mover.frozen
    /\ tables[t].rows[i] = Absent
    /\ Changes([tables EXCEPT ![t].rows[i] = "new", ![t].mark = i], {}, {})
    /\ issued' = [issued EXCEPT ![t] = @ \cup {i}]
    /\ kept' = IF tables[t].moved THEN kept \cup {<<t, i>>} ELSE kept
    /\ UNCHANGED ids

\* An edit of the whole row, its blob cell included.
EditRow(t, i) ==
    /\ ~LocksRow(t, i)
    /\ tables[t].rows[i] \notin {Absent, "new"}
    /\ Changes([tables EXCEPT ![t].rows[i] = "new"], {}, {<<t, i>>})
    /\ UNCHANGED <<ids, issued, kept>>

DeleteRow(t, i) ==
    /\ ~LocksRow(t, i)
    /\ tables[t].rows[i] # Absent
    /\ Changes([tables EXCEPT ![t].rows[i] = Absent], {<<t, i>>}, {})
    /\ kept' = kept \ {<<t, i>>}
    /\ UNCHANGED <<ids, issued>>

\* trg_set_view_id_fn: the number after the highest view. A user's view may be
\* like the placeholder.
CreateView(t) ==
    LET v == Top(Present(tables[t].views)) + 1 IN
    /\ v \in ViewIds /\ ~LocksView(t, v)
    /\ \E config \in {"placeholder", "own"} :
         Changes([tables EXCEPT ![t].views[v] = [config |-> config, seeded |-> FALSE]], {}, {})
    /\ UNCHANGED <<ids, issued, kept>>

EditView(t, v) ==
    /\ ~LocksView(t, v)
    /\ tables[t].views[v] # Absent
    /\ \E config \in {"placeholder", "own"} :
        /\ config # tables[t].views[v].config
        /\ Changes([tables EXCEPT ![t].views[v].config = config], {}, {})
    /\ UNCHANGED <<ids, issued, kept>>

DeleteView(t, v) ==
    /\ ~LocksView(t, v)
    /\ tables[t].views[v] # Absent
    /\ Changes([tables EXCEPT ![t].views[v] = Absent], {}, {})
    /\ UNCHANGED <<ids, issued, kept>>

-----------------------------------------------------------------------------
(* The cleaner of the backend (cleanup_once). It looks at what is committed   *)
(* and takes no lock on rows, so the script does not keep it waiting.         *)

Referenced(k) == \E t \in Present(tables) : Refers(t, old.blobs[k], k)

\* Its look at the rows; the deletion of the object in the store begins.
Condemn(k) ==
    /\ k \in queue \ doomed
    /\ ~Referenced(k)
    /\ doomed' = doomed \cup {k}
    /\ UNCHANGED <<old, tables, ids, owner, mover, runs, changes, issued, kept, queue, retired>>

Keep(k) ==
    /\ k \in queue \ doomed
    /\ Referenced(k)
    /\ queue' = queue \ {k}
    /\ UNCHANGED <<old, tables, ids, owner, mover, runs, changes, issued, kept, doomed, retired>>

\* The object is deleted, and its owner with it. An owner that the script has
\* inserted and not committed is not seen; a script that inserts one waits for
\* the deletion to be committed.
Collect(k) ==
    /\ k \in doomed
    /\ owner' = [owner EXCEPT ![k] = Absent]
    /\ queue' = queue \ {k} /\ doomed' = doomed \ {k}
    /\ UNCHANGED <<old, tables, ids, mover, runs, changes, issued, kept, retired>>

\* The store fails or the backend stops: the key stays on the queue.
Abandon(k) ==
    /\ k \in doomed
    /\ doomed' = doomed \ {k}
    /\ UNCHANGED <<old, tables, ids, owner, mover, runs, changes, issued, kept, queue, retired>>

Cleaner == \E k \in Keys : Condemn(k) \/ Keep(k) \/ Collect(k) \/ Abandon(k)

User ==
    \/ CreateTable
    \/ \E t \in Present(tables) :
        \/ Rename(t) \/ DeleteTable(t) \/ InsertRow(t) \/ CreateView(t)
        \/ \E i \in RowIds : EditRow(t, i) \/ DeleteRow(t, i)
        \/ \E v \in ViewIds : EditView(t, v) \/ DeleteView(t, v)

MoveNext == Move \/ User \/ Cleaner

MoveSpec == MoveInit /\ [][MoveNext]_moveVars

-----------------------------------------------------------------------------
(* Properties.                                                             *)

Stages == {"idle", "tables", "map", "rows", "seeded", "views", "counters", "blobs", "indexes",
           "verify", "commit"}

Movers == [at : Stages, since : 0..MaxChanges, target : 0..MaxTables, private : BOOLEAN,
           frozen : BOOLEAN, rows : Partial(RowIds, Data),
           views : Partial(ViewIds, Views \cup {Absent}), mark : 0..MaxRow, keys : SUBSET Keys]

\* Types, and the constraints: a name belongs to one table, a key to a row that exists.
MoveTypeOK ==
    /\ tables \in [Tables -> Table \cup {Absent}]
    /\ ids \in 0..MaxTables /\ \A t \in Present(tables) : t <= ids
    /\ owner \in [Keys -> (Tables \X RowIds) \cup {Absent}]
    /\ \A t, u \in Named : t = u
    /\ \A k \in Present(owner) :
        /\ owner[k][1] \in Present(tables)
        /\ tables[owner[k][1]].rows[owner[k][2]] # Absent
    /\ mover \in Movers
    /\ runs \in 0..MaxRuns /\ changes \in 0..MaxChanges
    /\ issued \in [Tables -> SUBSET RowIds] /\ kept \subseteq Tables \X RowIds
    /\ doomed \subseteq queue /\ queue \subseteq retired /\ retired \subseteq DOMAIN old.blobs

\* The table holds the archive.
Holds(table) ==
    /\ \A i \in Present(old.rows) : table.rows[i] = old.rows[i]
    /\ \A v \in Present(old.views) : table.views[v] = old.views[v]
    /\ table.mark >= old.mark

Committing == mover.at = "commit" /\ mover'.at = "idle" /\ tables' # tables

NoPlaceholder(table) == \A v \in Present(table.views) : table.views[v] # Placeholder

\* The cleaner has forgotten key k since the comparison found its owner.
Forgotten(k) == k \in retired \ mover.keys /\ owner[k] = Absent

CommittedWhole ==
    Commit =>
        IF mover.target = 0 THEN mover.since # changes
        ELSE /\ Holds(tables'[mover.target])
             /\ \A k \in DOMAIN old.blobs :
                    owner'[k] = <<mover.target, old.blobs[k]>> \/ Forgotten(k)
             /\ mover.since = changes => NoPlaceholder(tables'[mover.target])

\* What the script commits is the whole archive, whatever users have changed
\* since the comparison: the rows, views and counter it compared are locked.
\* Unless users changed something during the run, no placeholder of V70 is left.
\* There are two exceptions. The owner of a key is not locked: the cleaner may take
\* it after the comparison, but only that of a key which has been on its queue,
\* because a user edited or deleted its cell or since before the cutover. And if
\* the table had another name when the script looked it up, and has the right one
\* when it compares, an empty copy is committed.
CommitsTheArchive == [][CommittedWhole]_moveVars

\* The script refuses to commit only if it has to: the table was renamed or
\* deleted meanwhile, the row trigger rewrites an archived row, a key belongs to
\* another table, the one that was moved earlier and has been renamed since, or
\* the cleaner has taken a key of the target itself that had been on its queue.
RefusesWithReason ==
    mover.at = "verify" /\ ~Compared =>
        \/ Named = {} /\ ~mover.private
        \/ ~Here
        \/ \E i \in Present(old.rows) : Canonical(old.rows[i]) # old.rows[i]
        \/ \E k \in DOMAIN old.blobs \ mover.keys :
              IF owner[k] = Absent THEN k \in retired ELSE owner[k][1] # mover.target

SeedsDropped ==
    Committing /\ mover.target \in Present(tables) =>
        \A v \in Present(tables[mover.target].views) :
            \/ tables'[mover.target].views[v] # Absent
            \/ tables[mover.target].views[v].seeded

\* Of the views the archive does not have, the script drops only the one V70 made.
OnlySeedsDropped == [][SeedsDropped]_moveVars

RowsKept ==
    Committing => \A x \in kept : tables'[x[1]].rows[x[2]] = tables[x[1]].rows[x[2]]

\* A row that users have added to a table that had come across survives every
\* later run: its number is above the archived mark.
UserRowsKept == [][RowsKept]_moveVars

NumbersNew ==
    mover' = mover /\ tables' # tables =>
        \A t \in Present(tables), i \in RowIds :
            tables'[t] # Absent /\ tables[t].rows[i] = Absent /\ tables'[t].rows[i] # Absent =>
                i \notin issued[t]

\* No number that the table or its archived form has given out is given to
\* another row, deleted tail or not.
NumbersNeverReturn == [][NumbersNew]_moveVars

=============================================================================
