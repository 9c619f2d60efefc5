------------------------------ MODULE TableRows ------------------------------
(***************************************************************************)
(* The rows of one table: their numbers (private.table_row_counters) and   *)
(* their row_data, written by POST, PATCH, PUT and DELETE of rows and by   *)
(* the database side of a blob upload (router/api/rows.py,                 *)
(* repository/row.py, V69 and V71), while the types of the columns change. *)
(*                                                                         *)
(* Each request runs in one READ COMMITTED transaction; one action here is *)
(* one statement, and the commit is an action of its own.  Until then what *)
(* the transaction has written is in its own record, invisible to others,  *)
(* and the row, or the counter, is locked.                                 *)
(*                                                                         *)
(* A cell holds a word, which is no point in time, a day, which is a       *)
(* readable one, an instant, the canonical epoch milliseconds, or the      *)
(* descriptor of a file.  The objects behind the descriptors are the       *)
(* subject of BlobStore.                                                   *)
(***************************************************************************)
EXTENDS Naturals, FiniteSetsExt

CONSTANTS
    Clients,        \* clients, each with one request at a time
    Columns,        \* column ids
    Sent,           \* the cells that clients send with POST, PATCH and PUT
    MaxRow,         \* bound: the largest row number
    MaxRequests,    \* bound: requests in a behaviour
    MaxRetypes      \* bound: changes of a column's type

ASSUME RowsAssumption ==
    /\ Columns # {}
    /\ Sent \subseteq {"word", "day", "instant"}
    /\ MaxRow \in Nat \ {0} /\ MaxRequests \in Nat /\ MaxRetypes \in Nat

Rows == 1 .. MaxRow
Kinds == {"text", "date", "blob"}
Cells == {"absent", "word", "day", "instant", "file"}
RowData == [Columns -> Cells]
NoRow == [col \in {} |-> "absent"]

\* The row_data of a request, and what it may become: normalised, or a descriptor.
Data == UNION {[C -> Sent] : C \in SUBSET Columns}
Written == UNION {[C -> Sent \cup {"instant", "file"}] : C \in SUBSET Columns}

VARIABLES
    kinds,      \* the types of the columns, in public.tables
    rows,       \* committed rows: per number its row_data, or NoRow
    last,       \* committed last_row_id of the table's counter
    req,        \* per client: its request
    used,       \* history: the numbers that have named a row
    started,    \* requests so far
    retypes     \* type changes so far

vars == <<kinds, rows, last, req, used, started, retypes>>

Exists(i) == rows[i] # NoRow

Idle == [pc |-> "idle", op |-> "none", row |-> 0, data |-> NoRow,
         columns |-> NoRow, cells |-> NoRow]

RequestRecords ==
    [pc : {"idle", "find", "lock", "validate", "insert", "write", "commit"},
     op : {"none", "create", "patch", "put", "upload", "delete"},
     row : 0 .. MaxRow,
     data : Written,
     columns : [Columns -> Kinds] \cup {NoRow},     \* v_columns, the types it has read
     cells : RowData \cup {NoRow}]                  \* its own version of the row

TypeOK ==
    /\ kinds \in [Columns -> Kinds]
    /\ rows \in [Rows -> RowData \cup {NoRow}]
    /\ last \in 0 .. MaxRow
    /\ req \in [Clients -> RequestRecords]
    /\ used \in SUBSET Rows
    /\ started \in 0 .. MaxRequests
    /\ retypes \in 0 .. MaxRetypes

-----------------------------------------------------------------------------
(* _normalize_row_data_timestamps                                            *)

\* to_canonical_epoch_ms raises an error for a cell that is no point in time.
Readable(cell) == cell \in {"absent", "day", "instant"}
Instant(cell) == IF cell = "day" THEN "instant" ELSE cell

\* The cells of the date columns are converted, or the statement fails.
Dates(data, types) == {col \in DOMAIN data : types[col] = "date"}
Normalizes(data, types) == \A col \in Dates(data, types) : Readable(data[col])
Normalized(data, types) ==
    [col \in DOMAIN data |-> IF col \in Dates(data, types) THEN Instant(data[col]) ELSE data[col]]

\* _validate_row_data_mutation: blob cells are not written with the others.
TouchesBlob(data, types) == \E col \in DOMAIN data : types[col] = "blob"

Overlay(cells, data) ==
    [col \in Columns |-> IF col \in DOMAIN data THEN data[col] ELSE cells[col]]
Blank == [col \in Columns |-> "absent"]
-----------------------------------------------------------------------------
\* A table with one row that agrees with the columns.
Init ==
    /\ kinds \in [Columns -> Kinds]
    /\ \E cells \in RowData :
          /\ \A col \in Columns : cells[col] \in
                 (CASE kinds[col] = "text" -> {"absent", "word", "day"}
                    [] kinds[col] = "date" -> {"absent", "instant"}
                    [] kinds[col] = "blob" -> {"absent", "file"})
          /\ rows = [i \in Rows |-> IF i = 1 THEN cells ELSE NoRow]
    /\ last = 1
    /\ req = [c \in Clients |-> Idle]
    /\ used = {1}
    /\ started = 0
    /\ retypes = 0

Starts(c, record) ==
    /\ req[c].pc = "idle" /\ started < MaxRequests
    /\ req' = [req EXCEPT ![c] = record]
    /\ started' = started + 1
    /\ UNCHANGED <<kinds, rows, last, used, retypes>>

Goes(c, record) ==
    /\ req' = [req EXCEPT ![c] = record]
    /\ UNCHANGED <<kinds, rows, last, used, started, retypes>>

\* A transaction holds the row that it has updated or deleted.
Holding(c) == req[c].op # "create" /\ req[c].pc \in {"validate", "write", "commit"}
Holders(c, i) == {o \in Clients \ {c} : Holding(o) /\ req[o].row = i}

\* The counter, from an insertion to its commit.
Allocating(c) == req[c].op = "create" /\ req[c].pc = "commit"
CounterHeld(c) == \E o \in Clients \ {c} : Allocating(o)

-----------------------------------------------------------------------------
(* The routes up to their transaction's first write.                         *)

BeginCreate(c, data) ==
    Starts(c, [Idle EXCEPT !.pc = "validate", !.op = "create", !.data = data])

BeginChange(c, op, i, data) ==
    Starts(c, [Idle EXCEPT !.pc = IF op = "delete" THEN "lock" ELSE "find",
                           !.op = op, !.row = i, !.data = data])

\* get_by_number (404), and _get_blob_column before an upload: early exits only,
\* since the statements after them look again.  delete_row does not look first.
Find(c) ==
    /\ req[c].pc = "find"
    /\ LET known == Exists(req[c].row)
           column == req[c].op = "upload" => \A col \in DOMAIN req[c].data : kinds[col] = "blob"
       IN Goes(c, IF known /\ column THEN [req[c] EXCEPT !.pc = "lock"] ELSE Idle)

\* Variant: a shared lock, with which only deletions are exclusive.
TakesShared(c) ==
    \A o \in Holders(c, req[c].row) : req[o].op # "delete" /\ req[c].op # "delete"

\* lock_for_write waits for the row.
Takes(c) == Holders(c, req[c].row) = {}

\* lock_for_write: UPDATE rows SET row_data = row_data normalises the row again;
\* 403 without a row, an error if a cell cannot be converted.
LockForWrite(c) ==
    /\ req[c].pc = "lock" /\ req[c].op # "delete" /\ Takes(c)
    /\ LET cells == rows[req[c].row]
       IN Goes(c, IF Exists(req[c].row) /\ Normalizes(cells, kinds)
                  THEN [req[c] EXCEPT !.pc = "validate", !.cells = Normalized(cells, kinds)]
                  ELSE Idle)

\* delete_row: the same, and the DELETE of the row it then holds.
DeleteRow(c) ==
    /\ req[c].pc = "lock" /\ req[c].op = "delete" /\ Takes(c)
    /\ Goes(c, IF Exists(req[c].row) /\ Normalizes(rows[req[c].row], kinds)
               THEN [req[c] EXCEPT !.pc = "commit"] ELSE Idle)

-----------------------------------------------------------------------------
(* The row functions                                                         *)

\* update_blob_cell: the column must be a blob.
ValidateUpload(c) ==
    /\ req[c].pc = "validate" /\ req[c].op = "upload"
    /\ Goes(c, IF \A col \in DOMAIN req[c].data : kinds[col] = "blob"
               THEN [req[c] EXCEPT !.pc = "write", !.columns = kinds] ELSE Idle)

\* patch_row_data and put_row_data: the others must not be.
ValidateChange(c) ==
    /\ req[c].pc = "validate" /\ req[c].op \in {"patch", "put"}
    /\ LET data == req[c].data
       IN Goes(c, IF ~TouchesBlob(data, kinds) /\ Normalizes(data, kinds)
                  THEN [req[c] EXCEPT !.pc = "write", !.columns = kinds,
                                      !.data = Normalized(data, kinds)]
                  ELSE Idle)

\* RowRepository.create: validation only.
ValidateCreate(c) ==
    /\ req[c].pc = "validate" /\ req[c].op = "create"
    /\ Goes(c, IF ~TouchesBlob(req[c].data, kinds)
               THEN [req[c] EXCEPT !.pc = "insert", !.columns = kinds] ELSE Idle)

\* put_row_data keeps the cells of the columns that are blobs in v_columns.
BlobCells(cells, types) ==
    [col \in Columns |-> IF types[col] = "blob" THEN cells[col] ELSE "absent"]

WrittenBy(r) ==
    Overlay(IF r.op = "put" THEN BlobCells(r.cells, r.columns) ELSE r.cells, r.data)

\* UPDATE rows; trg_rows_canonical_ts reads the columns of its own moment.
WriteRow(c) ==
    /\ req[c].pc = "write"
    /\ LET cells == WrittenBy(req[c])
       IN Goes(c, IF Normalizes(cells, kinds)
                  THEN [req[c] EXCEPT !.pc = "commit", !.cells = Normalized(cells, kinds)]
                  ELSE Idle)

\* Variant: one more than the largest number in the table.
LargestPlusOne == 1 + Max({0} \cup {i \in Rows : Exists(i)})

\* trg_set_row_id_fn: the counter row's next number.
NextNumber == last + 1

\* The row its INSERT leaves, or the end of the request.
Inserting(c, cells) ==
    IF Normalizes(cells, kinds)
    THEN [req[c] EXCEPT !.pc = "commit", !.row = NextNumber, !.cells = Normalized(cells, kinds)]
    ELSE Idle

\* Variant: numbers come from a sequence, which no rollback resets.
InsertFromSequence(c) ==
    /\ req[c].pc = "insert" /\ NextNumber \in Rows
    /\ req' = [req EXCEPT ![c] = Inserting(c, Overlay(Blank, req[c].data))]
    /\ last' = NextNumber
    /\ UNCHANGED <<kinds, rows, used, started, retypes>>

\* Variant: only the functions normalise, not a trigger.
InsertAsSent(c) ==
    /\ req[c].pc = "insert" /\ ~CounterHeld(c) /\ NextNumber \in Rows
    /\ Goes(c, [req[c] EXCEPT !.pc = "commit", !.row = NextNumber,
                              !.cells = Overlay(Blank, req[c].data)])

\* INSERT INTO rows: waits for the counter.
InsertRow(c) ==
    /\ req[c].pc = "insert" /\ ~CounterHeld(c) /\ NextNumber \in Rows
    /\ Goes(c, Inserting(c, Overlay(Blank, req[c].data)))

\* The transaction's changes become visible and its locks are released.
Commit(c) ==
    /\ req[c].pc = "commit"
    /\ rows' = [rows EXCEPT ![req[c].row] = req[c].cells]
    /\ last' = IF Allocating(c) THEN req[c].row ELSE last
    /\ used' = IF Allocating(c) THEN used \cup {req[c].row} ELSE used
    /\ req' = [req EXCEPT ![c] = Idle]
    /\ UNCHANGED <<kinds, started, retypes>>

\* A statement fails or the client goes away: the transaction is rolled back.
Rollback(c) == req[c].pc # "idle" /\ Goes(c, Idle)

\* update_column writes the new type, and no row.
Retype(col, kind) ==
    /\ kinds[col] # kind /\ retypes < MaxRetypes
    /\ kinds' = [kinds EXCEPT ![col] = kind]
    /\ retypes' = retypes + 1
    /\ UNCHANGED <<rows, last, req, used, started>>

-----------------------------------------------------------------------------
Begin(c) ==
    \/ \E data \in Data : BeginCreate(c, data)
    \/ \E i \in Rows :
          \/ \E op \in {"patch", "put"}, data \in Data : BeginChange(c, op, i, data)
          \/ \E col \in Columns : BeginChange(c, "upload", i, [x \in {col} |-> "file"])
          \/ BeginChange(c, "delete", i, NoRow)

Next ==
    \/ \E c \in Clients :
          \/ Begin(c) \/ Find(c) \/ LockForWrite(c) \/ DeleteRow(c)
          \/ ValidateUpload(c) \/ ValidateChange(c) \/ ValidateCreate(c)
          \/ WriteRow(c) \/ InsertRow(c)
          \/ Commit(c) \/ Rollback(c)
    \/ \E col \in Columns, kind \in Kinds : Retype(col, kind)

Spec == Init /\ [][Next]_vars
-----------------------------------------------------------------------------
(* Properties. *)

\* V51: a number means one row forever.  A row never appears under a number that
\* has named another one, whatever is created, deleted and rolled back.
NumbersNameOneRow ==
    [][\A i \in Rows : ~Exists(i) /\ Exists(i)' => i \notin used]_vars

\* V51: no gaps.  Every number up to the counter has named a row: an insertion
\* that is rolled back gives its number back.
NoGaps == used = 1 .. last

\* A transaction whose commit changes row i.
Writer(c, i) == req[c].pc = "commit" /\ req[c].row = i

\* The cells a request names: those it has sent, and with PUT all that are not
\* blobs in the columns it has read.
Asked(r, col) == col \in DOMAIN r.data \/ (r.op = "put" /\ r.columns[col] # "blob")

\* As long as a row lives, one of its cells changes only by the commit of a
\* request that has sent a new value for it, or replaces the row and has seen
\* that the column is no blob, or has converted the cell of a date column.  In
\* particular PATCH keeps the cells that others have written meanwhile, and a
\* descriptor goes only with its row, its replacement or its column's type.
CellsChangeAsAsked ==
    [][\A i \in Rows, col \in Columns :
          Exists(i) /\ Exists(i)' /\ rows'[i][col] # rows[i][col] =>
              \E c \in Clients :
                  /\ Writer(c, i)
                  /\ Asked(req[c], col) \/ rows'[i][col] = Instant(rows[i][col])]_vars

\* As long as no column changes its type, every cell of a date column is
\* canonical, whoever has written the row.
CanonicalWithoutRetypes ==
    retypes = 0 =>
        \A i \in Rows : Exists(i) =>
            \A col \in Dates(rows[i], kinds) : rows[i][col] \in {"absent", "instant"}

-----------------------------------------------------------------------------
(* The inductive invariant behind the numbers, proved in TableRowsProofs.    *)

\* Only rows with used numbers exist, and a transaction holds only such rows.
RowsAreUsed ==
    /\ \A i \in Rows : Exists(i) => i \in used
    /\ \A c \in Clients : Holding(c) => req[c].row \in Rows /\ Exists(req[c].row)

\* The steps of a creation and of the other requests do not mix; a change has
\* its own version of the row from the lock to its UPDATE.
RequestShape ==
    \A c \in Clients :
        /\ req[c].pc = "insert" => req[c].op = "create"
        /\ req[c].pc \in {"find", "lock"} =>
              /\ req[c].op # "create" /\ req[c].row \in Rows
              /\ req[c].cells = NoRow
        /\ req[c].pc = "write" => req[c].op # "create"
        /\ Holding(c) /\ req[c].pc # "commit" => req[c].cells \in RowData
        /\ Allocating(c) => req[c].row \in Rows /\ req[c].row = NextNumber

\* A row has one holder and the counter has one.
LocksExclusive ==
    \A c, d \in Clients : c # d =>
        /\ ~(Allocating(c) /\ Allocating(d))
        /\ Holding(c) /\ Holding(d) => req[c].row # req[d].row

\* The version a change writes from is the committed one, but for the conversion
\* of dates, in every cell that it does not ask for; a deletion has none.
OwnVersion ==
    \A c \in Clients : Holding(c) =>
        IF req[c].op = "delete" THEN req[c].cells = NoRow
        ELSE /\ req[c].cells \in RowData
             /\ \A col \in Columns :
                   \/ req[c].cells[col] \in
                         {rows[req[c].row][col], Instant(rows[req[c].row][col])}
                   \/ req[c].pc = "commit" /\ Asked(req[c], col)

\* What is about to be committed is canonical like the rows.
CommitsCanonical ==
    retypes = 0 =>
        \A c \in Clients : req[c].pc = "commit" =>
            \A col \in Dates(req[c].cells, kinds) : req[c].cells[col] \in {"absent", "instant"}

\* Row locks and the counter's lock exclude each other's holders, and a request
\* that holds a row finds it there, with the cells it has seen, when it commits.
IInv ==
    /\ TypeOK /\ NoGaps /\ RowsAreUsed /\ RequestShape /\ LocksExclusive
    /\ OwnVersion /\ CanonicalWithoutRetypes /\ CommitsCanonical
=============================================================================
