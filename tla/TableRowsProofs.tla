--------------------------- MODULE TableRowsProofs ---------------------------
(***************************************************************************)
(* Row numbers and cells, proved for every set of clients and columns and  *)
(* every bound.  A request's step is one of three moves: it takes a new    *)
(* record and publishes nothing (Move), it commits a creation, or it       *)
(* commits a change of a row it holds.                                     *)
(***************************************************************************)
EXTENDS TableRows, TLAPS

-----------------------------------------------------------------------------
(* The operators on row data. *)

LEMMA NormalizedRow ==
  ASSUME NEW cells \in RowData, NEW types
  PROVE  Normalized(cells, types) \in RowData
BY DEF Normalized, RowData, Instant, Cells

\* Normalising what a client sent leaves it a possible patch.
LEMMA NormalizedData ==
  ASSUME NEW data \in Written, NEW types
  PROVE  Normalized(data, types) \in Written
<1>1. PICK C \in SUBSET Columns : data \in [C -> Sent \cup {"instant", "file"}]
  BY DEF Written
<1>2. Normalized(data, types) \in [C -> Sent \cup {"instant", "file"}]
  BY <1>1 DEF Normalized, Instant
<1>3. QED
  BY <1>2 DEF Written

LEMMA OverlayRow ==
  ASSUME NEW cells \in RowData, NEW data \in Written
  PROVE  Overlay(cells, data) \in RowData
<1>1. PICK C \in SUBSET Columns : data \in [C -> Sent \cup {"instant", "file"}]
  BY DEF Written
<1>2. Sent \cup {"instant", "file"} \subseteq Cells
  BY RowsAssumption DEF Cells
<1>3. QED
  BY <1>1, <1>2 DEF Overlay, RowData

LEMMA BlobCellsRow ==
  ASSUME NEW cells \in RowData, NEW types
  PROVE  BlobCells(cells, types) \in RowData
BY DEF BlobCells, RowData, Cells

LEMMA DataWritten == Data \subseteq Written
<1> SUFFICES ASSUME NEW data \in Data PROVE data \in Written
  OBVIOUS
<1>1. PICK C \in SUBSET Columns : data \in [C -> Sent]
  BY DEF Data
<1>2. data \in [C -> Sent \cup {"instant", "file"}]
  BY <1>1
<1>3. QED
  BY <1>2 DEF Written

LEMMA NoRowWritten == NoRow \in Written
<1>1. NoRow \in [{} -> Sent \cup {"instant", "file"}]
  BY DEF NoRow
<1>2. QED
  BY <1>1 DEF Written

\* A row_data is never mistaken for the absence of a row.
LEMMA RowIsSomething ==
  ASSUME NEW cells \in RowData
  PROVE  cells # NoRow
BY RowsAssumption DEF RowData, NoRow

\* Normalising a row leaves a cell alone or converts it, and the dates canonical.
LEMMA NormalizedCell ==
  ASSUME NEW cells \in RowData, NEW types, NEW col \in Columns
  PROVE  Normalized(cells, types)[col] \in {cells[col], Instant(cells[col])}
BY DEF Normalized, RowData

LEMMA NormalizedCanonical ==
  ASSUME NEW cells \in RowData, NEW types, Normalizes(cells, types),
         NEW col \in Dates(Normalized(cells, types), types)
  PROVE  Normalized(cells, types)[col] \in {"absent", "instant"}
<1>1. col \in Columns /\ col \in Dates(cells, types)
  BY DEF Dates, Normalized, RowData
<1>2. cells[col] \in {"absent", "day", "instant"}
  BY <1>1 DEF Normalizes, Readable
<1>3. Normalized(cells, types)[col] = Instant(cells[col])
  BY <1>1 DEF Normalized, RowData
<1>4. QED
  BY <1>2, <1>3 DEF Instant

LEMMA InstantTwice == \A cell : Instant(Instant(cell)) = Instant(cell)
BY DEF Instant

LEMMA IdleRecord ==
  Idle \in RequestRecords /\ Idle.pc = "idle" /\ Idle.op = "none"
BY NoRowWritten, RowsAssumption DEF Idle, RequestRecords

-----------------------------------------------------------------------------
(* The moves. *)

\* What the new record of a request must be like when the request publishes nothing.
Holds(r) == r.op # "create" /\ r.pc \in {"validate", "write", "commit"}
Allocates(r) == r.op = "create" /\ r.pc = "commit"
Shaped(c, r) ==
    /\ r \in RequestRecords
    /\ Holds(r) => /\ r.row \in Rows /\ Exists(r.row)
                   /\ \A d \in Clients \ {c} : Holding(d) => req[d].row # r.row
                   /\ r.pc # "commit" => r.cells \in RowData
    /\ Allocates(r) => /\ r.row \in Rows /\ r.row = NextNumber
                       /\ \A d \in Clients \ {c} : ~Allocating(d)
    /\ r.pc = "insert" => r.op = "create"
    /\ r.pc \in {"find", "lock"} => r.op # "create" /\ r.row \in Rows /\ r.cells = NoRow
    /\ r.pc = "write" => r.op # "create"
Versioned(r) ==
    Holds(r) =>
        IF r.op = "delete" THEN r.cells = NoRow
        ELSE /\ r.cells \in RowData
             /\ \A col \in Columns :
                   \/ r.cells[col] \in {rows[r.row][col], Instant(rows[r.row][col])}
                   \/ r.pc = "commit" /\ Asked(r, col)
Canonical(r) ==
    retypes = 0 /\ r.pc = "commit" =>
        \A col \in Dates(r.cells, kinds) : r.cells[col] \in {"absent", "instant"}
FitsIn(c, r) == Shaped(c, r) /\ Versioned(r) /\ Canonical(r)

LEMMA Move ==
  ASSUME NEW c \in Clients, NEW r, IInv, FitsIn(c, r),
         req' = [req EXCEPT ![c] = r], started' \in 0 .. MaxRequests,
         UNCHANGED <<kinds, rows, last, used, retypes>>
  PROVE  IInv'
<1>1. TypeOK'
  BY DEF IInv, TypeOK, FitsIn, Shaped
<1>2. req \in [Clients -> RequestRecords]
  BY DEF IInv, TypeOK
<1>3. /\ req'[c] = r
      /\ \A d \in Clients : d # c => req'[d] = req[d]
  BY <1>2
<1>4. NoGaps' /\ CanonicalWithoutRetypes'
  BY DEF IInv, NoGaps, CanonicalWithoutRetypes, Exists, Dates
<1>5. RowsAreUsed'
  BY <1>3 DEF IInv, RowsAreUsed, Exists, Holding, Holds, FitsIn, Shaped
<1>6. RequestShape'
  BY <1>3 DEF IInv, RequestShape, Allocating, Holding, Holds, Allocates, NextNumber, FitsIn, Shaped
<1>7. LocksExclusive'
  BY <1>3 DEF IInv, LocksExclusive, Allocating, Holding, Holds, Allocates, FitsIn, Shaped
<1>8. OwnVersion'
  BY <1>3 DEF IInv, OwnVersion, Holding, Holds, FitsIn, Versioned
<1>9. CommitsCanonical'
  BY <1>3 DEF IInv, CommitsCanonical, Dates, FitsIn, Canonical
<1>10. QED
  BY <1>1, <1>4, <1>5, <1>6, <1>7, <1>8, <1>9 DEF IInv

\* A request that ends, or fails, fits in anywhere.
LEMMA IdleFits ==
  ASSUME NEW c \in Clients
  PROVE  FitsIn(c, Idle)
BY IdleRecord DEF FitsIn, Shaped, Versioned, Canonical, Holds, Allocates

LEMMA GoesMove ==
  ASSUME NEW c \in Clients, NEW r, IInv, FitsIn(c, r), Goes(c, r)
  PROVE  IInv'
<1>1. started' \in 0 .. MaxRequests
  BY DEF Goes, IInv, TypeOK
<1>2. QED
  BY <1>1, Move DEF Goes

\* A request that goes on with what it holds, under another program counter.
LEMMA GoesOn ==
  ASSUME NEW c \in Clients, NEW r \in RequestRecords, IInv, Holding(c),
         r.row = req[c].row, r.op = req[c].op, r.pc \in {"validate", "write", "commit"},
         r.pc # "commit" => r.cells \in RowData
  PROVE  Shaped(c, r)
BY DEF IInv, RowsAreUsed, LocksExclusive, Holding, Holds, Allocates, Shaped

-----------------------------------------------------------------------------
(* One lemma per action. *)

LEMMA InvInit == Init => IInv
<1> SUFFICES ASSUME Init PROVE IInv
  OBVIOUS
<1>1. PICK cells \in RowData : rows = [i \in Rows |-> IF i = 1 THEN cells ELSE NoRow]
  BY DEF Init
<1>2. 1 \in Rows /\ 0 \in 0 .. MaxRequests /\ 0 \in 0 .. MaxRetypes /\ last \in 0 .. MaxRow
  BY RowsAssumption DEF Rows, Init
<1>3. TypeOK
  BY <1>1, <1>2, IdleRecord DEF Init, TypeOK
<1>4. NoGaps
  BY DEF Init, NoGaps
<1>5. RowsAreUsed
  BY <1>1, IdleRecord DEF Init, RowsAreUsed, Exists, Holding
<1>6. RequestShape /\ LocksExclusive /\ OwnVersion /\ CommitsCanonical
  BY IdleRecord DEF Init, RequestShape, LocksExclusive, OwnVersion, CommitsCanonical, Allocating, Holding
<1>7. CanonicalWithoutRetypes
  BY DEF Init, CanonicalWithoutRetypes, Exists, Dates, Rows, NoRow, RowData
<1>8. QED
  BY <1>3, <1>4, <1>5, <1>6, <1>7 DEF IInv

LEMMA StartsMove ==
  ASSUME NEW c \in Clients, NEW r, IInv, FitsIn(c, r), Starts(c, r)
  PROVE  IInv'
<1>1. started' \in 0 .. MaxRequests
  BY RowsAssumption DEF Starts, IInv, TypeOK
<1>2. QED
  BY <1>1, Move DEF Starts

LEMMA InvBeginCreate ==
  ASSUME NEW c \in Clients, NEW data \in Data, IInv, BeginCreate(c, data)
  PROVE  IInv'
<1> DEFINE r == [Idle EXCEPT !.pc = "validate", !.op = "create", !.data = data]
<1>1. r \in RequestRecords
  BY IdleRecord, DataWritten DEF RequestRecords
<1>2. r.pc = "validate" /\ r.op = "create"
  BY DEF Idle
<1>3. FitsIn(c, r)
  BY <1>1, <1>2 DEF FitsIn, Shaped, Versioned, Canonical, Holds, Allocates
<1> HIDE DEF r
<1>4. QED
  BY <1>3, StartsMove DEF BeginCreate, r

LEMMA InvBeginChange ==
  ASSUME NEW c \in Clients, NEW op \in {"patch", "put", "upload", "delete"}, NEW i \in Rows,
         NEW data \in Written, IInv, BeginChange(c, op, i, data)
  PROVE  IInv'
<1> DEFINE r == [Idle EXCEPT !.pc = IF op = "delete" THEN "lock" ELSE "find",
                             !.op = op, !.row = i, !.data = data]
<1>1. i \in 0 .. MaxRow
  BY RowsAssumption DEF Rows
<1>2. r \in RequestRecords
  BY <1>1, IdleRecord DEF RequestRecords
<1>3. r.pc \in {"lock", "find"} /\ r.op # "create" /\ r.row = i /\ r.cells = NoRow
  BY DEF Idle
<1>4. FitsIn(c, r)
  BY <1>2, <1>3 DEF FitsIn, Shaped, Versioned, Canonical, Holds, Allocates
<1> HIDE DEF r
<1>5. QED
  BY <1>4, StartsMove DEF BeginChange, r

LEMMA InvFind ==
  ASSUME NEW c \in Clients, IInv, Find(c)
  PROVE  IInv'
<1> DEFINE r == [req[c] EXCEPT !.pc = "lock"]
<1>1. /\ req[c] \in RequestRecords /\ req[c].op # "create" /\ req[c].row \in Rows
      /\ req[c].cells = NoRow
  BY DEF IInv, TypeOK, RequestShape, Find
<1>2. r \in RequestRecords /\ r.pc = "lock" /\ r.op # "create" /\ r.row \in Rows /\ r.cells = NoRow
  BY <1>1 DEF RequestRecords
<1>3. FitsIn(c, r)
  BY <1>2 DEF FitsIn, Shaped, Versioned, Canonical, Holds, Allocates
<1>4. Goes(c, r) \/ Goes(c, Idle)
  BY DEF Find
<1> HIDE DEF r
<1>5. QED
  BY <1>3, <1>4, IdleFits, GoesMove

\* The row a request locks exists, and nobody else holds it.
LEMMA Locked ==
  ASSUME NEW c \in Clients, NEW r \in RequestRecords, IInv, Takes(c), req[c].pc = "lock",
         Exists(req[c].row), r.row = req[c].row, r.op = req[c].op,
         r.pc \in {"validate", "commit"}, r.pc # "commit" => r.cells \in RowData
  PROVE  Shaped(c, r)
<1>1. req[c].op # "create" /\ req[c].row \in Rows
  BY DEF IInv, RequestShape
<1>2. \A d \in Clients \ {c} : Holding(d) => req[d].row # req[c].row
  BY DEF Takes, Holders
<1>3. QED
  BY <1>1, <1>2 DEF Shaped, Holds, Allocates

LEMMA InvLockForWrite ==
  ASSUME NEW c \in Clients, IInv, LockForWrite(c)
  PROVE  IInv'
<1> DEFINE cells == rows[req[c].row]
           r == [req[c] EXCEPT !.pc = "validate", !.cells = Normalized(cells, kinds)]
<1>1. CASE Exists(req[c].row) /\ Normalizes(cells, kinds)
  <2>1. req[c] \in RequestRecords /\ req[c].row \in Rows
    BY DEF IInv, TypeOK, RequestShape, LockForWrite
  <2>2. cells \in RowData
    BY <1>1, <2>1 DEF IInv, TypeOK, Exists
  <2>3. /\ Normalized(cells, kinds) \in RowData
        /\ \A col \in Columns :
              Normalized(cells, kinds)[col] \in {cells[col], Instant(cells[col])}
    BY <2>2, NormalizedRow, NormalizedCell
  <2> HIDE DEF cells
  <2>4. /\ r \in RequestRecords
        /\ r.pc = "validate" /\ r.row = req[c].row /\ r.op = req[c].op
        /\ r.cells = Normalized(cells, kinds)
    BY <2>1, <2>3 DEF RequestRecords
  <2> HIDE DEF r
  <2>5. FitsIn(c, r)
    <3>1. Shaped(c, r)
      BY <1>1, <2>3, <2>4, Locked DEF LockForWrite
    <3>2. Versioned(r) /\ Canonical(r)
      BY <2>3, <2>4 DEF Versioned, Canonical, LockForWrite, cells
    <3>3. QED
      BY <3>1, <3>2 DEF FitsIn
  <2>6. Goes(c, r)
    BY <1>1 DEF LockForWrite, r, cells
  <2>7. QED
    BY <2>5, <2>6, GoesMove
<1>2. CASE ~(Exists(req[c].row) /\ Normalizes(cells, kinds))
  <2>1. Goes(c, Idle)
    BY <1>2 DEF LockForWrite
  <2>2. QED
    BY <2>1, IdleFits, GoesMove
<1>3. QED
  BY <1>1, <1>2

LEMMA InvDeleteRow ==
  ASSUME NEW c \in Clients, IInv, DeleteRow(c)
  PROVE  IInv'
<1> DEFINE r == [req[c] EXCEPT !.pc = "commit"]
<1>1. CASE Exists(req[c].row) /\ Normalizes(rows[req[c].row], kinds)
  <2>1. req[c] \in RequestRecords /\ req[c].cells = NoRow
    BY DEF IInv, TypeOK, RequestShape, DeleteRow
  <2>2. /\ r \in RequestRecords
        /\ r.pc = "commit" /\ r.row = req[c].row /\ r.op = req[c].op /\ r.cells = NoRow
    BY <2>1 DEF RequestRecords
  <2> HIDE DEF r
  <2>3. FitsIn(c, r)
    <3>1. Shaped(c, r)
      BY <1>1, <2>2, Locked DEF DeleteRow
    <3>2. Versioned(r)
      BY <2>2 DEF Versioned, DeleteRow
    <3>3. Canonical(r)
      BY <2>2 DEF Canonical, Dates, NoRow
    <3>4. QED
      BY <3>1, <3>2, <3>3 DEF FitsIn
  <2>4. Goes(c, r)
    BY <1>1 DEF DeleteRow, r
  <2>5. QED
    BY <2>3, <2>4, GoesMove
<1>2. CASE ~(Exists(req[c].row) /\ Normalizes(rows[req[c].row], kinds))
  <2>1. Goes(c, Idle)
    BY <1>2 DEF DeleteRow
  <2>2. QED
    BY <2>1, IdleFits, GoesMove
<1>3. QED
  BY <1>1, <1>2

LEMMA InvValidateUpload ==
  ASSUME NEW c \in Clients, IInv, ValidateUpload(c)
  PROVE  IInv'
<1> DEFINE r == [req[c] EXCEPT !.pc = "write", !.columns = kinds]
<1>1. /\ req[c] \in RequestRecords /\ kinds \in [Columns -> Kinds] /\ Holding(c)
      /\ req[c].cells \in RowData
  BY DEF IInv, TypeOK, RequestShape, ValidateUpload, Holding
<1>2. /\ r \in RequestRecords
      /\ r.pc = "write" /\ r.row = req[c].row /\ r.op = req[c].op
      /\ r.cells = req[c].cells
  BY <1>1 DEF RequestRecords
<1>3. Goes(c, r) \/ Goes(c, Idle)
  BY DEF ValidateUpload
<1> HIDE DEF r
<1>4. FitsIn(c, r)
  <2>1. Shaped(c, r)
    BY <1>1, <1>2, GoesOn
  <2>2. Versioned(r)
    BY <1>1, <1>2 DEF IInv, OwnVersion, Versioned, ValidateUpload
  <2>3. Canonical(r)
    BY <1>2 DEF Canonical
  <2>4. QED
    BY <2>1, <2>2, <2>3 DEF FitsIn
<1>5. QED
  BY <1>3, <1>4, IdleFits, GoesMove

LEMMA InvValidateChange ==
  ASSUME NEW c \in Clients, IInv, ValidateChange(c)
  PROVE  IInv'
<1> DEFINE data == Normalized(req[c].data, kinds)
           r == [req[c] EXCEPT !.pc = "write", !.columns = kinds, !.data = data]
<1>1. /\ req[c] \in RequestRecords /\ kinds \in [Columns -> Kinds] /\ Holding(c)
      /\ req[c].cells \in RowData
  BY DEF IInv, TypeOK, RequestShape, ValidateChange, Holding
<1>2. data \in Written
  BY <1>1, NormalizedData DEF RequestRecords
<1>3. Goes(c, r) \/ Goes(c, Idle)
  BY DEF ValidateChange
<1> HIDE DEF data
<1>4. /\ r \in RequestRecords
      /\ r.pc = "write" /\ r.row = req[c].row /\ r.op = req[c].op
      /\ r.cells = req[c].cells
  BY <1>1, <1>2 DEF RequestRecords
<1> HIDE DEF r
<1>5. FitsIn(c, r)
  <2>1. Shaped(c, r)
    BY <1>1, <1>4, GoesOn
  <2>2. Versioned(r)
    BY <1>1, <1>4 DEF IInv, OwnVersion, Versioned, ValidateChange
  <2>3. Canonical(r)
    BY <1>4 DEF Canonical
  <2>4. QED
    BY <2>1, <2>2, <2>3 DEF FitsIn
<1>6. QED
  BY <1>3, <1>5, IdleFits, GoesMove

LEMMA InvValidateCreate ==
  ASSUME NEW c \in Clients, IInv, ValidateCreate(c)
  PROVE  IInv'
<1> DEFINE r == [req[c] EXCEPT !.pc = "insert", !.columns = kinds]
<1>1. req[c] \in RequestRecords /\ kinds \in [Columns -> Kinds]
  BY DEF IInv, TypeOK
<1>2. r \in RequestRecords /\ r.pc = "insert" /\ r.op = "create"
  BY <1>1 DEF RequestRecords, ValidateCreate
<1>3. FitsIn(c, r)
  BY <1>2 DEF FitsIn, Shaped, Versioned, Canonical, Holds, Allocates
<1>4. Goes(c, r) \/ Goes(c, Idle)
  BY DEF ValidateCreate
<1> HIDE DEF r
<1>5. QED
  BY <1>3, <1>4, IdleFits, GoesMove

LEMMA InvWriteRow ==
  ASSUME NEW c \in Clients, IInv, WriteRow(c)
  PROVE  IInv'
<1> DEFINE cells == Normalized(WrittenBy(req[c]), kinds)
           r == [req[c] EXCEPT !.pc = "commit", !.cells = cells]
<1>1. /\ req[c] \in RequestRecords /\ Holding(c) /\ req[c].cells \in RowData
      /\ req[c].data \in Written
  BY DEF IInv, TypeOK, RequestShape, WriteRow, Holding, RequestRecords
<1>2. WrittenBy(req[c]) \in RowData
  BY <1>1, BlobCellsRow, OverlayRow DEF WrittenBy
<1>3. cells \in RowData
  BY <1>2, NormalizedRow
<1>4. \/ Goes(c, r) /\ Normalizes(WrittenBy(req[c]), kinds)
      \/ Goes(c, Idle)
  BY DEF WriteRow
<1> HIDE DEF cells
<1>5. /\ r \in RequestRecords
      /\ r.pc = "commit" /\ r.row = req[c].row /\ r.op = req[c].op
      /\ r.cells = cells /\ r.data = req[c].data /\ r.columns = req[c].columns
  BY <1>1, <1>3 DEF RequestRecords
<1> HIDE DEF r
<1>6. Shaped(c, r)
  BY <1>1, <1>5, GoesOn
<1>7. Versioned(r)
  <2>1. /\ r.op # "delete" /\ r.op # "create"
        /\ \A col \in Columns :
              req[c].cells[col] \in {rows[r.row][col], Instant(rows[r.row][col])}
    BY <1>1, <1>5, RowIsSomething DEF IInv, OwnVersion, RequestShape, WriteRow
  <2>2. ASSUME NEW col \in Columns, ~Asked(r, col)
        PROVE  WrittenBy(req[c])[col] = req[c].cells[col]
    BY <1>1, <1>5, <2>2 DEF WrittenBy, Overlay, BlobCells, Asked
  <2>3. \A col \in Columns :
           cells[col] \in {WrittenBy(req[c])[col], Instant(WrittenBy(req[c])[col])}
    BY <1>2, NormalizedCell DEF cells
  <2>4. ASSUME NEW col \in Columns, ~Asked(r, col)
        PROVE  cells[col] \in {rows[r.row][col], Instant(rows[r.row][col])}
    BY <2>1, <2>2, <2>3, <2>4, InstantTwice
  <2>5. QED
    BY <1>3, <1>5, <2>1, <2>4 DEF Versioned
<1>8. Normalizes(WrittenBy(req[c]), kinds) => Canonical(r)
  BY <1>2, <1>5, NormalizedCanonical DEF Canonical, cells
<1>9. QED
  BY <1>4, <1>6, <1>7, <1>8, IdleFits, GoesMove DEF FitsIn

LEMMA InvInsertRow ==
  ASSUME NEW c \in Clients, IInv, InsertRow(c)
  PROVE  IInv'
<1> DEFINE cells == Normalized(Overlay(Blank, req[c].data), kinds)
           r == [req[c] EXCEPT !.pc = "commit", !.row = NextNumber, !.cells = cells]
<1>1. req[c] \in RequestRecords /\ req[c].op = "create"
  BY DEF IInv, TypeOK, RequestShape, InsertRow
<1>2. cells \in RowData /\ Overlay(Blank, req[c].data) \in RowData
  <2>1. Blank \in RowData /\ req[c].data \in Written
    BY <1>1 DEF Blank, RowData, Cells, RequestRecords
  <2>2. QED
    BY <2>1, OverlayRow, NormalizedRow
<1>3. NextNumber \in Rows /\ NextNumber \in 0 .. MaxRow
  BY RowsAssumption DEF InsertRow, Rows
<1>4. \/ Goes(c, r) /\ Normalizes(Overlay(Blank, req[c].data), kinds)
      \/ Goes(c, Idle)
  BY DEF InsertRow, Inserting
<1> HIDE DEF cells
<1>5. /\ r \in RequestRecords
      /\ r.pc = "commit" /\ r.row = NextNumber /\ r.op = "create" /\ r.cells = cells
  BY <1>1, <1>2, <1>3 DEF RequestRecords
<1> HIDE DEF r
<1>6. \A d \in Clients \ {c} : ~Allocating(d)
  BY DEF InsertRow, CounterHeld
<1>7. Shaped(c, r) /\ Versioned(r)
  BY <1>3, <1>5, <1>6 DEF Shaped, Versioned, Holds, Allocates
<1>8. Normalizes(Overlay(Blank, req[c].data), kinds) => Canonical(r)
  BY <1>2, <1>5, NormalizedCanonical DEF Canonical, cells
<1>9. QED
  BY <1>4, <1>7, <1>8, IdleFits, GoesMove DEF FitsIn

\* A commit changes the row of its request, and in a creation the counter.
LEMMA InvCommit ==
  ASSUME NEW c \in Clients, IInv, Commit(c)
  PROVE  IInv'
<1> DEFINE i == req[c].row
<1>1. /\ req \in [Clients -> RequestRecords] /\ req[c] \in RequestRecords
      /\ req' = [req EXCEPT ![c] = Idle]
      /\ rows \in [Rows -> RowData \cup {NoRow}]
  BY DEF IInv, TypeOK, Commit
<1>2. /\ req'[c] = Idle
      /\ \A d \in Clients : d # c => req'[d] = req[d]
  BY <1>1
<1>3. ~Holding(c)' /\ ~Allocating(c)'
  BY <1>2, IdleRecord DEF Holding, Allocating
<1>4. Holding(c) \/ Allocating(c)
  BY DEF Commit, Holding, Allocating
<1>5. i \in Rows
  BY <1>4 DEF IInv, RowsAreUsed, RequestShape
<1>6. \A d \in Clients : d # c => (Holding(d)' <=> Holding(d)) /\ (Allocating(d)' <=> Allocating(d))
  BY <1>2 DEF Holding, Allocating
<1>7. LocksExclusive'
  BY <1>2, <1>3, <1>6 DEF IInv, LocksExclusive
<1>8. \A j \in Rows : j # i => rows'[j] = rows[j]
  BY <1>1, <1>5 DEF Commit
<1>9. TypeOK' /\ NoGaps'
  <2>1. req' \in [Clients -> RequestRecords]
    BY <1>1, IdleRecord
  <2>2. rows' \in [Rows -> RowData \cup {NoRow}]
    <3>1. req[c].cells \in RowData \cup {NoRow}
      BY <1>1 DEF RequestRecords
    <3>2. QED
      BY <1>1, <1>5, <3>1 DEF Commit
  <2>3. kinds' = kinds /\ started' = started /\ retypes' = retypes
    BY DEF Commit
  <2>4. CASE Allocating(c)
    <3>1. last' = last + 1 /\ used' = used \cup {last + 1} /\ last + 1 \in Rows
      BY <2>4, <1>5 DEF Commit, IInv, RequestShape, NextNumber
    <3>2. last \in Nat /\ used = 1 .. last /\ last + 1 \in 0 .. MaxRow
      BY <3>1, RowsAssumption DEF IInv, TypeOK, NoGaps, Rows
    <3>3. used' = 1 .. last'
      BY <3>1, <3>2
    <3>4. used' \in SUBSET Rows
      BY <3>1 DEF IInv, TypeOK
    <3>5. QED
      BY <2>1, <2>2, <2>3, <3>1, <3>2, <3>3, <3>4 DEF IInv, TypeOK, NoGaps
  <2>5. CASE ~Allocating(c)
    <3>1. last' = last /\ used' = used
      BY <2>5 DEF Commit
    <3>2. QED
      BY <2>1, <2>2, <2>3, <3>1 DEF IInv, TypeOK, NoGaps
  <2>6. QED
    BY <2>4, <2>5
<1>10. ASSUME NEW d \in Clients, d # c, Holding(d)
      PROVE  req[d].row # i
  <2>1. CASE Holding(c)
    BY <1>10, <2>1 DEF IInv, LocksExclusive
  <2>2. CASE Allocating(c)
    \* The number of a creation names no row yet.
    <3>1. i = last + 1 /\ last \in Nat
      BY <2>2, RowsAssumption DEF IInv, TypeOK, RequestShape, NextNumber
    <3>2. req[d].row \in 1 .. last
      BY <1>10 DEF IInv, RowsAreUsed, NoGaps
    <3>3. QED
      BY <3>1, <3>2
  <2>3. QED
    BY <1>4, <2>1, <2>2
<1>11. RowsAreUsed'
  <2>1. used \subseteq used'
    BY DEF Commit
  <2>2. i \in used'
    <3>1. CASE Allocating(c)
      BY <3>1 DEF Commit
    <3>2. CASE Holding(c)
      BY <2>1, <3>2 DEF IInv, RowsAreUsed
    <3>3. QED
      BY <1>4, <3>1, <3>2
  <2>3. \A j \in Rows : Exists(j)' => j \in used'
    BY <1>8, <2>1, <2>2 DEF IInv, RowsAreUsed, Exists
  <2>4. ASSUME NEW d \in Clients, Holding(d)'
        PROVE  req'[d].row \in Rows /\ Exists(req[d].row)'
    <3>1. d # c /\ Holding(d) /\ req'[d] = req[d]
      BY <1>2, <1>3, <1>6, <2>4
    <3>2. req[d].row \in Rows /\ Exists(req[d].row)
      BY <3>1 DEF IInv, RowsAreUsed
    <3>3. req[d].row # i
      BY <1>10, <3>1
    <3>4. QED
      BY <1>8, <3>1, <3>2, <3>3 DEF Exists
  <2>5. QED
    BY <1>2, <1>3, <1>6, <2>3, <2>4 DEF RowsAreUsed, Exists
<1>12. RequestShape'
  <2>1. \A d \in Clients : Allocating(d)' => d # c /\ Allocating(d) /\ ~Allocating(c)
    BY <1>3, <1>4, <1>6 DEF IInv, LocksExclusive
  <2>2. \A d \in Clients : Allocating(d)' => req'[d].row \in Rows /\ req'[d].row = NextNumber'
    BY <1>2, <2>1 DEF IInv, RequestShape, NextNumber, Commit
  <2>3. QED
    BY <1>2, <1>3, <1>6, <2>2, IdleRecord DEF IInv, RequestShape
<1>13. OwnVersion'
  <2>1. ASSUME NEW d \in Clients, Holding(d)'
        PROVE  /\ Holding(d) /\ req'[d] = req[d]
               /\ rows'[req[d].row] = rows[req[d].row]
    <3>1. d # c /\ Holding(d) /\ req'[d] = req[d]
      BY <1>2, <1>3, <1>6, <2>1
    <3>2. req[d].row # i /\ req[d].row \in Rows
      BY <1>10, <3>1 DEF IInv, RowsAreUsed
    <3>3. QED
      BY <1>8, <3>1, <3>2
  <2>2. QED
    BY <2>1 DEF IInv, OwnVersion
<1>14. CanonicalWithoutRetypes' /\ CommitsCanonical'
  <2>1. kinds' = kinds /\ retypes' = retypes /\ rows'[i] = req[c].cells /\ req[c].pc = "commit"
    BY <1>1, <1>5 DEF Commit
  <2>2. CanonicalWithoutRetypes'
    BY <1>8, <2>1 DEF IInv, CanonicalWithoutRetypes, CommitsCanonical, Exists, Dates
  <2>3. CommitsCanonical'
    BY <1>2, <2>1, IdleRecord DEF IInv, CommitsCanonical, Dates
  <2>4. QED
    BY <2>2, <2>3
<1>15. QED
  BY <1>7, <1>9, <1>11, <1>12, <1>13, <1>14 DEF IInv

LEMMA InvRollback ==
  ASSUME NEW c \in Clients, IInv, Rollback(c)
  PROVE  IInv'
BY IdleFits, GoesMove DEF Rollback

LEMMA InvRetype ==
  ASSUME NEW col \in Columns, NEW kind \in Kinds, IInv, Retype(col, kind)
  PROVE  IInv'
<1>1. TypeOK'
  BY RowsAssumption DEF IInv, TypeOK, Retype
<1>2. CanonicalWithoutRetypes' /\ CommitsCanonical'
  BY RowsAssumption DEF IInv, TypeOK, Retype, CanonicalWithoutRetypes, CommitsCanonical
<1>3. QED
  BY <1>1, <1>2 DEF Retype, IInv, NoGaps, RowsAreUsed, RequestShape, LocksExclusive, OwnVersion,
              Holding, Allocating, Exists, NextNumber

-----------------------------------------------------------------------------
(* The theorems. *)

LEMMA InvNext == IInv /\ [Next]_vars => IInv'
<1> SUFFICES ASSUME IInv, [Next]_vars PROVE IInv'
  OBVIOUS
<1>1. CASE UNCHANGED vars
  BY <1>1 DEF vars, IInv, TypeOK, NoGaps, RowsAreUsed, RequestShape, LocksExclusive,
              OwnVersion, CanonicalWithoutRetypes, CommitsCanonical, Holding, Allocating,
              Exists, NextNumber, Dates
<1>2. ASSUME NEW c \in Clients, Begin(c)
      PROVE  IInv'
  <2>1. ASSUME NEW data \in Data, BeginCreate(c, data)
        PROVE  IInv'
    BY <2>1, InvBeginCreate
  <2>2. ASSUME NEW i \in Rows, NEW op \in {"patch", "put"}, NEW data \in Data,
               BeginChange(c, op, i, data)
        PROVE  IInv'
    BY <2>2, DataWritten, InvBeginChange
  <2>3. ASSUME NEW i \in Rows, NEW col \in Columns,
               BeginChange(c, "upload", i, [x \in {col} |-> "file"])
        PROVE  IInv'
    <3>1. [x \in {col} |-> "file"] \in [{col} -> Sent \cup {"instant", "file"}]
      OBVIOUS
    <3>2. [x \in {col} |-> "file"] \in Written
      BY <3>1 DEF Written
    <3>3. QED
      BY <2>3, <3>2, InvBeginChange
  <2>4. ASSUME NEW i \in Rows, BeginChange(c, "delete", i, NoRow)
        PROVE  IInv'
    BY <2>4, NoRowWritten, InvBeginChange
  <2>5. QED
    BY <1>2, <2>1, <2>2, <2>3, <2>4 DEF Begin
<1>3. ASSUME NEW c \in Clients,
             \/ Find(c) \/ LockForWrite(c) \/ DeleteRow(c)
             \/ ValidateUpload(c) \/ ValidateChange(c) \/ ValidateCreate(c)
             \/ WriteRow(c) \/ InsertRow(c) \/ Commit(c) \/ Rollback(c)
      PROVE  IInv'
  BY <1>3, InvFind, InvLockForWrite, InvDeleteRow, InvValidateUpload, InvValidateChange,
     InvValidateCreate, InvWriteRow, InvInsertRow, InvCommit, InvRollback
<1>4. ASSUME NEW col \in Columns, NEW kind \in Kinds, Retype(col, kind)
      PROVE  IInv'
  BY <1>4, InvRetype
<1>5. QED
  BY <1>1, <1>2, <1>3, <1>4 DEF Next

\* Types, used numbers, the exclusion of the row locks and the counter lock, and
\* what a transaction may have in its own version hold in every state.
THEOREM Invariant == Spec => []IInv
BY InvInit, InvNext, PTL DEF Spec

\* The counter of a table and the numbers its rows have had agree: no number is
\* skipped, whichever insertions are rolled back.
THEOREM NumbersHaveNoGaps == Spec => []NoGaps
<1>1. IInv => NoGaps
  BY DEF IInv
<1>2. QED
  BY <1>1, Invariant, PTL

\* A row appears by the commit of a creation, whose number is beyond the counter;
\* every other commit is of a row that is there.
LEMMA CommitStepUnique ==
  ASSUME NEW c \in Clients, NEW i \in Rows, IInv, Commit(c), ~Exists(i), Exists(i)'
  PROVE  i \notin used
<1>1. i = req[c].row
  <2>1. ASSUME i # req[c].row PROVE rows'[i] = rows[i]
    BY <2>1 DEF Commit, IInv, TypeOK
  <2>2. QED
    BY <2>1 DEF Exists
<1>2. ~Holding(c)
  BY <1>1 DEF IInv, RowsAreUsed
<1>3. Allocating(c)
  BY <1>2 DEF Commit, Holding, Allocating
<1>4. i = last + 1 /\ last \in Nat
  BY <1>1, <1>3, RowsAssumption DEF IInv, TypeOK, RequestShape, NextNumber
<1>5. QED
  BY <1>4 DEF IInv, NoGaps

\* Only a commit changes the rows.
LEMMA OnlyCommits == Next => rows' = rows \/ \E c \in Clients : Commit(c)
BY DEF Next, Begin, BeginCreate, BeginChange, Starts, Goes, Find, LockForWrite, DeleteRow,
       ValidateUpload, ValidateChange, ValidateCreate, WriteRow, InsertRow, Rollback, Retype

\* A number names one row, deleted ones included.
THEOREM NumbersStayUnique == Spec => NumbersNameOneRow
<1> DEFINE Once == \A i \in Rows : ~Exists(i) /\ Exists(i)' => i \notin used
<1>1. IInv /\ [Next]_vars => [Once]_vars
  <2> SUFFICES ASSUME IInv, Next, NEW i \in Rows, ~Exists(i), Exists(i)'
               PROVE  i \notin used
    BY DEF Once
  <2>1. CASE rows' = rows
    BY <2>1 DEF Exists
  <2>2. CASE \E c \in Clients : Commit(c)
    BY <2>2, CommitStepUnique
  <2>3. QED
    BY <2>1, <2>2, OnlyCommits
<1>2. QED
  BY <1>1, Invariant, PTL DEF Spec, NumbersNameOneRow

\* A commit of a change writes, in the cells that the request does not ask for,
\* what was committed, or its conversion.
LEMMA CommitStepAsked ==
  ASSUME NEW c \in Clients, NEW i \in Rows, NEW col \in Columns, IInv, Commit(c),
         Exists(i), Exists(i)', rows'[i][col] # rows[i][col]
  PROVE  Writer(c, i) /\ (Asked(req[c], col) \/ rows'[i][col] = Instant(rows[i][col]))
<1>1. i = req[c].row /\ rows'[i] = req[c].cells
  BY DEF Commit, IInv, TypeOK
<1>2. Writer(c, i)
  BY <1>1 DEF Writer, Commit
<1>3. Holding(c)
  <2>1. CASE Allocating(c)
    <3>1. i = last + 1 /\ last \in Nat
      BY <1>1, <2>1, RowsAssumption DEF IInv, TypeOK, RequestShape, NextNumber
    <3>2. i \in 1 .. last
      BY DEF IInv, RowsAreUsed, NoGaps
    <3>3. QED
      BY <3>1, <3>2
  <2>2. QED
    BY <2>1 DEF Commit, Holding, Allocating
<1>4. req[c].cells # NoRow
  BY <1>1 DEF Exists
<1>5. QED
  BY <1>1, <1>2, <1>3, <1>4 DEF IInv, OwnVersion

\* No commit changes a cell that its request does not ask for, other than by
\* converting it: nothing that others have written meanwhile is written over.
THEOREM CellsKept == Spec => CellsChangeAsAsked
<1> DEFINE Kept ==
      \A i \in Rows, col \in Columns :
         Exists(i) /\ Exists(i)' /\ rows'[i][col] # rows[i][col] =>
             \E c \in Clients :
                 /\ Writer(c, i)
                 /\ Asked(req[c], col) \/ rows'[i][col] = Instant(rows[i][col])
<1>1. IInv /\ [Next]_vars => [Kept]_vars
  <2> SUFFICES ASSUME IInv, Next, NEW i \in Rows, NEW col \in Columns,
                      Exists(i), Exists(i)', rows'[i][col] # rows[i][col]
               PROVE  \E c \in Clients :
                         /\ Writer(c, i)
                         /\ Asked(req[c], col) \/ rows'[i][col] = Instant(rows[i][col])
    BY DEF Kept
  <2>1. PICK c \in Clients : Commit(c)
    BY OnlyCommits
  <2>2. QED
    BY <2>1, CommitStepAsked
<1>2. QED
  BY <1>1, Invariant, PTL DEF Spec, CellsChangeAsAsked

\* Until a column changes its type, whatever is committed to a date column is
\* canonical.
THEOREM DatesStayCanonical == Spec => []CanonicalWithoutRetypes
<1>1. IInv => CanonicalWithoutRetypes
  BY DEF IInv
<1>2. QED
  BY <1>1, Invariant, PTL
=============================================================================
