------------------------------ MODULE BlobStore ------------------------------
(***************************************************************************)
(* Blob cells: publication, download, removal and garbage collection.      *)
(*                                                                         *)
(* A blob cell (row, column) holds a pointer (an object key) in PostgreSQL *)
(* and its bytes in S3.  Four parties touch them, each in its own          *)
(* READ COMMITTED transaction:                                             *)
(*   writers   put_blob_cell, delete_blob_cell, delete_row  (rows.py)      *)
(*   readers   get_blob_cell                                (rows.py)      *)
(*   cleaners  cleanup_once, one loop per backend worker (blob_objects.py) *)
(*   S3        applies requests, some of them after their client gave up   *)
(* One action is one SQL statement or one S3 request; what a transaction   *)
(* has written stays in its own record until its commit publishes it.      *)
(***************************************************************************)
EXTENDS Naturals, FiniteSets

CONSTANTS
    Rows,       \* row ids of one table
    Columns,    \* its blob column ids
    Keys,       \* object keys; every upload draws two that were never used
    Writers,    \* requests that change a blob cell or delete a row
    Readers,    \* download requests
    Cleaners,   \* cleanup loops, one per backend worker
    NoKey,      \* an empty cell
    NoCell,     \* the owner of an unregistered key
    BatchSize,  \* LIMIT of the cleaner's claim (16 in the code)
    MaxTries,   \* pointer re-reads of one download (4 in the code)
    MaxFaults,  \* bound: crashes, rollbacks and storage errors in a behaviour
    LateS3      \* may S3 apply a request after its client gave up on it?

Cells == Rows \X Columns
Pointers == Keys \cup {NoKey}

ASSUME BlobAssumption ==
    /\ NoKey \notin Keys
    /\ NoCell \notin Cells
    /\ BatchSize \in Nat \ {0}
    /\ MaxTries \in Nat \ {0}
    /\ MaxFaults \in Nat
    /\ LateS3 \in BOOLEAN

VARIABLES
    live,       \* committed: rows that exist
    cell,       \* committed: row_data pointers, NoKey when the cell is empty
    objects,    \* committed: private.blob_objects, key -> owning cell
    queue,      \* committed: private.blob_cleanup_queue
    s3,         \* keys with bytes in the bucket
    late,       \* requests S3 may still apply although nobody waits for them
    used,       \* keys generated so far (uuid4: never drawn twice)
    writer,     \* per writer: its open transaction
    cleaner,    \* per cleaner: its open transaction
    reader,     \* per reader: its open request
    faults      \* faults so far

dbVars == <<live, cell, objects, queue>>
s3Vars == <<s3, late>>
vars == <<live, cell, objects, queue, s3, late, used, writer, cleaner, reader, faults>>

-----------------------------------------------------------------------------
(* The transaction records. *)

NoWrite == [pc |-> "idle", op |-> "put", cell |-> NoCell, key |-> NoKey,
            pending |-> NoKey, held |-> {}, retired |-> {}]

WriterRecords ==
    [pc : {"idle", "locked", "staged", "uploaded", "copied"},
     op : {"put", "clear", "drop"},
     cell : Cells \cup {NoCell},
     key : Pointers,                \* metadata.key
     pending : Pointers,            \* pending_key
     held : SUBSET Keys,            \* exclusive advisory locks
     retired : SUBSET Keys]         \* queue rows its trigger inserted

NoClean == [pc |-> "idle", batch |-> {}, todo |-> {}, cur |-> NoKey,
            locks |-> {}, gone |-> {}, done |-> {}]

CleanerRecords ==
    [pc : {"idle", "scan", "check", "delete", "forget", "unqueue"},
     batch : SUBSET Keys,           \* queue rows it claimed FOR UPDATE
     todo : SUBSET Keys,            \* those it has not looked at yet
     cur : Pointers,                \* the key it is working on
     locks : SUBSET Keys,           \* exclusive advisory locks
     gone : SUBSET Keys,            \* blob_objects rows it deleted
     done : SUBSET Keys]            \* queue rows it deleted

NoRead == [pc |-> "idle", cell |-> NoCell, key |-> NoKey, tries |-> 0,
           locks |-> {}, reply |-> "none"]

ReaderRecords ==
    [pc : {"idle", "seen", "owned", "locked", "fetch"},
     cell : Cells \cup {NoCell},
     key : Pointers,
     tries : 0 .. MaxTries,
     locks : SUBSET Keys,           \* shared advisory locks
     reply : {"none", "200", "404", "409", "500"}]

TypeOK ==
    /\ live \in SUBSET Rows
    /\ cell \in [Cells -> Pointers]
    /\ objects \in [Keys -> Cells \cup {NoCell}]
    /\ queue \in SUBSET Keys
    /\ s3 \in SUBSET Keys
    /\ late \in SUBSET ({"put", "delete"} \X Keys)
    /\ used \in SUBSET Keys
    /\ writer \in [Writers -> WriterRecords]
    /\ cleaner \in [Cleaners -> CleanerRecords]
    /\ reader \in [Readers -> ReaderRecords]
    /\ faults \in 0 .. MaxFaults

-----------------------------------------------------------------------------
(* What a statement sees. *)

Referenced == {cell[x] : x \in Cells} \ {NoKey}

\* The cells of a row.
CellsOf(r) == {x \in Cells : x[1] = r}

\* The keys no session holds exclusively, and the keys no session holds.
ExclusivelyFree(k) ==
    /\ \A w \in Writers : k \notin writer[w].held
    /\ \A c \in Cleaners : k \notin cleaner[c].locks
LockFree(k) ==
    /\ ExclusivelyFree(k)
    /\ \A q \in Readers : k \notin reader[q].locks

\* A row is locked from lock_for_write to the end of the transaction.
RowLocked(r) == \E w \in Writers : writer[w].pc # "idle" /\ writer[w].cell[1] = r

\* Queue rows another session locked: SKIP LOCKED passes over them.
Claimed == UNION {cleaner[c].batch : c \in Cleaners}

\* Rows deleted by a cleaner that has not committed: inserting the same queue
\* row, or deleting the same blob_objects row, waits for that cleaner.
BeingUnqueued == UNION {cleaner[c].done : c \in Cleaners}
BeingForgotten == UNION {cleaner[c].gone : c \in Cleaners}

Fault == faults < MaxFaults /\ faults' = faults + 1

Init ==
    /\ live = Rows
    /\ cell = [x \in Cells |-> NoKey]
    /\ objects = [k \in Keys |-> NoCell]
    /\ queue = {}
    /\ s3 = {}
    /\ late = {}
    /\ used = {}
    /\ writer = [w \in Writers |-> NoWrite]
    /\ cleaner = [c \in Cleaners |-> NoClean]
    /\ reader = [q \in Readers |-> NoRead]
    /\ faults = 0

-----------------------------------------------------------------------------
(* Writers: put_blob_cell, delete_blob_cell, delete_row. *)

\* uuid4().hex: a key nobody drew before.  Keys are interchangeable, so which
\* one it is cannot matter.
Fresh(drawn) == CHOOSE k \in Keys : k \notin drawn

\* lock_for_write: the no-op UPDATE takes the row lock and applies the write
\* policy.  It waits while another writer has the row; a deleted row answers
\* 403 and nothing changes.  An upload has drawn its two keys by then.
BeginPut(w, x) ==
    /\ writer[w].pc = "idle"
    /\ x[1] \in live /\ ~RowLocked(x[1])
    /\ \E k, l \in Keys \ used : k # l
    /\ LET key == Fresh(used)
           pending == Fresh(used \cup {key})
       IN /\ used' = used \cup {key, pending}
          /\ writer' = [writer EXCEPT ![w] =
                 [NoWrite EXCEPT !.pc = "locked", !.cell = x, !.key = key, !.pending = pending]]
    /\ UNCHANGED <<dbVars, s3Vars, cleaner, reader, faults>>

BeginRemove(w, op, x) ==
    /\ writer[w].pc = "idle"
    /\ x[1] \in live /\ ~RowLocked(x[1])
    /\ writer' = [writer EXCEPT ![w] = [NoWrite EXCEPT !.pc = "locked", !.op = op, !.cell = x]]
    /\ UNCHANGED <<dbVars, s3Vars, used, cleaner, reader, faults>>

\* for key in (pending_key, metadata.key): the upload locks the key ...
NextKey(w) == IF writer[w].pending \in writer[w].held THEN writer[w].key ELSE writer[w].pending

AdvisoryLock(w) ==
    /\ writer[w].pc = "locked" /\ writer[w].op = "put"
    /\ writer[w].key \notin writer[w].held
    /\ \A k \in writer[w].held : objects[k] # NoCell
    /\ LockFree(NextKey(w))
    /\ writer' = [writer EXCEPT ![w].held = @ \cup {NextKey(w)}]
    /\ UNCHANGED <<dbVars, s3Vars, used, cleaner, reader, faults>>

\* Variant: the recovery record is left to the upload's own transaction.
RegisterOwnerOnly(w) ==
    /\ writer[w].pc = "locked" /\ writer[w].op = "put"
    /\ \E k \in writer[w].held :
        /\ objects[k] = NoCell
        /\ objects' = [objects EXCEPT ![k] = writer[w].cell]
    /\ UNCHANGED <<live, cell, queue, s3Vars, used, writer, cleaner, reader, faults>>

\* ... and then registers it, committing through a session of its own:
\* register_blob_object inserts the owner and the recovery record together.
RegisterUpload(w) ==
    /\ writer[w].pc = "locked" /\ writer[w].op = "put"
    /\ \E k \in writer[w].held :
        /\ objects[k] = NoCell
        /\ objects' = [objects EXCEPT ![k] = writer[w].cell]
        /\ queue' = queue \cup {k}
    /\ UNCHANGED <<live, cell, s3Vars, used, writer, cleaner, reader, faults>>

\* queue_retired_blob_objects: the keys the statement takes out of the row's
\* cells, when the cell owns them.
Retired(w) ==
    LET xs == IF writer[w].op = "drop" THEN CellsOf(writer[w].cell[1]) ELSE {writer[w].cell}
    IN {k \in Keys : \E x \in xs : cell[x] = k /\ objects[k] = x}

\* INSERT ... ON CONFLICT DO NOTHING: a queue row that is committed and merely
\* claimed is a conflict and inserts nothing; a queue row that a cleaner has
\* deleted but not committed makes the INSERT wait for that cleaner.
QueueRetired(w) ==
    /\ Retired(w) \cap BeingUnqueued = {}
    /\ writer' = [writer EXCEPT ![w].retired = Retired(w) \ queue,
                                ![w].pc = IF writer[w].op = "put" THEN "staged" ELSE "copied"]

\* update_blob stages the new pointer, inside the transaction.
StagePut(w) ==
    /\ writer[w].pc = "locked" /\ writer[w].op = "put"
    /\ writer[w].key \in writer[w].held
    /\ \A k \in writer[w].held : objects[k] # NoCell
    /\ QueueRetired(w)
    /\ UNCHANGED <<dbVars, s3Vars, used, cleaner, reader, faults>>

\* delete_blob_cell stages an empty descriptor; an empty cell answers 404.
StageClear(w) ==
    /\ writer[w].pc = "locked" /\ writer[w].op = "clear"
    /\ IF cell[writer[w].cell] = NoKey
       THEN writer' = [writer EXCEPT ![w] = NoWrite]
       ELSE QueueRetired(w)
    /\ UNCHANGED <<dbVars, s3Vars, used, cleaner, reader, faults>>

\* delete_row: the trigger, then the cascade to the row's blob_objects, which
\* waits for a cleaner that is deleting one of them.
StageDrop(w) ==
    /\ writer[w].pc = "locked" /\ writer[w].op = "drop"
    /\ \A k \in BeingForgotten : objects[k] \notin CellsOf(writer[w].cell[1])
    /\ QueueRetired(w)
    /\ UNCHANGED <<dbVars, s3Vars, used, cleaner, reader, faults>>

\* s3.put_object to the pending key, then s3.copy_object to the final one.
PutPending(w) ==
    /\ writer[w].pc = "staged"
    /\ s3' = s3 \cup {writer[w].pending}
    /\ writer' = [writer EXCEPT ![w].pc = "uploaded"]
    /\ UNCHANGED <<dbVars, late, used, cleaner, reader, faults>>

CopyToKey(w) ==
    /\ writer[w].pc = "uploaded"
    /\ writer[w].pending \in s3
    /\ s3' = s3 \cup {writer[w].key}
    /\ writer' = [writer EXCEPT ![w].pc = "copied"]
    /\ UNCHANGED <<dbVars, late, used, cleaner, reader, faults>>

\* session.commit(): pointer, queue rows and cascade become visible and every
\* lock is released.
Commit(w) ==
    LET x == writer[w].cell
        gone == IF writer[w].op = "drop" THEN CellsOf(x[1]) ELSE {}
    IN /\ writer[w].pc = "copied"
       /\ cell' = [y \in Cells |-> IF y \in gone THEN NoKey
                                   ELSE IF y = x THEN writer[w].key ELSE cell[y]]
       /\ live' = IF writer[w].op = "drop" THEN live \ {x[1]} ELSE live
       /\ objects' = [k \in Keys |-> IF objects[k] \in gone THEN NoCell ELSE objects[k]]
       /\ queue' = queue \cup writer[w].retired
       /\ writer' = [writer EXCEPT ![w] = NoWrite]
       /\ UNCHANGED <<s3Vars, used, cleaner, reader, faults>>

\* A storage or database error, a cancelled request or a dead worker: the
\* transaction rolls back and its locks go.  What S3 and the registration
\* session did stays, and S3 may still apply the request that was running.
Rollback(w) ==
    /\ writer[w].pc # "idle"
    /\ Fault
    /\ writer' = [writer EXCEPT ![w] = NoWrite]
    /\ late' = late \cup (IF ~LateS3 THEN {}
                          ELSE IF writer[w].pc = "staged" THEN {<<"put", writer[w].pending>>}
                          ELSE IF writer[w].pc = "uploaded" THEN {<<"put", writer[w].key>>}
                          ELSE {})
    /\ UNCHANGED <<dbVars, s3, used, cleaner, reader>>

-----------------------------------------------------------------------------
(* Readers: get_blob_cell. *)

Reply(q, code) ==
    reader' = [reader EXCEPT ![q] = [NoRead EXCEPT !.cell = reader[q].cell, !.reply = code]]

\* The row and its pointer, without any lock.  No row or no pointer: 404.
StartRead(q, x) ==
    /\ reader[q].pc = "idle"
    /\ reader' = [reader EXCEPT ![q] =
           IF cell[x] = NoKey
           THEN [NoRead EXCEPT !.cell = x, !.reply = "404"]
           ELSE [NoRead EXCEPT !.pc = "seen", !.cell = x, !.key = cell[x], !.tries = 1]]
    /\ UNCHANGED <<dbVars, s3Vars, used, writer, cleaner, faults>>

\* Variant: a key that is queued counts as collected.
CheckOwnerNotQueued(q) ==
    /\ reader[q].pc = "seen"
    /\ IF objects[reader[q].key] = reader[q].cell /\ reader[q].key \notin queue
       THEN reader' = [reader EXCEPT ![q].pc = "owned"]
       ELSE Reply(q, "404")
    /\ UNCHANGED <<dbVars, s3Vars, used, writer, cleaner, faults>>

\* blob_object_belongs_to_cell
CheckOwner(q) ==
    /\ reader[q].pc = "seen"
    /\ IF objects[reader[q].key] = reader[q].cell
       THEN reader' = [reader EXCEPT ![q].pc = "owned"]
       ELSE Reply(q, "404")
    /\ UNCHANGED <<dbVars, s3Vars, used, writer, cleaner, faults>>

\* pg_advisory_xact_lock_shared waits for a publisher or cleaner of the key.
LockShared(q) ==
    /\ reader[q].pc = "owned"
    /\ ExclusivelyFree(reader[q].key)
    /\ reader' = [reader EXCEPT ![q].pc = "locked", ![q].locks = @ \cup {reader[q].key}]
    /\ UNCHANGED <<dbVars, s3Vars, used, writer, cleaner, faults>>

\* Re-read the row under the lock: serve the key if it is still current, else
\* try again with the new one, keeping the locks taken so far.
Recheck(q) ==
    LET now == cell[reader[q].cell] IN
    /\ reader[q].pc = "locked"
    /\ \/ now = reader[q].key /\ reader' = [reader EXCEPT ![q].pc = "fetch"]
       \/ now # reader[q].key /\ reader[q].cell[1] \notin live /\ Reply(q, "404")
       \/ /\ now # reader[q].key /\ reader[q].cell[1] \in live
          /\ \/ reader[q].tries = MaxTries /\ Reply(q, "409")
             \/ reader[q].tries < MaxTries /\ now = NoKey /\ Reply(q, "404")
             \/ /\ reader[q].tries < MaxTries /\ now # NoKey
                /\ reader' = [reader EXCEPT ![q].pc = "seen", ![q].key = now, ![q].tries = @ + 1]
    /\ UNCHANGED <<dbVars, s3Vars, used, writer, cleaner, faults>>

Fetch(q) ==
    /\ reader[q].pc = "fetch"
    /\ Reply(q, IF reader[q].key \in s3 THEN "200" ELSE "404")
    /\ UNCHANGED <<dbVars, s3Vars, used, writer, cleaner, faults>>

\* A storage or database error, or a client that went away.
AbortRead(q) ==
    /\ reader[q].pc # "idle"
    /\ Fault
    /\ Reply(q, "500")
    /\ UNCHANGED <<dbVars, s3Vars, used, writer, cleaner>>

-----------------------------------------------------------------------------
(* Cleaners: cleanup_once, polled for ever by cleanup_loop. *)

\* SELECT ... LIMIT FOR UPDATE SKIP LOCKED.  Which keys come first depends on
\* queued_at, the start of the inserting transaction; any choice is allowed.
Claim(c) ==
    /\ cleaner[c].pc = "idle"
    /\ \E batch \in SUBSET (queue \ Claimed) :
        /\ IF Cardinality(queue \ Claimed) <= BatchSize
           THEN batch = queue \ Claimed
           ELSE Cardinality(batch) = BatchSize
        /\ cleaner' = [cleaner EXCEPT ![c] =
               [NoClean EXCEPT !.pc = "scan", !.batch = batch, !.todo = batch]]
    /\ UNCHANGED <<dbVars, s3Vars, used, writer, reader, faults>>

\* Variant: the answer of pg_try_advisory_xact_lock is ignored.
TryLockIgnored(c) ==
    /\ cleaner[c].pc = "scan"
    /\ \E k \in cleaner[c].todo :
        cleaner' = [cleaner EXCEPT ![c].pc = "check", ![c].cur = k,
                        ![c].todo = @ \ {k}, ![c].locks = @ \cup {k}]
    /\ UNCHANGED <<dbVars, s3Vars, used, writer, reader, faults>>

\* pg_try_advisory_xact_lock: a busy key is left for a later poll.
TryLock(c) ==
    /\ cleaner[c].pc = "scan"
    /\ \E k \in cleaner[c].todo :
        \/ /\ LockFree(k)
           /\ cleaner' = [cleaner EXCEPT ![c].pc = "check", ![c].cur = k,
                              ![c].todo = @ \ {k}, ![c].locks = @ \cup {k}]
        \/ /\ ~LockFree(k)
           /\ cleaner' = [cleaner EXCEPT ![c].todo = @ \ {k}]
    /\ UNCHANGED <<dbVars, s3Vars, used, writer, reader, faults>>

\* Variant: every queued key is taken for garbage.
CheckNothing(c) ==
    /\ cleaner[c].pc = "check"
    /\ cleaner' = [cleaner EXCEPT ![c].pc = "delete"]
    /\ UNCHANGED <<dbVars, s3Vars, used, writer, reader, faults>>

\* Does any committed cell point at the key?
CheckReferenced(c) ==
    /\ cleaner[c].pc = "check"
    /\ cleaner' = [cleaner EXCEPT ![c].pc =
           IF cleaner[c].cur \in Referenced THEN "unqueue" ELSE "delete"]
    /\ UNCHANGED <<dbVars, s3Vars, used, writer, reader, faults>>

DeleteObject(c) ==
    /\ cleaner[c].pc = "delete"
    /\ s3' = s3 \ {cleaner[c].cur}
    /\ cleaner' = [cleaner EXCEPT ![c].pc = "forget"]
    /\ UNCHANGED <<dbVars, late, used, writer, reader, faults>>

\* Variant: a failed S3 request loses the queue row.
DeleteFailsAndForgets(c) ==
    /\ cleaner[c].pc = "delete"
    /\ Fault
    /\ late' = late \cup (IF LateS3 THEN {<<"delete", cleaner[c].cur>>} ELSE {})
    /\ cleaner' = [cleaner EXCEPT ![c].pc = "unqueue"]
    /\ UNCHANGED <<dbVars, s3, used, writer, reader>>

\* The S3 request fails: the key keeps its queue row and the batch goes on.
DeleteFails(c) ==
    /\ cleaner[c].pc = "delete"
    /\ Fault
    /\ late' = late \cup (IF LateS3 THEN {<<"delete", cleaner[c].cur>>} ELSE {})
    /\ cleaner' = [cleaner EXCEPT ![c].pc = "scan", ![c].cur = NoKey]
    /\ UNCHANGED <<dbVars, s3, used, writer, reader>>

\* DELETE FROM blob_objects waits for a delete_row that is cascading to it.
Forget(c) ==
    /\ cleaner[c].pc = "forget"
    /\ \A w \in Writers : writer[w].op = "drop" /\ writer[w].pc = "copied"
                          => objects[cleaner[c].cur] \notin CellsOf(writer[w].cell[1])
    /\ cleaner' = [cleaner EXCEPT ![c].pc = "unqueue", ![c].gone = @ \cup {cleaner[c].cur}]
    /\ UNCHANGED <<dbVars, s3Vars, used, writer, reader, faults>>

Unqueue(c) ==
    /\ cleaner[c].pc = "unqueue"
    /\ cleaner' = [cleaner EXCEPT ![c].pc = "scan", ![c].cur = NoKey,
                                  ![c].done = @ \cup {cleaner[c].cur}]
    /\ UNCHANGED <<dbVars, s3Vars, used, writer, reader, faults>>

CommitBatch(c) ==
    /\ cleaner[c].pc = "scan" /\ cleaner[c].todo = {}
    /\ queue' = queue \ cleaner[c].done
    /\ objects' = [k \in Keys |-> IF k \in cleaner[c].gone THEN NoCell ELSE objects[k]]
    /\ cleaner' = [cleaner EXCEPT ![c] = NoClean]
    /\ UNCHANGED <<live, cell, s3Vars, used, writer, reader, faults>>

\* The worker dies or a statement fails: the batch rolls back, S3 does not.
CrashBatch(c) ==
    /\ cleaner[c].pc # "idle"
    /\ Fault
    /\ cleaner' = [cleaner EXCEPT ![c] = NoClean]
    /\ late' = late \cup (IF LateS3 /\ cleaner[c].pc = "delete"
                          THEN {<<"delete", cleaner[c].cur>>} ELSE {})
    /\ UNCHANGED <<dbVars, s3, used, writer, reader>>

\* S3 applies a request whose client is gone.
LateRequest ==
    \E r \in late :
        /\ late' = late \ {r}
        /\ s3' = IF r[1] = "put" THEN s3 \cup {r[2]} ELSE s3 \ {r[2]}
        /\ UNCHANGED <<dbVars, used, writer, cleaner, reader, faults>>

-----------------------------------------------------------------------------
WriterStep(w) ==
    \/ AdvisoryLock(w) \/ RegisterUpload(w)
    \/ StagePut(w) \/ StageClear(w) \/ StageDrop(w)
    \/ PutPending(w) \/ CopyToKey(w) \/ Commit(w)

ReaderStep(q) == CheckOwner(q) \/ LockShared(q) \/ Recheck(q) \/ Fetch(q)

CleanerStep(c) ==
    \/ Claim(c) \/ TryLock(c) \/ CheckReferenced(c) \/ DeleteObject(c)
    \/ Forget(c) \/ Unqueue(c) \/ CommitBatch(c)

Next ==
    \/ \E w \in Writers :
        \/ \E x \in Cells : BeginPut(w, x)
        \/ \E x \in Cells, op \in {"clear", "drop"} : BeginRemove(w, op, x)
        \/ WriterStep(w)
        \/ Rollback(w)
    \/ \E q \in Readers :
        \/ \E x \in Cells : StartRead(q, x)
        \/ ReaderStep(q)
        \/ AbortRead(q)
    \/ \E c \in Cleaners : CleanerStep(c) \/ DeleteFails(c) \/ CrashBatch(c)
    \/ LateRequest

Spec == Init /\ [][Next]_vars

\* A request in progress is driven to its end by its worker, and cleanup_loop
\* polls for ever; nobody is obliged to send a request.
Fairness ==
    /\ \A w \in Writers : WF_vars(WriterStep(w))
    /\ \A q \in Readers : WF_vars(ReaderStep(q))
    /\ \A c \in Cleaners : WF_vars(CleanerStep(c))

FairSpec == Spec /\ Fairness

-----------------------------------------------------------------------------
(* Properties. *)

\* A committed pointer always has its bytes in S3 and its owner registered,
\* whatever uploads, rollbacks, crashes and cleaners do meanwhile: the pointer
\* commits after the copy (rows.py) and cleanup deletes only what it has locked
\* and found unreferenced (blob_objects.py).
PointerHasObject ==
    \A x \in Cells : cell[x] # NoKey => cell[x] \in s3 /\ objects[cell[x]] = x

\* A download that validated its pointer under the shared lock finds the bytes,
\* even if the cell is replaced or cleared before it asks S3.
DownloadFindsBytes ==
    \A q \in Readers : reader[q].pc = "fetch" => reader[q].key \in s3

\* An upload that is past its copy still has its bytes when it commits: no
\* cleaner collects the keys of an upload in flight.
UploadKeepsBytes ==
    \A w \in Writers : writer[w].pc = "copied" /\ writer[w].op = "put" => writer[w].key \in s3

\* No pointer, download or upload ever loses its bytes.
BytesKept == PointerHasObject /\ DownloadFindsBytes /\ UploadKeepsBytes

\* The store is an atomic register of immutable objects (module BlobCell): the
\* committed pointers are its cells, the bucket its store, and a reader is
\* promised its key from the successful re-read until it answers.
Serving(q) == IF reader[q].pc = "fetch" THEN reader[q].key ELSE NoKey

Register == INSTANCE BlobCell WITH
    store <- s3, serving <- [q \in Readers |-> Serving(q)]

IsAtomicRegister == Register!Spec

\* A retired or abandoned object: nothing points at it, nobody is uploading it.
Garbage(k) ==
    /\ k \in used
    /\ k \notin Referenced
    /\ \A w \in Writers : k \notin {writer[w].key, writer[w].pending}

\* A download that ends with 404 has not found its own pointer wanting: the cell
\* is empty or holds another version by then.
NotFoundOnlyIfChanged ==
    [][\A q \in Readers :
          reader[q].pc # "idle" /\ reader'[q].pc = "idle" /\ reader'[q].reply = "404" =>
              cell[reader[q].cell] # reader[q].key]_vars

\* Garbage that will not be collected: its bytes are stored, and no queue row names it.
Leaked(k) == k \in s3 /\ Garbage(k) /\ k \notin queue

\* The three ways an object may leak: the trigger found the key queued and the queue row
\* is gone when its transaction commits; a cleaner takes the key off the queue and has
\* not deleted its object (because it found it referenced at its look; whether the
\* reference is still there is not asked), or has, and S3 may apply late requests; S3
\* applies an upload whose client has given up after the key's collection.
LosesTrack(k) ==
    \/ \E w \in Writers : /\ writer[w].pc = "copied" /\ writer'[w].pc = "idle"
                          /\ k \in Referenced /\ k \notin writer[w].retired
    \/ \E c \in Cleaners : /\ k \in queue \ queue'
                           /\ k \in cleaner[c].done \ cleaner'[c].done
                           /\ k \in cleaner[c].gone => LateS3
    \/ LateS3 /\ <<"put", k>> \in late \ late'

\* Objects leak in no other way.  Uploads that fail or die at any point leave
\* queue rows for their keys.
LeaksOnlyByRace == [][\A k \in Keys : Leaked(k)' /\ ~Leaked(k) => LosesTrack(k)]_vars

\* What the durable queue holds of garbage is collected: bytes, registration
\* and queue row all go, once no cleaner is in the middle of it.
QueuedGarbageCollected ==
    \A k \in Keys :
        (k \in queue /\ Garbage(k) /\ k \notin Claimed)
            ~> (k \notin queue /\ k \notin s3 /\ objects[k] = NoCell)
-----------------------------------------------------------------------------
(* The inductive invariant behind the safety properties. *)

Publishing(w) == writer[w].pc # "idle" /\ writer[w].op = "put"
Drawn(w) == {writer[w].key, writer[w].pending}

\* A key that was never drawn appears nowhere.
FreshKeysUnknown ==
    \A k \in Keys \ used :
        /\ k \notin queue
        /\ objects[k] = NoCell
        /\ k \notin Referenced
        /\ <<"delete", k>> \notin late
        /\ \A c \in Cleaners : k \notin cleaner[c].batch
        /\ \A w \in Writers : k \notin writer[w].retired

\* What the program counter of a writer says about the rest of its record.
WriterShape ==
    \A w \in Writers :
        /\ writer[w].pc = "idle" => writer[w] = NoWrite
        /\ writer[w].pc # "idle" => writer[w].cell \in Cells /\ writer[w].cell[1] \in live
        /\ writer[w].op # "put" => /\ writer[w].key = NoKey
                                   /\ writer[w].held = {}
                                   /\ writer[w].pc \in {"locked", "copied"}
        /\ Publishing(w) => /\ Drawn(w) \subseteq used
                            /\ writer[w].key # writer[w].pending
                            /\ writer[w].held \subseteq Drawn(w)

\* From the staging on, the upload's final key is locked and registered to its
\* cell (never to another one), and after the copy it has its bytes.
UploadProtected ==
    \A w \in Writers : Publishing(w) =>
        /\ objects[writer[w].key] \in {NoCell, writer[w].cell}
        /\ writer[w].pc # "locked" =>
               writer[w].key \in writer[w].held /\ objects[writer[w].key] = writer[w].cell
        /\ writer[w].pc = "copied" => writer[w].key \in s3

\* At most one open write transaction per row.
RowLocksExclusive ==
    \A v, w \in Writers :
        v # w /\ writer[v].pc # "idle" /\ writer[w].pc # "idle"
            => writer[v].cell[1] # writer[w].cell[1]

\* The keys of an upload in flight are its own: no cell, no other upload, no
\* trigger and no abandoned delete knows them, and before it has locked its
\* final key no cleaner can have heard of it.
UploadPrivate ==
    \A w \in Writers : Publishing(w) =>
        /\ writer[w].key \notin Referenced
        /\ <<"delete", writer[w].key>> \notin late
        /\ \A v \in Writers : writer[w].key \notin writer[v].retired
        /\ \A v \in Writers \ {w} : Publishing(v) => Drawn(v) \cap Drawn(w) = {}
        /\ writer[w].key \notin writer[w].held =>
               /\ writer[w].key \notin queue
               /\ objects[writer[w].key] = NoCell
               /\ \A c \in Cleaners : writer[w].key \notin cleaner[c].batch

\* Advisory locks: a writer or a cleaner excludes everybody else.
AdvisoryLocksExclusive ==
    \A c \in Cleaners :
        /\ \A w \in Writers : writer[w].held \cap cleaner[c].locks = {}
        /\ \A q \in Readers : reader[q].locks \cap cleaner[c].locks = {}

\* A cleaner destroys only what it has locked and found unreferenced.
CleanerShape ==
    \A c \in Cleaners :
        /\ cleaner[c].todo \cup cleaner[c].locks \subseteq cleaner[c].batch
        /\ cleaner[c].gone \subseteq cleaner[c].locks \ Referenced
        /\ cleaner[c].pc \in {"check", "delete", "forget", "unqueue"}
               => cleaner[c].cur \in cleaner[c].locks
        /\ cleaner[c].pc \in {"delete", "forget"} => cleaner[c].cur \notin Referenced

\* A delete that S3 may still apply can no longer hurt anybody.
LateDeletesHarmless ==
    \A k \in Keys : <<"delete", k>> \in late => k \notin Referenced

ReaderShape ==
    \A q \in Readers :
        /\ reader[q].pc # "idle" => reader[q].cell \in Cells /\ reader[q].key \in Keys
        /\ reader[q].pc \in {"locked", "fetch"} => reader[q].key \in reader[q].locks
        /\ reader[q].pc = "fetch" => /\ reader[q].key \in s3
                                     /\ <<"delete", reader[q].key>> \notin late

IInv ==
    /\ TypeOK
    /\ FreshKeysUnknown /\ WriterShape /\ UploadProtected /\ RowLocksExclusive
    /\ UploadPrivate /\ AdvisoryLocksExclusive /\ CleanerShape
    /\ LateDeletesHarmless /\ ReaderShape /\ PointerHasObject

-----------------------------------------------------------------------------
(* What is known of bytes and queue rows besides; with it, IInv is inductive again. *)

\* A key that was never drawn has no bytes, nor will it get any.
FreshKeysEmpty == \A k \in Keys \ used : k \notin s3 /\ <<"put", k>> \notin late

\* The keys of an upload are registered to its cell and queued together, after
\* they were locked, the pending one first; no bytes are sent before.
UploadsQueued ==
    \A w \in Writers :
        /\ writer[w].op # "put" => writer[w].pending = NoKey
        /\ Publishing(w) =>
            /\ writer[w].key \in writer[w].held => writer[w].pending \in writer[w].held
            /\ \A k \in Drawn(w) :
                /\ <<"put", k>> \notin late
                /\ objects[k] # NoCell => /\ objects[k] = writer[w].cell
                                          /\ k \in writer[w].held /\ k \in queue
                /\ IF writer[w].pc = "locked" THEN k \notin s3 ELSE objects[k] # NoCell

\* A cleaner takes off the queue what it has locked, and the keys it has
\* forgotten stay without bytes unless S3 answers late.
CleanersCollect ==
    \A c \in Cleaners :
        /\ cleaner[c].done \subseteq cleaner[c].locks
        /\ ~LateS3 => /\ cleaner[c].gone \cap s3 = {}
                      /\ cleaner[c].pc = "forget" => cleaner[c].cur \notin s3

OnlyLateS3 == ~LateS3 => late = {}

LeakInv == FreshKeysEmpty /\ UploadsQueued /\ CleanersCollect /\ OnlyLateS3
=============================================================================
