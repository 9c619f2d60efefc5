# LatticeCast: specifications, model checking and proofs

LatticeCast is a multi-user table application. A FastAPI backend runs as several
asynchronous workers, each with a pool of 5 + 10 connections per engine. Its
logic is divided between Python routes and repositories and PL/pgSQL functions
and triggers in PostgreSQL 18, which also enforces row-level security. File
bodies are in S3-compatible storage. A SvelteKit frontend keeps a copy of each
table's schema and replaces it by the server's replies. A runner applies versioned
SQL migrations, and a script moves archived tables into a new storage layout
while users work.

Almost every promise the system makes is made by *several short statements in a
READ COMMITTED transaction*, with row locks, advisory locks, primary keys and
triggers in place of a serial order, and often with something outside the
transaction (S3, a cache entry, a browser's copy, a file of the working tree).
These modules model those statements one by one and ask what happens when they
interleave, fail and stop half-way.

Paths below are relative to `src/`. `backend/` stands for `backend/src/`, and `V71` for
the file of that version in `migration/`; later versions replace functions of
earlier ones, and the modules follow the last definition of each.

## 1. Inventory

| Part | State | Operations | What is hard | What makes it correct |
|---|---|---|---|---|
| Blob cells and their garbage collection (`backend/router/api/rows.py`, `backend/services/blob_objects.py`, V64, V68, V71) | pointer in `rows.row_data`, `private.blob_objects`, `private.blob_cleanup_queue`, bucket, advisory locks | upload, clear, delete row, download, retirement trigger, cleaner per worker | two stores without a common transaction, late S3 requests, crashes between storage and commit, several cleaners | a committed pointer always has its bytes; a download that was granted finds them; what is queued is collected; little escapes the queue |
| Rows (`backend/repository/row.py`, V49, V51, V54, V69, V71) | `rows`, `private.table_row_counters` | create, patch, put, delete, blob cell update | statements that read columns and row separately, overlapping writers, rollback of an allocation | a number names one row for ever, without gaps; no write loses a cell it does not name; date cells are canonical |
| Columns (V69, V39, `backend/router/api/tables/columns.py`) | `tables.config.columns` | add, update, delete, reorder | read-modify-write over two statements, stale clients | names and ids stay distinct; a column is lost only to a writer that has not seen it |
| Views (V71, V69, `backend/router/api/tables/views.py`, `crud.py`) | `table_views`, `config.view_order`, `config.default_view` | create, update, delete, reorder, set the default | one fact in three places, multi-step PATCH, stale clients | the order lists the views; the default exists; patches merge |
| Frontend write queue and stores (`table-page.svelte.ts`, `table_schemas.store.ts`, `views.ts`) | a page's copy of the schema, its queue of configuration writes | enqueue, send, apply the reply, reload | whole-config writes computed from a copy, replies that overtake, requests outside the queue | a queue of whole-config writes adds up to the changes its user made |
| Workspace roster (`backend/router/api/workspaces.py`, V33, V52) | `workspace_members`, one row per granted action | add, change level, remove, delete workspace | check then act, row-level security judged per statement, deadlocks | an owner remains; levels are closed downwards; requests end |
| LatticeQL schema cache (`backend/config/lattice_ql.py`, `pg_cache.py`, V31) | unlogged `private.cache` | look up, build, store, invalidate, expire | fill racing with invalidation, second connection from a full pool, swallowed failures | what is served was true; an answered edit is served; staleness ends |
| Login, refresh tokens, single sign-on (`backend/router/api/auth.py`, `sso.py`, `services/lc_auth.py`, V56, V58, V59) | `sso_sessions`, `sso_refresh_tokens`, `sso_authorization_codes` | issue, rotate, replay, revoke a family, log out, authorize, hand off, exchange | two uses at once, lost replies, revocation against rotation, expiry | a secret is used once; a family has one live token and, once closed, none; no code for a session that was logged out |
| Users and settings (`backend/router/api/admin/users.py`, `auth.py`, `repository/user.py`) | `auth.users`, `gdpr.user_info` | create, change, delete, patch config, change address and password | check then act without locks; index and lookup compare differently | an address finds one account; patches merge; passwords change knowingly |
| Identity on pooled connections (`backend/core/db.py`, `middleware/auth.py`, `repository/_base.py`) | a setting of the connection, the session's stash | authenticate, set, commit, re-apply, release | commit in mid-request, recycled connections, a second session under a full pool | each statement runs as its caller; a free connection is nobody's; sessions end |
| Migration runner (`migration/migrate.py`) | `private.schema_migrations`, `checksums.txt`, the files | verify, try, apply, fill in checksums, split SQL | stop between migrations, two runners, files edited meanwhile | each migration once, whole, in order, on the history its runner has read |
| Storage move (`migration/scripts/move_table_storage.py`) | archive tables, counters, blob owners | copy, compare, commit, run again | users work meanwhile and between two runs | what is committed is the archive; users' rows and numbers survive |
| Table creation, templates, workspaces' creation and renaming, dashboards, announcements, storage proxy, row indexes, SQL linter, recovery script, rendering, e2e, deployment | - | - | little or none; see section 7 | - |

How they interact. A request is authenticated (`Credentials`, `Accounts`), its session gets
the caller's identity (`RlsSessions`), and every statement is filtered by the roster
(`WorkspaceMembers`). The routes of rows, columns and views call PL/pgSQL functions that
read `tables.config` and write `rows`, `table_views` or `tables.config` (`TableRows`,
`TableColumns`, `TableViews`); triggers number rows and views, normalise date cells
against the columns of that moment, check column names and queue retired blob
objects. Routes that change tables or columns invalidate the schema cache after
their commit (`SchemaCache`). Uploads and the cleaner share S3 and advisory locks
(`BlobStore`), and an upload opens a second session while it holds its first
(`RlsSessions`). A page replaces its copy of the schema by each reply and computes its next
writes from that copy (`TableViews`, `TableColumns`). Migrations and the storage move
prepare the tables all of this runs on (`MigrationRunner`, `TableMove`).

`PROJECT.json` lists the hazards, each at the line where it bites and with the
properties that would catch it.

## 2. Modules

One component, one module; one action per statement. The common conventions are:

* A request is a record with a program counter. What its transaction has written
  stays in that record until the commit publishes it: this is READ COMMITTED.
* A lock is not a variable of its own, with one exception (`Credentials!holder`). It
  follows from the records: a row is held by whoever has written it and has not
  committed (`RowLocked`, `Held`, `Holders`, `Blocks`). A statement that would wait is an
  action with a guard.
* Where PostgreSQL re-reads the latest version of a row after a wait (a single-row
  `UPDATE`), the statement and its commit are one action on the latest state.
* A rolled-back request, a lost connection and a cancelled client are the same
  action: back to idle, nothing published.
* Variables marked "history" are read by properties only.
* Some definitions are marked "Variant". They are not part of any behaviour: each
  is a plausible bug, and `PROJECT.json` pairs it with the property that it breaks.

| Module | Models | Correspondence |
|---|---|---|
| `BlobStore` | blob cells | `writer`, `reader`, `cleaner` are the three kinds of transaction. A writer locks the row (`BeginPut`), locks and registers its keys, stages the pointer, puts, copies and commits. A reader looks at the row, checks the owner, takes the shared lock, looks again and fetches. A cleaner claims a batch, tries the lock, checks references, deletes, forgets, unqueues and commits. `late` holds S3 requests whose client is gone. |
| `BlobCell` | what blob storage promises | a register over immutable objects; `BlobStore` implements it (`IsAtomicRegister`) |
| `TableRows` | row numbers and `row_data` | `Find`, `LockForWrite`, the three `Validate` actions, `WriteRow`/`InsertRow`, `Commit`; the counter's next number is in the inserting request until its commit; `Retype` is `update_column` seen from the rows |
| `TableColumns` | the column array | each function is a read (`ReadFor...`) that computes the new array and a write; `shown` is the client's copy; a request's `read` (history) says which columns it has seen |
| `TableViews` | views, order, default, composed with the pages that edit them | one action per statement of the five functions and of the reply. A page has two lines of requests: `queue` (`Enqueue`, `Dequeue`), whose writes are computed from `shown` at the moment they are sent, and everything else (`Begin`). `ApplySchema` replaces `shown` in the order in which replies arrive. `view_order` is a sequence, `Kept` the part of it that a deletion or a page keeps. |
| `WorkspaceMembers` | the roster | `Seen`, `Roster` are what a statement sees under row-level security; `Blocks` is who waits for whom; `StartDrop` is where a DELETE of the workspace judges its caller, `Drop` where it is through its waits; `DeadlockVictim` is PostgreSQL's detector |
| `SchemaCache` | the schema cache | `history` records every committed state, so that "was true at some time since" can be said; `Pool` bounds connections |
| `Credentials` | sessions, codes, tickets, refresh tokens | a secret is a row with a mark (`spent`) and the secret it was issued for (`parent`). `Claim` is the conditional UPDATE that takes the row lock; `Rotate`, `Token`, `BrowserToken`, `Launch`, `Authorize`, `IssueRefreshToken` are what it pays for; `ScanFamily`, `LockRow`, `RevokeFamily` are the UPDATE of a whole family with its snapshot; `Fault` rolls back. |
| `Accounts` | users, administration, self-service settings | one read and one write per handler; `request` keeps what was read |
| `RlsSessions` | the identity of a session on pooled connections | `setting` has the session-level and the transaction-local value of a backend, `open` says whose transaction runs on it, `session` has the stash that is re-applied; `OpenRegistration` is the second session of an upload |
| `MigrationRunner` | `migrate.py` | `ChecksumVerify`, `Test`, `Connect`, then per file `Skip`, `Mismatch`, `LookBlank`/`Fill` or `Execute`/`Record`; `Edit`, `Hash` are the developer |
| `SplitSql` | `split_sql` | `Advance` is one turn of the scanner's loop, `Cuts` collects what it meets, `Pieces` and `Emits` are what is kept; `TopLevel` is the reference: the tokens of PostgreSQL's lexer, by rules of its own for names (`NameEnd`), tags (`Delimiter`) and what ends a token (`After`). `Foreign` names the constructs on which the two differ. |
| `TableMove` | `move_table_storage.py --apply` | one action per statement on one archived table, against users (`Changes`) and the blob cleaner; `mover` is the script's transaction with its locks, which keep users waiting but not the cleaner (`Condemn`, `Keep`, `Collect`, `Abandon`: it reads what is committed); `queue` is the cleanup queue, `doomed` what is being deleted; `old` is the archive |
| `MC...` | model checking | constants and symmetry; `MCMigrations` also lists the short texts on which TLC evaluates `SplitSql` |
| `...Proofs` | theorems | Five prove about the module they are named after; `RlsSessionsProofs` also holds the theorems about `Accounts`, `MigrationRunnerProofs` those about `TableMove` and `SplitSql`, `TableColumnsProofs` those about `TableViews`. See section 5. |

## 3. Runs

| Run | Question | Bounds, and why they suffice |
|---|---|---|
| `blob_safe` | Do pointers, downloads and uploads keep their bytes (`BytesKept`); is the store an atomic register (`IsAtomicRegister`); is a 404 honest (`NotFoundOnlyIfChanged`); in which ways only can an object escape collection (`LeaksOnlyByRace`)? | One cell, two writers, a reader, a cleaner, four keys (two complete uploads), one fault, late S3 requests. Every conflict is between two parties over one key, and parties meet only on one cell. The theorems lift every bound. |
| `blob_live` | Is queued garbage collected (`QueuedGarbageCollected`)? | One upload, two writers, two faults; a queue entry is handled on its own. |
| `rows` | Are numbers unique and gapless (`NumbersNameOneRow`, `NoGaps`), do cells change only as asked (`CellsChangeAsAsked`), what makes a cell not canonical (`CanonicalWithoutRetypes`)? | Two clients, two columns, two rows, two requests on a table that has a row with any cells, one type change. Two columns tell "another cell" from "this cell"; two requests suffice for delete-and-create, insert-and-roll-back and every pair of overlapping writers. |
| `columns_concurrent` | Do names and ids stay distinct (`NamesDistinct`, `IdsDistinct`); which columns are lost (`OnlyUnseenColumnsLost`)? | Two editors, four requests, four ids, three names, one fault: a stale array can be overtaken by an addition, a rename and a deletion. |
| `views` | Do patches merge (`OnlyPatchedFieldsChange`), does the write queue add up (`QueuedWritesMerge`), do pages that take turns keep everything consistent (`TakingTurns`)? | Two pages with two lines each, three views, two fields with two values, three requests, one fault. A revert needs three writes: one that sets, one that overwrites, one that sends the older value; three views allow a deletion whose id is given out again. |
| `members` | Are levels closed (`OneAtATime`) and an owner left (`OwnerRemainsUncontested`), whatever fails; does every request end (`RequestsEnd`)? | Two users, two requests at a time, four in all, one fault. Deadlocks need two requests and three rows. |
| `schema_cache` | What can be served (`ServedWasTrue`), does staleness end (`StaleEntriesExpire`), do queries end under a full pool (`QueriesEnd`)? | One table (its name and its columns are judged separately, and the tables of a schema independently), two queries, an editor, two edits, a pool of two, one fault. |
| `credentials` | Is a secret used once (`SingleUse`), has a family one live token (`LiveTokens`), is there no code after a logout (`CodesOfLiveSessions`)? | One user, a public and a confidential client, two requests at a time (any number in all), four secrets, one expiry. Four secrets are a session, a code and a rotation, or a login and three rotations; a race is between two requests. |
| `accounts` | What does check-then-act keep (`AddressesUnambiguous`, `PatchesKeepOtherKeys`, `PasswordsChangeKnowingly`)? | Two requests at a time, six in all, two accounts, two spellings of one address and another, two keys, two passwords: creation, deletion and re-creation of an account under an open request fit in. |
| `rls` | Does each statement run as its caller (`RunsAsCaller`), does each session end (`SessionsEnd`)? | A user and the public endpoint, four sessions, two connections: two uploads exhaust the pool and two more sessions wait. |
| `migrations` | Is each migration applied once, in order, on the history that was read (`AppliedOnce`, `AppliedInOrder`, `OnReadHistory`, `RecordMatchesEffects`); does `split_sql` cut at statements (`SplitsStatements`)? | V1, V2, V10 (the order of numbers is not that of texts), a good and a bad text, two runners, three runs, two edits; all texts of up to four words of quotes, tags, comments, names and backslashes: four are an opening, a word to mistake, a closing and a semicolon. 50,053 of the 68,213 texts have no construct of `Foreign`, and in 6,467 of these some semicolon is not a cut. |
| `table_move` | Is what is committed the archive (`CommitsTheArchive`), is it refused only for a reason (`RefusesWithReason`), what survives (`UserRowsKept`, `NumbersNeverReturn`, `OnlySeedsDropped`)? Types and constraints: `MoveTypeOK`. | Two tables, three rows, one of which is archived, two views, one blob key that may be on the cleaner's queue from the start, three changes by users, two runs of the script: rename, re-creation and a second run fit in, and so does an edit whose blob the cleaner takes while the second run puts the pointer back. |

Deadlock is checked in `blob_safe`, `blob_live`, `credentials` and `rls`. The other
models bound the number of requests and so stop by construction; their runs
say `CHECK_DEADLOCK FALSE`. `RequestsEnd`, `QueriesEnd` and `SessionsEnd` show where
waiting is involved that it ends.

The type invariants are theorems (section 5) and, but for `MoveTypeOK`, not checked by
runs as well; nor are the inductive invariants, of which they are conjuncts. TLC has
checked each inductive invariant on the run of its module before it was proved.

## 4. Fairness

* `BlobStore!FairSpec`: a request in progress is driven on by its worker and
  `cleanup_loop` polls for ever (every exception is caught, `blob_objects.py`
  lines 70-76). Beginnings of requests, faults and late effects are not fair.
* `WorkspaceMembers!FairSpec`: a request in progress goes on; PostgreSQL wakes
  waiters and detects deadlocks.
* `SchemaCache!FairSpec`: requests go on, the pool's timeout fires, time passes.
  No query or edit has to come.
* `RlsSessions!FairSpec`: a session goes on or the pool's timeout ends it. Closing is
  strongly fair: a handler is finite, so that a session that may close again and
  again, between commits and uploads, does so in the end.

The rest is weak fairness of single steps. A step that waits for a lock is not
enabled meanwhile and gets nothing from the assumption.

## 5. Proofs

`tlapm` checks every leaf; nothing is assumed but the named assumptions on the
constants, and those only say what a bound or a model value is. Every component
has its inductive invariant (`IInv`, `LeakInv`, `ViewsInv`, `AccountsInv`, `MoveInv`), a
theorem that it is one (`Invariant`, `LeakInvariant`, ...; one lemma per action), and from it
the theorems about its properties, for any number of requests, users, rows, keys and
so on.

**BlobStoreProofs.** `TypeCorrect`, `PointersHold`, `DownloadsSucceed`, `UploadsSurvive` and
their sum `BytesAreKept`; `NotFoundIsHonest`; and `Implements`: every step of the store is a
step of the atomic register `BlobCell` or leaves it alone. "A pointer has its bytes"
is not inductive: it breaks when somebody deletes the object, so the invariant must say
that whoever is about to delete holds the key's lock and has found it
unreferenced (`CleanerShape`), that an upload's keys are known to nobody else
before it locks them (`UploadPrivate`, `FreshKeysUnknown`), that its lock outlives
its copy (`UploadProtected`, `AdvisoryLocksExclusive`), that rows have one writer
(`RowLocksExclusive`) and that a deletion that takes effect late is of a key that can never
come back (`LateDeletesHarmless`). The proof first says what a step of a reader, a
cleaner, a writer may do (`ReaderMove`, `CleanerMove`, `WriterMove`).
`LeaksAreRaces` says which steps can make an object that nobody will collect. It needs
`LeakInv`: the registered keys of an upload in flight are locked by it and queued, and no bytes
are sent before (`UploadsQueued`), so that whatever becomes of the upload its keys stay
queued; a cleaner takes off the queue only what it has locked, and a key it has
forgotten has no bytes unless S3 answers late (`CleanersCollect`).

**TableColumnsProofs.** `NamesStayDistinct` and `IdsStayDistinct`. Names are easy, since a
trigger checks what is written. Ids are not checked by anyone: an array written late
brings back ids that were deleted. The invariant says that every computed array has
distinct ids that were drawn before, and that an id drawn for a pending addition is in
no array, committed or computed (`Owed`). `LosesOnlyUnseen`: a request that waits to write
has in its array every column that it has read, but for the one it takes out
(`KeepsWhatItRead`).

The same module proves `TurnsKeepAgreement`, `QueuesMerge` and `PatchesChangeTheirKeys` about
`TableViews`. A view row has one holder, and what it merges its patch into is the
committed row (`Locked`); each statement of a request knows what the statements
before it have left to do (`Phases`). While pages take turns and nothing disturbs them, at most one
line is at work, and what it has read or is about to write agrees with the views
(`Undisturbed`); the proof has one lemma for each way a step can end (`StaysUndisturbed`,
`CommitsUndisturbed`, ...). Where a sequence has to be followed from its end
to its start, a least counterexample (`Least`) stands in for induction.

**TableRowsProofs.** `NumbersHaveNoGaps`, `NumbersStayUnique`, `DatesStayCanonical` and
`CellsKept`. For the numbers the invariant says that the request that holds the counter
has the next number and is alone, that the used numbers are exactly those up to the
counter, and that only rows with such numbers exist or are locked. For the cells it says
that a row has one holder, and that from `lock_for_write` on the holder's version agrees
with the committed row, but for the conversion of dates, in every cell its request
does not name (`OwnVersion`): this is what the lock is for, since the statement that
writes reads that version. Most actions only replace a request's record, and lemma
`Move` says which records fit in (`FitsIn`); `InvCommit` is the one action that publishes.

**RlsSessionsProofs.** `StatementsRunAsCaller`. No transaction changes the session-level
value of a backend for good, and the local value is always the stash of the session
whose transaction is open (`BackendsCarryStash`); a transaction belongs to an open
session (`OneTransaction`). That is why a commit in mid-request followed by the
`after_begin` hook is safe, and why a connection needs no reset when it is returned.

The same module proves `AddressesFindOne`, `PatchesMerge` and `PasswordsNeedTheOld` about
`Accounts`. Nothing is locked between a handler's read and its write, so the invariant says what
is left of the read when the write comes: whoever is about to write an address
has been alone with it since it was found free, or is marked as raced; and a handler
replaces one field of one account by a value made of what it has read.

**MigrationRunnerProofs.** `AppliesOnce`, `AppliesInOrder`, `RecordsMatch`,
`AppliesOnReadHistory`. What a runner has put behind it stays as it has read it
(`Sound`), because a row that has a checksum is never given another one, and because
the primary key lets only one of two runners record a file.

The same module proves six theorems about `TableMove`, among them `WholeArchiveCommitted` (what
is committed is the archive) and `LaterRowsKept` and `RowNumbersNeverReturn` (what survives of users'
work). The script compares once and commits some time later. For rows, views and the
counter that is sound because what each statement has written stays what it was made of
until the commit, as its row locks keep users out (`CopySound`). The owners of blobs have
no such lock, since INSERT_BLOBS leaves existing ones alone and the cleaner
does not wait for locks on rows. What holds of them is that the cleaner only takes keys
that have been on its queue (`doomed`, `queue`, `retired`, in `MoveTypeOK`), so that the two theorems about
comparison and commit except just those keys. A counter's mark stays ahead of every number
that was ever given out, in the table and, once moved, in the archive (`NumbersBehindMarks`).

And it proves that `split_sql` is right on every text without a construct of `Foreign`
(`EveryTextIsSplit`, hence `TextsAreSplit`). There the regular expression for tags agrees with the lexer's
rule wherever a token begins (`TagsAgree`), and the scan goes through a name letter by letter and
meets nothing in it (`NameFollows`). So the scan and the lexer meet the same semicolons, because
a scan that is inside a context goes on, unchanged, to the first place that closes
it (`ScanCloses`; a doubled quote is two strings to the reference, which changes nothing); and
a piece with a statement in it is kept for the line of its first token that is neither blank
nor a line comment, or for one before it (`CodeIsEmitted`). The functions are recursive:
that they exist is `CollectionExists` (every turn goes forward), and what they are is shown at
the greatest position where it would be otherwise, instead of by induction.

**CredentialsProofs.** `UsedOnce`, `OneLiveToken`, `NoCodeAfterLogout`. What is not marked
has not been used, and what a request has claimed cannot be marked by another before
it gives its lock back: so only one request gets something for a secret. A
revocation that has visited its rows has visited the family, but for a successor
inserted after its snapshot, whose rotation is in `raced`.

**WorkspaceMembersProofs.** `LevelsStayClosed`, `LastOwnerRemains`. A request that is alone
is an owner until the statement that takes its own ownership away, so that its
three statements have together the effect of the level it asks for (`Handled`, `Made`), and
the halves that row-level security lets it leave are levels too. For ownership: among
overlapping requests only one may take ownership away, it has counted an owner besides
its target, and that one stays.

**SchemaCacheProofs.** `ServesTheTruth`. A committed state stays in the history, so what
was true since an edit stays so; a build reads every part after its request began;
what is stored has been built, hence was true since then; and a build that no
edit has met is the present.

Only model-checked: the liveness properties (`QueuedGarbageCollected`, `RequestsEnd`,
`QueriesEnd`, `StaleEntriesExpire`, `SessionsEnd`), since the prover has neither
fairness nor ENABLED.

## 6. Behaviour worth knowing

None of this contradicts a property; several properties name it as their exception.

* *Blobs.* The retirement trigger inserts with ON CONFLICT DO NOTHING (V71 line 112): if the key
  is still queued by `register_upload` and a cleaner that saw it referenced removes
  that entry, the retired object is never collected. A copy that S3 applies after
  its upload was rolled back and its key collected leaves an object that nothing knows.
  `LeaksOnlyByRace` shows, whichever of trigger and cleaner is first, that there is no
  third way. A download checks the owner of the
  key it read before it locks that key (`rows.py` line 277): after a replacement and a
  collection in between, it answers 404 although the cell is filled.
* *Columns.* `update_column`, `delete_column` and `update_col_order` (V69 line 1088 on) overwrite the
  array they read: a column that another worker adds in between disappears, although
  `CHANGELOG.md` (line 749) calls these functions safe for several workers.
* *Rows.* `update_column` to type `date` rewrites no row. A cell that is no point in time then
  makes the trigger reject every later write of that row, the no-op update of
  `lock_for_write` included, so that such a row can neither be edited nor deleted
  until the type is changed back. `CanonicalWithoutRetypes` shows that this is the only way
  to a non-canonical cell.
* *Views.* `trg_set_view_id_fn` gives the id of a deleted last view to the next one (V71 line 124);
  `delete_view` overwrites `view_order` and `default_view` from an earlier read;
  `update_default_view` can store a view that was deleted after its check; `update_view_order`
  stores any list. `TakingTurns` shows that none of this happens to pages that take turns.
* *Pages.* A configuration write sends the whole config that the page shows. If somebody
  else has changed another key since, or a reply was lost, or a reply to a request
  outside the queue (a new view, a dragged tab, a board) arrives late, it puts older
  values back. JSON leaves out keys that are undefined and `update_view` merges, so that
  clearing the sort, the grouping or the filter of a view that has a row is not
  stored. `createView` and `deleteView` apply their reply to the table that is current when it
  arrives, which may be another one by then.
* *Roster.* Two requests that both count two owners can each take one away
  (`workspaces.py` line 200), although `llm.sso.md` (line 17) says that the last owner remains;
  an "add" at a lower level that meets a stranger's promotion demotes. Overlapping changes
  of one member can leave a level open (write without read). An owner who removes
  himself loses `owner` first and then no longer sees his other two rows, which stay.
* *Schema cache.* A build that began before an edit stores its schema after the
  invalidation (`lattice_ql.py` line 81); it is served for a TTL. A schema built while the caller
  loses its membership is cached for everybody.
* *Credentials.* A rotation that commits while a replay revokes the family leaves its new
  token alive: the UPDATE cannot see a row inserted after its snapshot
  (`LiveTokens`, `raced`). A client whose reply was lost and that tries again with the old token
  is taken for a replay and logged out.
* *Accounts.* The unique index compares bytes and the lookup lower case: two overlapping
  requests can register two spellings of one address, after which lookups by it fail.
  Two overlapping patches of a config put each other's keys back. Two first passwords race.
* *Migrations.* A file that is absent while one runner lists the tree is applied
  after later ones by the next. Two runners in full mode share one container name.
* *Splitting.* `split_sql` is no full lexer. It differs from PostgreSQL on nested comments, on a `$`
  in a name (`x$x$;` opens a body for it), on parameters and tags that begin with a digit
  (`$1`), on tags with letters that are not ASCII, and on a backslash in an `E'...'` string.
  `Foreign` is this list; none of the 72 migrations has any of them, and nothing in the
  repository says that they are supported.
* *Storage move.* A second run reverts users' edits of archived rows, brings deleted
  archived rows and tables back, and copies a renamed table again, without blobs, or
  is refused because the renamed table owns the keys. A table renamed away and back between
  two statements of the copy gives an empty mapping. The table's `config` is not compared.
  An archived date that is not canonical makes the comparison fail every time.
  A run after the cleaner has collected objects restores pointers to them, and so does
  a run during the collection: when a user has edited an archived blob cell, a second
  run puts the pointer back and finds the key registered, while the cleaner, which
  sees the committed edit, deletes the object and its owner before the commit or, having
  looked before it, just after. V66 renames `blob_objects` and not `blob_cleanup_queue`: keys of the
  archive may still be queued, and before the first run no row of the new storage refers to
  them, so that their objects go. A key that is collected between INSERT_BLOBS and the comparison
  makes the script refuse; the next run copies its owner again. An empty mapping is committed
  only if a user renamed, created or deleted a table during the run.

## 7. What is abstracted, and what is not modelled

Object keys, tokens and ids are drawn from a finite set and never twice. Hash
collisions of advisory locks, the order and the batch limit's starvation of the cleanup
queue, cascades from deleted tables, the order of columns, column options,
`view_config` of the implicit tab, `null` cells, explicitly numbered rows (migrations only),
response bodies and error codes are left out. The emptying of a blob cell is in
`BlobStore`, and for `TableRows` it is an upload of another value. In `TableMove` an edit of a row
replaces its blob cell as well. A caller's rights change
only in `WorkspaceMembers` and, for the cache, in `SchemaCache`. Passwords are compared, not
hashed; a checksum identifies its text. In `TableViews` a change names one key, a new view
has none, and callers of the API other than pages only remove keys; frontend pages are
modelled as far as configuration goes (no optimistic cell edits, and a timer is the time
at which its write is enqueued). `Credentials` has a fixed set of clients.
`MigrationRunner` has no `--dump` and no container commands.

Not modelled:

* *Recovery script* (`recover_db.py`): a one-off copy into an empty target, marked deprecated.
* *SQL linter*: a pure check of files. *Row-data indexes*: DDL without effect on the state.
* *Table creation and templates*: one function in one transaction, whose results are the initial
  states of three modules. *Workspaces' creation and renaming*: single statements.
* *Dashboards, announcements*: read only; they use the schema cache as modelled.
* *Storage proxy*: stateless forwarding. *Rendering, e2e, deployment*: no logic of the system's own.

## 8. Plan

Done: all modules above with their runs, and a theorem for every property that is
not liveness.

1. Optimistic cell edits of the frontend, composed with `TableRows`.
