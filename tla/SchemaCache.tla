------------------------------ MODULE SchemaCache ------------------------------
(***************************************************************************)
(* The LatticeQL schema of one workspace and its cache (config/            *)
(* lattice_ql.py, config/pg_cache.py, V31).  A query compiles against the  *)
(* cached schema or builds it, one SELECT after another, from the tables   *)
(* of the workspace, and stores it for a TTL; whoever changes the tables   *)
(* commits and then deletes the entry.  Cache calls take a second          *)
(* connection from the pool a request already holds one of, and swallow    *)
(* every failure, the pool's timeout included.                             *)
(***************************************************************************)
EXTENDS Integers, Sequences, FiniteSets

CONSTANTS
    Tables,
    Queries,        \* requests that run a LatticeQL query
    Editors,        \* requests that create, rename, drop or alter a table
    Pool,           \* connections of the pool
    TTL,            \* clock ticks an entry lives
    MaxEdits,       \* bound: edits in a behaviour
    MaxFaults       \* bound: cancelled requests, crashes, revoked memberships

ASSUME CacheAssumption ==
    /\ Pool \in Nat \ {0} /\ TTL \in Nat \ {0}
    /\ MaxEdits \in Nat /\ MaxFaults \in Nat

VARIABLES
    history,    \* the committed tables: the last element is the present
    entry,      \* the row of private.cache
    query,      \* per query: where it is and what it has read
    editor,     \* per editor: its edit, committed but not acknowledged
    acked,      \* the last edit whose request has been answered
    raced,      \* history: an edit met a query, or its invalidation failed
    faults      \* faults so far

vars == <<history, entry, query, editor, acked, raced, faults>>

\* The number of an edit stands for the name or the columns it left: 0 for those
\* of the beginning, None where there is nothing.
Edits == 0 .. MaxEdits
None == -1
Parts == {"name", "columns"}
Contents == [Parts -> Edits \cup {None}]
Absent == [part \in Parts |-> None]
Now == history[Len(history)]
Schemas == UNION {[S -> Contents] : S \in SUBSET Tables}
NoSchema == [t \in {} |-> Absent]

NoEntry == [schema |-> NoSchema, ttl |-> 0, since |-> 0, blind |-> FALSE]
Idle == [pc |-> "idle", floor |-> 0, since |-> 0, blind |-> FALSE,
         loaded |-> NoSchema, todo |-> {}, schema |-> NoSchema]
IdleEditor == [pc |-> "idle", edit |-> 0, holds |-> FALSE]

QueryRecords ==
    [pc : {"idle", "get", "list", "read", "set", "compile"},
     floor : Edits,       \* acked when the query began
     since : Edits,       \* the edit its schema cannot be older than
     blind : BOOLEAN,     \* the caller was removed while it was built
     loaded : Schemas,    \* the table it has in its session
     todo : SUBSET Tables, schema : Schemas]

TypeOK ==
    /\ history \in Seq([Tables -> Contents])
    /\ Len(history) \in 1 .. MaxEdits + 1
    /\ entry \in [schema : Schemas, ttl : 0 .. TTL, since : Edits, blind : BOOLEAN]
    /\ query \in [Queries -> QueryRecords]
    /\ editor \in [Editors -> [pc : {"idle", "invalidate"}, edit : Edits, holds : BOOLEAN]]
    /\ acked \in Edits
    /\ raced \in BOOLEAN
    /\ faults \in 0 .. MaxFaults

Init ==
    /\ history = <<[t \in Tables |-> [part \in Parts |-> 0]]>>
    /\ entry = NoEntry
    /\ query = [q \in Queries |-> Idle]
    /\ editor = [e \in Editors |-> IdleEditor]
    /\ acked = 0
    /\ raced = FALSE
    /\ faults = 0

-----------------------------------------------------------------------------
\* Connections: a query keeps the one of its transaction; an editor has given
\* its own back by the commit, unless it has read the schema again since.
InUse == Cardinality({q \in Queries : query[q].pc # "idle"})
         + Cardinality({e \in Editors : editor[e].holds})
Free == InUse < Pool

Latest == Len(history) - 1      \* the number of the last edit
Building(q) == query[q].pc \in {"get", "list", "read", "set"}

Goes(q, record) == query' = [query EXCEPT ![q] = record]

-----------------------------------------------------------------------------
(* A query: get_schema and compile_lql. *)

\* The request loads the table it is about; without it, it is a 404.
Begin(q) ==
    /\ query[q].pc = "idle" /\ Free
    /\ \E t \in Tables :
           /\ Now[t]["name"] # None
           /\ Goes(q, [Idle EXCEPT !.pc = "get", !.floor = acked, !.since = Latest,
                                   !.loaded = [x \in {t} |-> Now[x]]])
    /\ UNCHANGED <<history, entry, editor, acked, raced, faults>>

\* Variant: expires_at is not looked at.
HitExpired == DOMAIN entry.schema # {}

\* cache_get: an entry that has not expired; {} counts as a miss.
Hit == entry.ttl > 0 /\ DOMAIN entry.schema # {}

CacheGet(q) ==
    /\ query[q].pc = "get" /\ Free
    /\ Goes(q, IF Hit THEN [query[q] EXCEPT !.pc = "compile", !.schema = entry.schema,
                                            !.since = entry.since, !.blind = entry.blind]
               ELSE [query[q] EXCEPT !.pc = "list"])
    /\ UNCHANGED <<history, entry, editor, acked, raced, faults>>

\* Variant: nobody gives up waiting for a connection.
NeverTimesOut(q) == FALSE /\ UNCHANGED vars

\* No connection until the pool's timeout: get_schema goes on without the cache.
CacheTimeout(q) ==
    /\ query[q].pc \in {"get", "set"} /\ ~Free
    /\ Goes(q, [query[q] EXCEPT !.pc = IF @ = "get" THEN "list" ELSE "compile"])
    /\ UNCHANGED <<history, entry, editor, acked, raced, faults>>

\* Row-level security shows a caller without membership nothing.
Visible(q) == {t \in Tables : ~query[q].blind /\ Now[t]["name"] # None}

\* list_by_workspace: the names come from here, that of the loaded table as it
\* was loaded, since the session does not refresh an object it has.
Listed(q) ==
    [t \in Visible(q) |->
        [Absent EXCEPT !["name"] = IF t \in DOMAIN query[q].loaded
                                   THEN query[q].loaded[t]["name"] ELSE Now[t]["name"]]]

List(q) ==
    /\ query[q].pc = "list"
    /\ Goes(q, [query[q] EXCEPT !.pc = IF Visible(q) = {} THEN "set" ELSE "read",
                                !.todo = Visible(q), !.schema = Listed(q)])
    /\ UNCHANGED <<history, entry, editor, acked, raced, faults>>

\* get_tables_schema: the columns, or none when the table is no longer there.
Read(q) ==
    /\ query[q].pc = "read"
    /\ \E t \in query[q].todo :
           Goes(q, [query[q] EXCEPT
               !.todo = @ \ {t},
               !.pc = IF query[q].todo = {t} THEN "set" ELSE "read",
               !.schema[t]["columns"] = IF t \in Visible(q) THEN Now[t]["columns"] ELSE None])
    /\ UNCHANGED <<history, entry, editor, acked, raced, faults>>

Stored(q) ==
    [schema |-> query[q].schema, ttl |-> TTL, since |-> query[q].since, blind |-> query[q].blind]

\* cache_set: an upsert, whatever has happened since the build began.
CacheSet(q) ==
    /\ query[q].pc = "set" /\ Free
    /\ entry' = Stored(q)
    /\ Goes(q, [query[q] EXCEPT !.pc = "compile"])
    /\ UNCHANGED <<history, editor, acked, raced, faults>>

\* The query is compiled, run and answered.
Answer(q) ==
    /\ query[q].pc = "compile"
    /\ Goes(q, Idle)
    /\ UNCHANGED <<history, entry, editor, acked, raced, faults>>

-----------------------------------------------------------------------------
(* An edit: create_table, update_table (rename), delete_table, and the column *)
(* routes and PATCH col_order, each a commit and then invalidate_schema_cache. *)

Changes(t, n) ==
    IF Now[t]["name"] = None THEN {[part \in Parts |-> n]}
    ELSE {Absent, [Now[t] EXCEPT !["name"] = n], [Now[t] EXCEPT !["columns"] = n]}

\* The column routes return the schema, read in a new transaction.
Commit(e) ==
    /\ editor[e].pc = "idle" /\ Latest < MaxEdits /\ Free
    /\ \E t \in Tables : \E new \in Changes(t, Latest + 1) :
           /\ history' = Append(history, [Now EXCEPT ![t] = new])
           /\ editor' = [editor EXCEPT ![e] = [pc |-> "invalidate", edit |-> Latest + 1,
                  holds |-> Now[t]["name"] # None /\ new["columns"] = Latest + 1]]
    /\ raced' = (raced \/ \E q \in Queries : Building(q))
    /\ UNCHANGED <<entry, query, acked, faults>>

Acknowledge(e) ==
    /\ acked' = IF editor[e].edit > acked THEN editor[e].edit ELSE acked
    /\ editor' = [editor EXCEPT ![e] = IdleEditor]

\* Variant: the request is answered and the entry left to its TTL.
RepliesOnly(e) ==
    /\ editor[e].pc = "invalidate" /\ Free
    /\ Acknowledge(e)
    /\ UNCHANGED <<history, entry, query, raced, faults>>

Invalidate(e) ==
    /\ editor[e].pc = "invalidate" /\ Free
    /\ entry' = NoEntry
    /\ Acknowledge(e)
    /\ UNCHANGED <<history, query, raced, faults>>

\* The failure is swallowed and the request answered.
InvalidateTimeout(e) ==
    /\ editor[e].pc = "invalidate" /\ ~Free
    /\ Acknowledge(e)
    /\ raced' = TRUE
    /\ UNCHANGED <<history, entry, query, faults>>

-----------------------------------------------------------------------------
\* The clock: an entry comes closer to its expires_at.
Tick ==
    /\ entry.ttl > 0
    /\ entry' = [entry EXCEPT !.ttl = @ - 1]
    /\ UNCHANGED <<history, query, editor, acked, raced, faults>>

Faulty ==
    /\ faults < MaxFaults
    /\ faults' = faults + 1
    /\ UNCHANGED <<history, acked>>

\* A request is cancelled; an editor's leaves the entry behind, unanswered.
Cancel ==
    /\ Faulty
    /\ \/ \E q \in Queries : query[q].pc # "idle" /\ Goes(q, Idle) /\ UNCHANGED editor
       \/ \E e \in Editors :
              /\ editor[e].pc # "idle"
              /\ editor' = [editor EXCEPT ![e] = IdleEditor]
              /\ UNCHANGED query
    /\ UNCHANGED <<entry, raced>>

\* The caller of a query leaves the workspace.
Revoke ==
    /\ Faulty
    /\ \E q \in Queries :
           query[q].pc \in {"get", "list", "read"} /\ Goes(q, [query[q] EXCEPT !.blind = TRUE])
    /\ UNCHANGED <<entry, editor, raced>>

\* PostgreSQL crashes: the UNLOGGED table is empty afterwards.
Crash ==
    /\ Faulty
    /\ entry' = NoEntry
    /\ query' = [q \in Queries |-> Idle]
    /\ editor' = [e \in Editors |-> IdleEditor]
    /\ UNCHANGED raced

-----------------------------------------------------------------------------
QueryStep(q) ==
    CacheGet(q) \/ CacheTimeout(q) \/ List(q) \/ Read(q) \/ CacheSet(q) \/ Answer(q)
EditorStep(e) == Invalidate(e) \/ InvalidateTimeout(e)

Next ==
    \/ \E q \in Queries : Begin(q) \/ QueryStep(q)
    \/ \E e \in Editors : Commit(e) \/ EditorStep(e)
    \/ Tick \/ Cancel \/ Revoke \/ Crash

Spec == Init /\ [][Next]_vars

\* Requests are driven on and time passes; no request has to come.
FairSpec ==
    /\ Spec
    /\ \A q \in Queries : WF_vars(QueryStep(q))
    /\ \A e \in Editors : WF_vars(EditorStep(e))
    /\ WF_vars(Tick)

-----------------------------------------------------------------------------
(* Properties. *)

\* What a schema says of a table, and whether that was true at some time since
\* edit n.
Says(schema, t) == IF t \in DOMAIN schema THEN schema[t] ELSE Absent
TrueSince(schema, n) ==
    \A t \in Tables, part \in Parts :
        \E i \in n .. Latest : Says(schema, t)[part] = history[i + 1][t][part]

\* A query compiles against parts that were each true at some time since the
\* request that built the schema began, however often it was cached and
\* overwritten, unless the builder lost its membership half-way.  "Without this the
\* old name keeps working for a TTL": as long as no edit has been committed while a
\* query had yet to build, and every invalidation has reached the cache, a query
\* that begins after an edit has been answered compiles against that edit.
ServedWasTrue ==
    \A q \in Queries : query[q].pc = "compile" /\ ~query[q].blind =>
        /\ TrueSince(query[q].schema, query[q].since)
        /\ ~raced => TrueSince(query[q].schema, query[q].floor)

\* A request that holds a connection and waits for a second one goes on.
QueriesEnd == \A q \in Queries : query[q].pc # "idle" ~> query[q].pc = "idle"

\* Once the edits stop, so does, within a TTL, the harm of a late cache_set or
\* a lost invalidation.
StaleEntriesExpire == <>[](Hit /\ ~entry.blind => TrueSince(entry.schema, Latest))
=============================================================================
