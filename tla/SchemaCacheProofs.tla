-------------------------- MODULE SchemaCacheProofs --------------------------
(***************************************************************************)
(* Proofs about SchemaCache, for any tables, queries, editors, pool and    *)
(* TTL.  The argument: a committed state stays in the history, so what was *)
(* true since an edit stays so; a build reads every part after its request *)
(* began; and what is stored has been built, hence is true since then.     *)
(***************************************************************************)
EXTENDS SchemaCache, SequenceTheorems, TLAPS

\* What an edit left of a part of a table, at some time since edit n.
WasTrue(v, t, part, n) == \E i \in n .. Latest : v = history[i + 1][t][part]

\* What a query has, in the middle of its work.
Good(rec) ==
    /\ rec.floor <= acked
    /\ rec.pc \in {"get", "list", "read", "set"} =>
        /\ rec.floor <= rec.since /\ rec.since <= Latest
        /\ \A t \in DOMAIN rec.loaded : rec.loaded[t] = history[rec.since + 1][t]
        /\ ~raced => rec.since = Latest
    /\ rec.pc = "read" => rec.todo \subseteq DOMAIN rec.schema
    /\ rec.pc = "read" /\ ~rec.blind => \A t \in Tables :
        /\ WasTrue(Says(rec.schema, t)["name"], t, "name", rec.since)
        /\ t \notin rec.todo => WasTrue(Says(rec.schema, t)["columns"], t, "columns", rec.since)
    /\ rec.pc \in {"set", "compile"} /\ ~rec.blind => TrueSince(rec.schema, rec.since)
    /\ rec.pc = "compile" /\ ~rec.blind /\ ~raced => TrueSince(rec.schema, rec.floor)

\* What is cached. Every acknowledged invalidation that reached the cache has
\* emptied it.
GoodEntry(e) ==
    DOMAIN e.schema # {} /\ ~e.blind =>
        TrueSince(e.schema, e.since) /\ (~raced => TrueSince(e.schema, acked))

IInv ==
    /\ TypeOK
    /\ acked <= Latest
    /\ \A e \in Editors : editor[e].edit <= Latest
    /\ \A t \in Tables : Now[t]["name"] = None => Now[t] = Absent
    /\ \A q \in Queries : Good(query[q])
    /\ GoodEntry(entry)
-----------------------------------------------------------------------------
(* Schemas and the history. *)

LEMMA SchemaType ==
    /\ \A s \in Schemas : DOMAIN s \subseteq Tables /\ \A t \in DOMAIN s : s[t] \in Contents
    /\ \A D \in SUBSET Tables : [D -> Contents] \subseteq Schemas
    /\ NoSchema \in Schemas /\ DOMAIN NoSchema = {}
    /\ Absent \in Contents /\ None \notin Edits
<1>1. Absent \in Contents /\ None \notin Edits
  BY CacheAssumption DEF Absent, Contents, Edits, None
<1>2. NoSchema \in [{} -> Contents] /\ DOMAIN NoSchema = {}
  BY DEF NoSchema
<1>3. {} \in SUBSET Tables
  OBVIOUS
<1> QED
  BY <1>1, <1>2, <1>3 DEF Schemas

LEMMA Shape ==
    ASSUME IInv
    PROVE  /\ Len(history) \in Nat \ {0} /\ Latest \in Nat /\ Latest \in Edits
           /\ history \in Seq([Tables -> Contents]) /\ Latest + 1 = Len(history)
           /\ \A k \in 0 .. Latest : history[k + 1] \in [Tables -> Contents]
           /\ Now = history[Latest + 1] /\ Now \in [Tables -> Contents]
           /\ acked \in Nat /\ acked \in Edits /\ acked <= Latest
           /\ \A n \in Edits : n \in Nat
           /\ MaxEdits \in Nat
<1>1. /\ Len(history) \in 1 .. MaxEdits + 1 /\ history \in Seq([Tables -> Contents])
      /\ MaxEdits \in Nat /\ acked \in 0 .. MaxEdits /\ acked <= Latest
  BY CacheAssumption DEF IInv, TypeOK, Edits
<1>2. \A k \in 1 .. Len(history) : history[k] \in [Tables -> Contents]
  BY <1>1, ElementOfSeq
<1>3. Latest = Len(history) - 1 /\ Now = history[Len(history)]
  BY DEF Latest, Now
<1>4. Latest \in Nat /\ Latest + 1 = Len(history) /\ Latest \in 0 .. MaxEdits
  BY <1>1, <1>3
<1>5. \A k \in 0 .. Latest : k + 1 \in 1 .. Len(history)
  BY <1>1, <1>4
<1>6. \A k \in 0 .. Latest : history[k + 1] \in [Tables -> Contents]
  BY <1>2, <1>5
<1>7. Now = history[Latest + 1] /\ Now \in [Tables -> Contents]
  BY <1>3, <1>4, <1>6
<1> QED
  BY <1>1, <1>4, <1>6, <1>7 DEF Edits

\* What a schema says of a table that is there, or not.
LEMMA SaysOf ==
    ASSUME NEW schema, NEW t
    PROVE  /\ t \in DOMAIN schema => Says(schema, t) = schema[t]
           /\ t \notin DOMAIN schema => \A part \in Parts : Says(schema, t)[part] = None
BY DEF Says, Absent

LEMMA TrueMeans ==
    ASSUME NEW schema, NEW n
    PROVE  TrueSince(schema, n) <=>
             \A t \in Tables, part \in Parts : WasTrue(Says(schema, t)[part], t, part, n)
BY DEF TrueSince, WasTrue

LEMMA TrueNow ==
    ASSUME IInv, NEW t \in Tables, NEW part \in Parts, NEW n \in Nat, n <= Latest
    PROVE  WasTrue(Now[t][part], t, part, n)
BY Shape DEF WasTrue

LEMMA TrueLess ==
    ASSUME IInv, NEW schema, NEW n \in Nat, NEW k \in Nat, k <= n, TrueSince(schema, n)
    PROVE  TrueSince(schema, k)
<1>1. n .. Latest \subseteq k .. Latest
  BY Shape
<1> QED
  BY <1>1 DEF TrueSince

\* A step adds to the history, and to what is acknowledged.
Grows ==
    /\ Latest' \in Nat /\ Latest <= Latest'
    /\ \A k \in 0 .. Latest : history'[k + 1] = history[k + 1]
    /\ acked' \in Nat /\ acked <= acked' /\ acked' <= Latest'
    /\ raced => raced'

LEMMA WasStays ==
    ASSUME IInv, Grows, NEW v, NEW t, NEW part, NEW n \in Nat, WasTrue(v, t, part, n)
    PROVE  WasTrue(v, t, part, n)'
<1>1. PICK k \in n .. Latest : v = history[k + 1][t][part]
  BY DEF WasTrue
<1>2. k \in 0 .. Latest /\ k \in n .. Latest'
  BY Shape DEF Grows
<1> QED
  BY <1>1, <1>2 DEF WasTrue, Grows

LEMMA TrueStays ==
    ASSUME IInv, Grows, NEW schema, NEW n \in Nat, TrueSince(schema, n)
    PROVE  TrueSince(schema, n)'
<1>1. \A t \in Tables, part \in Parts : WasTrue(Says(schema, t)[part], t, part, n)
  BY TrueMeans
<1>2. \A t \in Tables, part \in Parts : WasTrue(Says(schema, t)[part], t, part, n)'
  BY <1>1, WasStays
<1> QED
  BY <1>2 DEF TrueSince, WasTrue, Says, Absent

LEMMA GoodStays ==
    ASSUME IInv, Grows, NEW rec \in QueryRecords, Good(rec),
           Latest' # Latest /\ rec.pc \in {"get", "list", "read", "set"} => raced'
    PROVE  Good(rec)'
<1>1. rec.since \in Nat /\ rec.floor \in Nat
  BY Shape DEF QueryRecords
<1>2. rec.floor <= acked'
  BY <1>1, Shape DEF Good, Grows
<1>3. ASSUME rec.pc \in {"get", "list", "read", "set"}
      PROVE  /\ rec.floor <= rec.since /\ rec.since <= Latest'
             /\ \A t \in DOMAIN rec.loaded : rec.loaded[t] = history'[rec.since + 1][t]
             /\ ~raced' => rec.since = Latest'
  <2>1. rec.since \in 0 .. Latest /\ rec.floor <= rec.since
        /\ (\A t \in DOMAIN rec.loaded : rec.loaded[t] = history[rec.since + 1][t])
        /\ (~raced => rec.since = Latest)
    BY <1>1, <1>3, Shape DEF Good
  <2> QED
    BY <1>3, <2>1, Shape DEF Grows
<1>4. ASSUME rec.pc = "read", ~rec.blind, NEW t \in Tables
      PROVE  /\ WasTrue(Says(rec.schema, t)["name"], t, "name", rec.since)'
             /\ t \notin rec.todo =>
                    WasTrue(Says(rec.schema, t)["columns"], t, "columns", rec.since)'
  BY <1>1, <1>4, WasStays DEF Good
<1>5. rec.pc \in {"set", "compile"} /\ ~rec.blind => TrueSince(rec.schema, rec.since)'
  BY <1>1, TrueStays DEF Good
<1>6. rec.pc = "compile" /\ ~rec.blind /\ ~raced' => TrueSince(rec.schema, rec.floor)'
  BY <1>1, TrueStays DEF Good, Grows
<1>7. \A t \in Tables : rec.pc = "read" /\ ~rec.blind =>
        /\ WasTrue(Says(rec.schema, t)["name"], t, "name", rec.since)'
        /\ t \notin rec.todo =>
              WasTrue(Says(rec.schema, t)["columns"], t, "columns", rec.since)'
  BY <1>4
<1>8. rec.pc = "read" => rec.todo \subseteq DOMAIN rec.schema
  BY DEF Good
<1> QED
  BY <1>2, <1>3, <1>5, <1>6, <1>7, <1>8 DEF Good, WasTrue, Says, Absent

LEMMA EntryStays ==
    ASSUME IInv, Grows, NEW e, e.since \in Nat, GoodEntry(e), acked' # acked => raced'
    PROVE  GoodEntry(e)'
<1> SUFFICES ASSUME DOMAIN e.schema # {}, ~e.blind
             PROVE  TrueSince(e.schema, e.since)' /\ (~raced' => TrueSince(e.schema, acked)')
  BY DEF GoodEntry
<1>1. TrueSince(e.schema, e.since)'
  BY TrueStays DEF GoodEntry
<1>2. ASSUME ~raced' PROVE TrueSince(e.schema, acked)'
  <2>1. PICK n : n = acked
    OBVIOUS
  <2>2. n \in Nat /\ acked' = n /\ TrueSince(e.schema, n)
    BY <1>2, <2>1, Shape DEF GoodEntry, Grows
  <2>3. TrueSince(e.schema, n)'
    BY <2>2, TrueStays
  <2> QED
    BY <2>2, <2>3 DEF TrueSince, Says, Absent
<1> QED
  BY <1>1, <1>2

-----------------------------------------------------------------------------
(* Queries. *)

EntryRecords == [schema : Schemas, ttl : 0 .. TTL, since : Edits, blind : BOOLEAN]

LEMMA Records ==
    ASSUME IInv
    PROVE  /\ entry \in EntryRecords /\ entry.since \in Nat
           /\ \A q \in Queries : query[q] \in QueryRecords
           /\ faults \in 0 .. MaxFaults /\ raced \in BOOLEAN
BY Shape DEF IInv, TypeOK, EntryRecords

LEMMA IdleRecord == Idle \in QueryRecords /\ Idle.pc = "idle" /\ Idle.floor = 0
BY SchemaType, CacheAssumption DEF Idle, QueryRecords, Edits

LEMMA IdleGood == ASSUME IInv PROVE Good(Idle)
BY IdleRecord, Shape DEF Good

LEMMA EmptyGood == NoEntry \in EntryRecords /\ GoodEntry(NoEntry) /\ GoodEntry(NoEntry)'
<1>1. NoEntry \in EntryRecords /\ DOMAIN NoEntry.schema = {}
  BY SchemaType, CacheAssumption DEF NoEntry, EntryRecords, Edits
<1> QED
  BY <1>1 DEF GoodEntry

\* The tables as they are.
Still == UNCHANGED <<history, acked, raced>>

LEMMA StillGrows == ASSUME IInv, Still PROVE Grows /\ Latest' = Latest /\ acked' = acked
BY Shape DEF Still, Grows, Latest

\* Queries and the entry change, the tables do not.
LEMMA StillMove ==
    ASSUME IInv, Still, query' \in [Queries -> QueryRecords],
           \A q \in Queries : Good(query'[q]),
           NEW e \in EntryRecords, entry' = e, GoodEntry(e),
           editor' \in [Editors -> [pc : {"idle", "invalidate"}, edit : Edits, holds : BOOLEAN]],
           \A d \in Editors : editor'[d].edit <= Latest,
           faults' \in 0 .. MaxFaults
    PROVE  IInv'
<1>1. Grows /\ Latest' = Latest /\ acked' = acked
  BY StillGrows
<1>2. TypeOK'
  BY DEF IInv, TypeOK, Still, EntryRecords
<1>3. ASSUME NEW q \in Queries PROVE Good(query[q])'
  <2>1. PICK rec : rec = query'[q]
    OBVIOUS
  <2>2. Good(rec)'
    BY <1>1, <2>1, GoodStays
  <2>3. Good(rec)' <=> Good(query[q])'
    BY <2>1 DEF Good, WasTrue, TrueSince, Says, Absent
  <2> QED
    BY <2>2, <2>3
<1>4. GoodEntry(entry)'
  <2>1. e.since \in Nat
    BY Shape DEF EntryRecords
  <2>2. GoodEntry(e)'
    BY <1>1, <2>1, EntryStays
  <2>3. GoodEntry(e)' <=> GoodEntry(entry)'
    BY DEF GoodEntry, TrueSince, Says, Absent
  <2> QED
    BY <2>2, <2>3
<1>5. (acked <= Latest)' /\ (\A d \in Editors : editor[d].edit <= Latest)'
  BY <1>1, Shape
<1>6. (\A t \in Tables : Now[t]["name"] = None => Now[t] = Absent)'
  BY DEF IInv, Still, Now, Absent
<1> QED
  BY <1>2, <1>3, <1>4, <1>5, <1>6 DEF IInv

\* A query takes its next step.
LEMMA QueryMove ==
    ASSUME IInv, NEW q \in Queries, NEW rec \in QueryRecords, Good(rec), Goes(q, rec),
           NEW e \in EntryRecords, entry' = e, GoodEntry(e),
           Still, UNCHANGED editor, faults' \in 0 .. MaxFaults
    PROVE  IInv'
<1>1. query' \in [Queries -> QueryRecords] /\ query'[q] = rec
      /\ \A p \in Queries \ {q} : query'[p] = query[p]
  BY DEF IInv, TypeOK, Goes
<1>2. \A p \in Queries : Good(query'[p])
  <2>1. \A p \in Queries \ {q} : Good(query'[p])
    <3>1. \A p \in Queries : Good(query[p])
      BY DEF IInv
    <3> QED
      BY <1>1, <3>1
  <2>2. Good(query'[q])
    BY <1>1
  <2> QED
    BY <2>1, <2>2
<1>3. editor' \in [Editors -> [pc : {"idle", "invalidate"}, edit : Edits, holds : BOOLEAN]]
      /\ \A d \in Editors : editor'[d].edit <= Latest
  BY DEF IInv, TypeOK
<1> QED
  BY <1>1, <1>2, <1>3, StillMove

\* It leaves the entry alone.
LEMMA QuietMove ==
    ASSUME IInv, NEW q \in Queries, NEW rec \in QueryRecords, Good(rec), Goes(q, rec),
           UNCHANGED <<history, entry, editor, acked, raced>>, faults' \in 0 .. MaxFaults
    PROVE  IInv'
<1>1. Still /\ UNCHANGED editor /\ entry' = entry /\ entry \in EntryRecords /\ GoodEntry(entry)
  BY Records DEF Still, IInv
<1> QED
  BY <1>1, QueryMove

LEMMA BeginKeeps == ASSUME IInv, NEW q \in Queries, Begin(q) PROVE IInv'
<1>1. PICK t \in Tables :
        Goes(q, [Idle EXCEPT !.pc = "get", !.floor = acked, !.since = Latest,
                             !.loaded = [x \in {t} |-> Now[x]]])
  BY DEF Begin
<1>2. PICK rec : rec = [Idle EXCEPT !.pc = "get", !.floor = acked, !.since = Latest,
                                    !.loaded = [x \in {t} |-> Now[x]]]
  OBVIOUS
<1>3. PICK loaded : loaded = [x \in {t} |-> Now[x]]
  OBVIOUS
<1>4. loaded \in Schemas /\ DOMAIN loaded = {t} /\ loaded[t] = history[Latest + 1][t]
  <2>1. loaded \in [{t} -> Contents] /\ {t} \in SUBSET Tables
    BY <1>3, Shape
  <2> QED
    BY <1>3, <2>1, Shape, SchemaType
<1>5. rec \in QueryRecords /\ rec.pc = "get" /\ rec.floor = acked /\ rec.since = Latest
      /\ rec.loaded = loaded
  BY <1>2, <1>3, <1>4, IdleRecord, Shape DEF Idle, QueryRecords
<1>6. Good(rec)
  BY <1>4, <1>5, Shape DEF Good
<1>7. Goes(q, rec) /\ UNCHANGED <<history, entry, editor, acked, raced>> /\ faults' \in 0 .. MaxFaults
  BY <1>1, <1>2, Records DEF Begin
<1> QED
  BY <1>5, <1>6, <1>7, QuietMove

LEMMA CacheGetKeeps == ASSUME IInv, NEW q \in Queries, CacheGet(q) PROVE IInv'
<1>1. PICK x : x = query[q]
  OBVIOUS
<1>2. x \in QueryRecords /\ x.pc = "get" /\ Good(x)
      /\ UNCHANGED <<history, entry, editor, acked, raced>> /\ faults' \in 0 .. MaxFaults
  BY <1>1, Records DEF CacheGet, IInv
<1>3. entry \in EntryRecords /\ GoodEntry(entry)
  BY Records DEF IInv
<1>4. CASE Hit
  <2>1. PICK rec : rec = [x EXCEPT !.pc = "compile", !.schema = entry.schema,
                                   !.since = entry.since, !.blind = entry.blind]
    OBVIOUS
  <2>2. rec \in QueryRecords /\ rec.pc = "compile" /\ rec.schema = entry.schema
        /\ rec.since = entry.since /\ rec.blind = entry.blind /\ rec.floor = x.floor
    BY <1>2, <1>3, <2>1 DEF QueryRecords, EntryRecords
  <2>3. DOMAIN entry.schema # {} /\ x.floor <= acked /\ x.floor \in Nat
    BY <1>2, <1>4, Shape DEF Hit, Good, QueryRecords
  <2>4. ~entry.blind /\ ~raced => TrueSince(entry.schema, x.floor)
    BY <1>3, <2>3, Shape, TrueLess DEF GoodEntry
  <2>5. ~entry.blind => TrueSince(entry.schema, entry.since)
    BY <1>3, <2>3 DEF GoodEntry
  <2>6. Good(rec)
    BY <2>2, <2>3, <2>4, <2>5 DEF Good
  <2>7. Goes(q, rec)
    BY <1>1, <1>4, <2>1 DEF CacheGet
  <2> QED
    BY <1>2, <2>2, <2>6, <2>7, QuietMove
<1>5. CASE ~Hit
  <2>1. PICK rec : rec = [x EXCEPT !.pc = "list"]
    OBVIOUS
  <2>2. rec \in QueryRecords /\ rec.pc = "list" /\ rec.since = x.since
        /\ rec.floor = x.floor /\ rec.loaded = x.loaded
    BY <1>2, <2>1 DEF QueryRecords
  <2>3. Good(rec)
    BY <1>2, <2>2 DEF Good
  <2>4. Goes(q, rec)
    BY <1>1, <1>5, <2>1 DEF CacheGet
  <2> QED
    BY <1>2, <2>2, <2>3, <2>4, QuietMove
<1> QED
  BY <1>4, <1>5

\* What has been built is true since the request that waits for it began.
LEMMA Built ==
    ASSUME IInv, NEW x \in QueryRecords, Good(x), x.pc = "set", ~x.blind
    PROVE  TrueSince(x.schema, x.since) /\ TrueSince(x.schema, x.floor)
<1>1. x.since \in Nat /\ x.floor \in Nat /\ x.floor <= x.since /\ TrueSince(x.schema, x.since)
  BY Shape DEF Good, QueryRecords
<1> QED
  BY <1>1, TrueLess

LEMMA CacheTimeoutKeeps == ASSUME IInv, NEW q \in Queries, CacheTimeout(q) PROVE IInv'
<1>1. PICK x : x = query[q]
  OBVIOUS
<1>2. x \in QueryRecords /\ x.pc \in {"get", "set"} /\ Good(x)
      /\ UNCHANGED <<history, entry, editor, acked, raced>> /\ faults' \in 0 .. MaxFaults
  BY <1>1, Records DEF CacheTimeout, IInv
<1>3. PICK pc : pc = IF x.pc = "get" THEN "list" ELSE "compile"
  OBVIOUS
<1>4. PICK rec : rec = [x EXCEPT !.pc = pc]
  OBVIOUS
<1>5. rec \in QueryRecords /\ rec.pc = pc /\ rec.since = x.since /\ rec.blind = x.blind
      /\ rec.floor = x.floor /\ rec.loaded = x.loaded /\ rec.schema = x.schema
  BY <1>2, <1>3, <1>4 DEF QueryRecords
<1>6. Good(rec)
  <2>1. CASE x.pc = "get"
    BY <1>2, <1>3, <1>5, <2>1 DEF Good
  <2>2. CASE x.pc = "set"
    BY <1>2, <1>3, <1>5, <2>2, Built DEF Good
  <2> QED
    BY <1>2, <2>1, <2>2
<1>7. Goes(q, rec)
  BY <1>1, <1>2, <1>3, <1>4 DEF CacheTimeout, Goes
<1> QED
  BY <1>2, <1>5, <1>6, <1>7, QuietMove

\* The names are those of the present, or of the time the request began.
LEMMA ListKeeps == ASSUME IInv, NEW q \in Queries, List(q) PROVE IInv'
<1>1. PICK x : x = query[q]
  OBVIOUS
<1>2. x \in QueryRecords /\ x.pc = "list" /\ Good(x)
      /\ UNCHANGED <<history, entry, editor, acked, raced>> /\ faults' \in 0 .. MaxFaults
  BY <1>1, Records DEF List, IInv
<1>3. PICK V : V = Visible(q)
  OBVIOUS
<1>4. PICK schema : schema = Listed(q)
  OBVIOUS
<1>5. V \subseteq Tables /\ (~x.blind => V = {t \in Tables : Now[t]["name"] # None})
  BY <1>1, <1>3 DEF Visible
<1>6. schema = [t \in V |-> [Absent EXCEPT !["name"] =
                    IF t \in DOMAIN x.loaded THEN x.loaded[t]["name"] ELSE Now[t]["name"]]]
  BY <1>1, <1>3, <1>4 DEF Listed
<1>7. schema \in Schemas /\ DOMAIN schema = V
  <2>1. \A t \in V : t \in DOMAIN x.loaded => x.loaded[t] \in Contents
    BY <1>2, SchemaType DEF QueryRecords
  <2>2. \A t \in V : Now[t] \in Contents
    BY <1>5, Shape
  <2>3. ASSUME NEW t \in V
        PROVE  [Absent EXCEPT !["name"] = IF t \in DOMAIN x.loaded THEN x.loaded[t]["name"]
                                          ELSE Now[t]["name"]] \in Contents
    <3>1. PICK v : v = IF t \in DOMAIN x.loaded THEN x.loaded[t]["name"] ELSE Now[t]["name"]
      OBVIOUS
    <3>2. v \in Edits \cup {None}
      BY <2>1, <2>2, <3>1 DEF Contents, Parts
    <3>3. [Absent EXCEPT !["name"] = v] \in Contents
      BY <3>2, SchemaType DEF Contents
    <3> QED
      BY <3>1, <3>3
  <2>4. schema \in [V -> Contents]
    BY <1>6, <2>3
  <2> QED
    BY <1>5, <2>4, SchemaType
<1>8. x.since \in Nat /\ x.since <= Latest
      /\ \A t \in DOMAIN x.loaded : x.loaded[t] = history[x.since + 1][t]
  BY <1>2, Shape DEF Good, QueryRecords
<1>9. ASSUME ~x.blind, NEW t \in Tables
      PROVE  /\ WasTrue(Says(schema, t)["name"], t, "name", x.since)
             /\ t \notin V => WasTrue(Says(schema, t)["columns"], t, "columns", x.since)
  <2>1. CASE t \in V
    <3>1. Says(schema, t) = [Absent EXCEPT !["name"] =
              IF t \in DOMAIN x.loaded THEN x.loaded[t]["name"] ELSE Now[t]["name"]]
      BY <1>6, <1>7, <2>1, SaysOf
    <3>2. Says(schema, t)["name"] =
              IF t \in DOMAIN x.loaded THEN x.loaded[t]["name"] ELSE Now[t]["name"]
      BY <3>1 DEF Absent, Parts
    <3>3. CASE t \in DOMAIN x.loaded
      <4>1. Says(schema, t)["name"] = history[x.since + 1][t]["name"]
        BY <1>8, <3>2, <3>3
      <4>2. x.since \in x.since .. Latest
        BY <1>8, Shape
      <4> QED
        BY <2>1, <4>1, <4>2 DEF WasTrue
    <3>4. CASE t \notin DOMAIN x.loaded
      BY <1>8, <2>1, <3>2, <3>4, TrueNow DEF Parts
    <3> QED
      BY <3>3, <3>4
  <2>2. CASE t \notin V
    <3>1. Now[t] = Absent
      BY <1>5, <1>9, <2>2 DEF IInv
    <3>2. \A part \in Parts : Says(schema, t)[part] = Now[t][part]
      BY <1>7, <2>2, <3>1, SaysOf DEF Absent
    <3>3. \A part \in Parts : WasTrue(Now[t][part], t, part, x.since)
      BY <1>8, TrueNow
    <3> QED
      BY <2>2, <3>2, <3>3 DEF Parts
  <2> QED
    BY <2>1, <2>2
<1>10. PICK pc : pc = IF V = {} THEN "set" ELSE "read"
  OBVIOUS
<1>11. PICK rec : rec = [x EXCEPT !.pc = pc, !.todo = V, !.schema = schema]
  OBVIOUS
<1>12. rec \in QueryRecords /\ rec.pc = pc /\ rec.todo = V /\ rec.schema = schema
       /\ rec.since = x.since /\ rec.floor = x.floor /\ rec.loaded = x.loaded
       /\ rec.blind = x.blind
  BY <1>2, <1>5, <1>7, <1>10, <1>11 DEF QueryRecords
<1>13. V = {} /\ ~x.blind => TrueSince(schema, x.since)
  BY <1>9, TrueMeans DEF Parts
<1>14. \A t \in Tables : ~x.blind =>
         /\ WasTrue(Says(schema, t)["name"], t, "name", x.since)
         /\ t \notin V => WasTrue(Says(schema, t)["columns"], t, "columns", x.since)
  BY <1>9
<1>15. Good(rec)
  BY <1>2, <1>7, <1>10, <1>12, <1>13, <1>14 DEF Good
<1>16. Goes(q, rec)
  BY <1>1, <1>3, <1>4, <1>10, <1>11 DEF List
<1> QED
  BY <1>2, <1>12, <1>15, <1>16, QuietMove

LEMMA ReadKeeps == ASSUME IInv, NEW q \in Queries, Read(q) PROVE IInv'
<1>1. PICK x : x = query[q]
  OBVIOUS
<1>2. x \in QueryRecords /\ x.pc = "read" /\ Good(x)
      /\ UNCHANGED <<history, entry, editor, acked, raced>> /\ faults' \in 0 .. MaxFaults
  BY <1>1, Records DEF Read, IInv
<1>3. PICK t \in x.todo : Goes(q, [x EXCEPT
               !.todo = @ \ {t},
               !.pc = IF x.todo = {t} THEN "set" ELSE "read",
               !.schema[t]["columns"] = IF t \in Visible(q) THEN Now[t]["columns"] ELSE None])
  BY <1>1 DEF Read
<1>4. PICK v : v = IF t \in Visible(q) THEN Now[t]["columns"] ELSE None
  OBVIOUS
<1>5. t \in Tables /\ t \in DOMAIN x.schema /\ DOMAIN x.schema \subseteq Tables
      /\ \A u \in DOMAIN x.schema : x.schema[u] \in Contents
  BY <1>2, SchemaType DEF Good, QueryRecords
<1>6. v \in Edits \cup {None}
  BY <1>4, <1>5, Shape DEF Contents, Parts
<1>7. ~x.blind => v = Now[t]["columns"]
  <2>1. ASSUME ~x.blind, t \notin Visible(q) PROVE Now[t]["columns"] = None
    BY <1>1, <1>5, <2>1 DEF Visible, IInv, Absent, Parts
  <2> QED
    BY <1>4, <2>1
<1>8. PICK schema : schema = [x.schema EXCEPT ![t]["columns"] = v]
  OBVIOUS
<1>9. /\ schema \in Schemas /\ DOMAIN schema = DOMAIN x.schema
      /\ schema[t]["columns"] = v /\ schema[t]["name"] = x.schema[t]["name"]
      /\ \A u \in DOMAIN x.schema : u # t => schema[u] = x.schema[u]
  <2>1. DOMAIN schema = DOMAIN x.schema
    BY <1>8
  <2>2. schema[t] = [x.schema[t] EXCEPT !["columns"] = v]
    BY <1>5, <1>8
  <2>3. \A u \in DOMAIN x.schema : u # t => schema[u] = x.schema[u]
    BY <1>8
  <2>4. schema[t] \in Contents /\ schema[t]["columns"] = v /\ schema[t]["name"] = x.schema[t]["name"]
    BY <1>5, <1>6, <2>2 DEF Contents, Parts
  <2>5. schema \in [DOMAIN x.schema -> Contents]
    <3>1. schema = [u \in DOMAIN x.schema |-> schema[u]]
      BY <1>8
    <3>2. \A u \in DOMAIN x.schema : schema[u] \in Contents
      BY <1>5, <2>3, <2>4
    <3> QED
      BY <3>1, <3>2
  <2> QED
    BY <1>5, <2>1, <2>3, <2>4, <2>5, SchemaType
<1>10. x.since \in Nat /\ x.since <= Latest
  BY <1>2, Shape DEF Good, QueryRecords
<1>11. ASSUME ~x.blind, NEW u \in Tables
       PROVE  /\ WasTrue(Says(schema, u)["name"], u, "name", x.since)
              /\ u \notin x.todo \ {t} =>
                     WasTrue(Says(schema, u)["columns"], u, "columns", x.since)
  <2>1. /\ WasTrue(Says(x.schema, u)["name"], u, "name", x.since)
        /\ u \notin x.todo => WasTrue(Says(x.schema, u)["columns"], u, "columns", x.since)
    BY <1>2, <1>11 DEF Good
  <2>2. CASE u # t
    <3>1. Says(schema, u) = Says(x.schema, u)
      BY <1>9, <2>2 DEF Says
    <3> QED
      BY <2>1, <2>2, <3>1
  <2>3. CASE u = t
    <3>1. Says(schema, t) = schema[t] /\ Says(x.schema, t) = x.schema[t]
      BY <1>5, <1>9, SaysOf
    <3>2. WasTrue(Now[t]["columns"], t, "columns", x.since)
      BY <1>5, <1>10, TrueNow DEF Parts
    <3> QED
      BY <1>7, <1>9, <1>11, <2>1, <2>3, <3>1, <3>2
  <2> QED
    BY <2>2, <2>3
<1>12. PICK pc : pc = IF x.todo = {t} THEN "set" ELSE "read"
  OBVIOUS
<1>13. PICK rec : rec = [x EXCEPT !.todo = @ \ {t}, !.pc = pc, !.schema = schema]
  OBVIOUS
<1>14. rec \in QueryRecords /\ rec.pc = pc /\ rec.todo = x.todo \ {t} /\ rec.schema = schema
       /\ rec.since = x.since /\ rec.floor = x.floor /\ rec.loaded = x.loaded
       /\ rec.blind = x.blind
  BY <1>2, <1>9, <1>12, <1>13 DEF QueryRecords
<1>15. pc = "set" /\ ~x.blind => TrueSince(schema, x.since)
  <2>1. pc = "set" => x.todo \ {t} = {}
    BY <1>12
  <2> QED
    BY <1>11, <2>1, TrueMeans DEF Parts
<1>16. \A u \in Tables : ~x.blind =>
         /\ WasTrue(Says(schema, u)["name"], u, "name", x.since)
         /\ u \notin x.todo \ {t} =>
                WasTrue(Says(schema, u)["columns"], u, "columns", x.since)
  BY <1>11
<1>17. Good(rec)
  BY <1>2, <1>9, <1>12, <1>14, <1>15, <1>16 DEF Good
<1>18. Goes(q, rec)
  <2>1. rec = [x EXCEPT !.todo = @ \ {t}, !.pc = IF x.todo = {t} THEN "set" ELSE "read",
                        !.schema[t]["columns"] = IF t \in Visible(q) THEN Now[t]["columns"] ELSE None]
    BY <1>4, <1>8, <1>12, <1>13
  <2> QED
    BY <1>3, <2>1
<1> QED
  BY <1>2, <1>14, <1>17, <1>18, QuietMove

\* As long as nobody has edited the tables meanwhile, what is stored is the present.
LEMMA CacheSetKeeps == ASSUME IInv, NEW q \in Queries, CacheSet(q) PROVE IInv'
<1>1. PICK x : x = query[q]
  OBVIOUS
<1>2. x \in QueryRecords /\ x.pc = "set" /\ Good(x)
      /\ UNCHANGED <<history, editor, acked, raced>> /\ faults' \in 0 .. MaxFaults
  BY <1>1, Records DEF CacheSet, IInv
<1>3. PICK e : e = [schema |-> x.schema, ttl |-> TTL, since |-> x.since, blind |-> x.blind]
  OBVIOUS
<1>4. e \in EntryRecords /\ entry' = e
  <2>1. e \in EntryRecords
    BY <1>2, <1>3, CacheAssumption DEF EntryRecords, QueryRecords
  <2> QED
    BY <1>1, <1>3, <2>1 DEF CacheSet, Stored
<1>5. GoodEntry(e)
  <2>1. ASSUME ~x.blind, ~raced PROVE TrueSince(x.schema, acked)
    <3>1. x.since = Latest /\ TrueSince(x.schema, x.since)
      BY <1>2, <2>1, Built DEF Good
    <3> QED
      BY <3>1, Shape, TrueLess
  <2> QED
    BY <1>2, <1>3, <2>1, Built DEF GoodEntry
<1>6. PICK rec : rec = [x EXCEPT !.pc = "compile"]
  OBVIOUS
<1>7. rec \in QueryRecords /\ rec.pc = "compile" /\ rec.since = x.since /\ rec.blind = x.blind
      /\ rec.floor = x.floor /\ rec.schema = x.schema
  BY <1>2, <1>6 DEF QueryRecords
<1>8. Good(rec)
  BY <1>2, <1>7, Built DEF Good
<1>9. Goes(q, rec) /\ Still /\ UNCHANGED editor
  BY <1>1, <1>2, <1>6 DEF CacheSet, Still
<1> QED
  BY <1>2, <1>4, <1>5, <1>7, <1>8, <1>9, QueryMove

LEMMA AnswerKeeps == ASSUME IInv, NEW q \in Queries, Answer(q) PROVE IInv'
<1>1. Goes(q, Idle) /\ UNCHANGED <<history, entry, editor, acked, raced>> /\ faults' \in 0 .. MaxFaults
  BY Records DEF Answer
<1> QED
  BY <1>1, IdleRecord, IdleGood, QuietMove

-----------------------------------------------------------------------------
(* Edits. *)

EditorRecords == [pc : {"idle", "invalidate"}, edit : Edits, holds : BOOLEAN]

LEMMA IdleEditorRecord == IdleEditor \in EditorRecords /\ IdleEditor.edit = 0
BY CacheAssumption DEF IdleEditor, EditorRecords, Edits

LEMMA ChangesAre ==
    ASSUME IInv, NEW t \in Tables, Latest < MaxEdits, NEW new \in Changes(t, Latest + 1)
    PROVE  new \in Contents /\ (new["name"] = None => new = Absent)
<1>1. Latest + 1 \in Edits /\ Latest + 1 # None /\ Now[t] \in Contents
  BY Shape DEF Edits, None
<1>2. CASE Now[t]["name"] = None
  <2>1. new = [part \in Parts |-> Latest + 1]
    BY <1>2 DEF Changes
  <2> QED
    BY <1>1, <2>1 DEF Contents, Parts
<1>3. CASE Now[t]["name"] # None
  <2>1. new \in {Absent, [Now[t] EXCEPT !["name"] = Latest + 1],
                 [Now[t] EXCEPT !["columns"] = Latest + 1]}
    BY <1>3 DEF Changes
  <2>2. CASE new = Absent
    BY <2>2, SchemaType
  <2>3. CASE new = [Now[t] EXCEPT !["name"] = Latest + 1]
    <3>1. new \in Contents /\ new["name"] = Latest + 1
      BY <1>1, <2>3 DEF Contents, Parts
    <3> QED
      BY <1>1, <3>1
  <2>4. CASE new = [Now[t] EXCEPT !["columns"] = Latest + 1]
    <3>1. new \in Contents /\ new["name"] = Now[t]["name"]
      BY <1>1, <2>4 DEF Contents, Parts
    <3> QED
      BY <1>3, <3>1
  <2> QED
    BY <2>1, <2>2, <2>3, <2>4
<1> QED
  BY <1>2, <1>3

LEMMA CommitKeeps == ASSUME IInv, NEW e \in Editors, Commit(e) PROVE IInv'
<1>1. /\ Latest < MaxEdits
      /\ UNCHANGED <<entry, query, acked, faults>>
  BY DEF Commit
<1>2. PICK t \in Tables : \E new \in Changes(t, Latest + 1) :
        /\ history' = Append(history, [Now EXCEPT ![t] = new])
        /\ editor' = [editor EXCEPT ![e] = [pc |-> "invalidate", edit |-> Latest + 1,
                  holds |-> Now[t]["name"] # None /\ new["columns"] = Latest + 1]]
  BY DEF Commit
<1>2a. PICK new \in Changes(t, Latest + 1) :
        /\ history' = Append(history, [Now EXCEPT ![t] = new])
        /\ editor' = [editor EXCEPT ![e] = [pc |-> "invalidate", edit |-> Latest + 1,
                  holds |-> Now[t]["name"] # None /\ new["columns"] = Latest + 1]]
  BY <1>2
<1>3. raced' \in BOOLEAN /\ (raced => raced')
      /\ ((\E q \in Queries : Building(q)) => raced')
  BY Zenon DEF Commit, IInv, TypeOK
<1>4. new \in Contents /\ (new["name"] = None => new = Absent)
  BY <1>1, <1>2a, ChangesAre
<1>5. PICK next : next = [Now EXCEPT ![t] = new]
  OBVIOUS
<1>6. next \in [Tables -> Contents] /\ next[t] = new
      /\ \A u \in Tables \ {t} : next[u] = Now[u]
  BY <1>4, <1>5, Shape
<1>7. /\ history' \in Seq([Tables -> Contents]) /\ Len(history') = Len(history) + 1
      /\ history'[Len(history) + 1] = next
      /\ \A k \in 1 .. Len(history) : history'[k] = history[k]
  BY <1>2a, <1>5, <1>6, Shape
<1>8. Latest' = Latest + 1 /\ Now' = next
  BY <1>7, Shape DEF Latest, Now
<1>9. \A k \in 0 .. Latest : history'[k + 1] = history[k + 1]
  BY <1>7, Shape
<1>10. Grows
  BY <1>1, <1>3, <1>8, <1>9, Shape DEF Grows
<1>11. PICK holds \in BOOLEAN :
         editor' = [editor EXCEPT ![e] = [pc |-> "invalidate", edit |-> Latest + 1, holds |-> holds]]
  BY <1>2a, Zenon
<1>12. Latest + 1 \in Edits
  BY <1>1, Shape DEF Edits
<1>13. editor' \in [Editors -> EditorRecords] /\ \A d \in Editors : editor'[d].edit <= Latest'
  <2>1. [pc |-> "invalidate", edit |-> Latest + 1, holds |-> holds] \in EditorRecords
    BY <1>12 DEF EditorRecords
  <2>2. editor \in [Editors -> EditorRecords] /\ \A d \in Editors : editor[d].edit <= Latest
        /\ \A f \in Editors : editor[f].edit \in Nat
    BY Shape DEF IInv, TypeOK, EditorRecords
  <2> QED
    BY <1>8, <1>11, <2>1, <2>2, Shape
<1>14. TypeOK'
  <2>1. Len(history') \in 1 .. MaxEdits + 1
    BY <1>1, <1>7, Shape
  <2> QED
    BY <1>1, <1>3, <1>7, <1>13, <2>1 DEF IInv, TypeOK, EditorRecords
<1>15. ASSUME NEW q \in Queries PROVE Good(query[q])'
  <2>1. PICK rec : rec = query[q]
    OBVIOUS
  <2>2. rec \in QueryRecords /\ Good(rec)
        /\ (rec.pc \in {"get", "list", "read", "set"} => raced')
    BY <1>3, <2>1, Records DEF IInv, Building
  <2>3. Good(rec)'
    BY <1>10, <2>2, GoodStays
  <2>4. query'[q] = rec
    BY <1>1, <2>1
  <2>5. Good(rec)' <=> Good(query[q])'
    BY <2>4 DEF Good, WasTrue, TrueSince, Says, Absent
  <2> QED
    BY <2>3, <2>5
<1>16. GoodEntry(entry)'
  <2>1. PICK x : x = entry
    OBVIOUS
  <2>2. GoodEntry(x)'
    BY <1>1, <1>10, <2>1, EntryStays, Records DEF IInv
  <2>3. GoodEntry(x)' <=> GoodEntry(entry)'
    BY <1>1, <2>1 DEF GoodEntry, TrueSince, Says, Absent
  <2> QED
    BY <2>2, <2>3
<1>17. (\A u \in Tables : Now[u]["name"] = None => Now[u] = Absent)'
  <2>1. \A u \in Tables : next[u]["name"] = None => next[u] = Absent
    BY <1>4, <1>6 DEF IInv
  <2> QED
    BY <1>8, <2>1 DEF Absent
<1>18. (acked <= Latest)'
  BY <1>10 DEF Grows
<1> QED
  BY <1>13, <1>14, <1>15, <1>16, <1>17, <1>18 DEF IInv

\* An edit is acknowledged; its invalidation has emptied the entry, or has failed.
LEMMA AcknowledgeMove ==
    ASSUME IInv, NEW e \in Editors, Acknowledge(e), UNCHANGED <<history, query, faults>>,
           raced' \in BOOLEAN, raced => raced',
           entry' = NoEntry \/ (entry' = entry /\ raced')
    PROVE  IInv'
<1>1. /\ editor' = [editor EXCEPT ![e] = IdleEditor]
      /\ acked' \in {acked, editor[e].edit} /\ acked <= acked'
      /\ editor[e].edit \in Edits /\ editor[e].edit <= Latest
  BY Shape DEF Acknowledge, IInv, TypeOK
<1>2. Latest' = Latest /\ Now' = Now
  BY DEF Latest, Now
<1>3. Grows
  BY <1>1, <1>2, Shape DEF Grows
<1>4. editor' \in [Editors -> EditorRecords] /\ \A d \in Editors : editor'[d].edit <= Latest'
  BY <1>1, <1>2, IdleEditorRecord, Shape DEF IInv, TypeOK, EditorRecords
<1>5. entry' \in EntryRecords
  BY EmptyGood, Records
<1>6. TypeOK'
  BY <1>1, <1>4, <1>5, Shape DEF IInv, TypeOK, EditorRecords, EntryRecords
<1>7. ASSUME NEW q \in Queries PROVE Good(query[q])'
  <2>1. PICK rec : rec = query[q]
    OBVIOUS
  <2>2. Good(rec)'
    BY <1>2, <1>3, <2>1, GoodStays, Records DEF IInv
  <2>3. Good(rec)' <=> Good(query[q])'
    BY <2>1 DEF Good, WasTrue, TrueSince, Says, Absent
  <2> QED
    BY <2>2, <2>3
<1>8. GoodEntry(entry)'
  <2>1. CASE entry' = NoEntry
    <3>1. DOMAIN entry'.schema = {}
      BY <2>1, SchemaType DEF NoEntry
    <3> QED
      BY <3>1 DEF GoodEntry
  <2>2. CASE entry' = entry /\ raced'
    <3>1. PICK x : x = entry
      OBVIOUS
    <3>2. GoodEntry(x)'
      BY <1>3, <2>2, <3>1, EntryStays, Records DEF IInv
    <3>3. GoodEntry(x)' <=> GoodEntry(entry)'
      BY <2>2, <3>1 DEF GoodEntry, TrueSince, Says, Absent
    <3> QED
      BY <3>2, <3>3
  <2> QED
    BY <2>1, <2>2
<1>9. (\A u \in Tables : Now[u]["name"] = None => Now[u] = Absent)'
  BY <1>2 DEF IInv, Absent
<1>10. (acked <= Latest)'
  BY <1>3 DEF Grows
<1> QED
  BY <1>4, <1>6, <1>7, <1>8, <1>9, <1>10 DEF IInv

LEMMA EditorKeeps == ASSUME IInv, NEW e \in Editors, EditorStep(e) PROVE IInv'
<1>1. CASE Invalidate(e)
  <2>1. Acknowledge(e) /\ UNCHANGED <<history, query, raced, faults>> /\ entry' = NoEntry
    BY <1>1 DEF Invalidate
  <2> QED
    BY <2>1, AcknowledgeMove, Records
<1>2. CASE InvalidateTimeout(e)
  <2>1. Acknowledge(e) /\ UNCHANGED <<history, query, entry, faults>> /\ raced' = TRUE
    BY <1>2 DEF InvalidateTimeout
  <2> QED
    BY <2>1, AcknowledgeMove
<1> QED
  BY <1>1, <1>2 DEF EditorStep

-----------------------------------------------------------------------------
(* The environment. *)

LEMMA EditorsStay ==
    ASSUME IInv
    PROVE  /\ editor \in [Editors -> EditorRecords] /\ \A d \in Editors : editor[d].edit <= Latest
           /\ query \in [Queries -> QueryRecords] /\ \A q \in Queries : Good(query[q])
BY DEF IInv, TypeOK, EditorRecords

LEMMA TickKeeps == ASSUME IInv, Tick PROVE IInv'
<1>1. PICK e : e = [entry EXCEPT !.ttl = @ - 1]
  OBVIOUS
<1>2. entry.ttl \in 0 .. TTL /\ entry.ttl > 0 /\ TTL \in Nat
  BY CacheAssumption, Records DEF Tick, EntryRecords
<1>3. e \in EntryRecords /\ e.schema = entry.schema /\ e.since = entry.since /\ e.blind = entry.blind
  BY <1>1, <1>2, Records DEF EntryRecords
<1>4. GoodEntry(e)
  BY <1>3 DEF GoodEntry, IInv
<1>5. entry' = e /\ Still /\ UNCHANGED <<query, editor>> /\ faults' \in 0 .. MaxFaults
  BY <1>1, Records DEF Tick, Still
<1> QED
  BY <1>3, <1>4, <1>5, EditorsStay, StillMove DEF EditorRecords

LEMMA FaultyType ==
    ASSUME IInv, Faulty
    PROVE  faults' \in 0 .. MaxFaults /\ UNCHANGED <<history, acked>>
BY CacheAssumption, Records DEF Faulty

LEMMA CancelKeeps == ASSUME IInv, Cancel PROVE IInv'
<1>1. Still /\ entry' = entry /\ faults' \in 0 .. MaxFaults
      /\ entry \in EntryRecords /\ GoodEntry(entry)
  BY FaultyType, Records DEF Cancel, Still, IInv
<1>2. ASSUME NEW q \in Queries, Goes(q, Idle), UNCHANGED editor PROVE IInv'
  BY <1>1, <1>2, IdleRecord, IdleGood, QueryMove
<1>3. ASSUME NEW e \in Editors, editor' = [editor EXCEPT ![e] = IdleEditor], UNCHANGED query
      PROVE  IInv'
  <2>1. editor' \in [Editors -> EditorRecords] /\ \A d \in Editors : editor'[d].edit <= Latest
    BY <1>3, IdleEditorRecord, EditorsStay, Shape
  <2> QED
    BY <1>1, <1>3, <2>1, EditorsStay, StillMove DEF EditorRecords
<1> QED
  BY <1>2, <1>3 DEF Cancel

LEMMA RevokeKeeps == ASSUME IInv, Revoke PROVE IInv'
<1>1. Still /\ entry' = entry /\ faults' \in 0 .. MaxFaults /\ UNCHANGED editor
      /\ entry \in EntryRecords /\ GoodEntry(entry)
  BY FaultyType, Records DEF Revoke, Still, IInv
<1>2. PICK q \in Queries : query[q].pc \in {"get", "list", "read"}
                           /\ Goes(q, [query[q] EXCEPT !.blind = TRUE])
  BY DEF Revoke
<1>3. PICK x : x = query[q]
  OBVIOUS
<1>4. x \in QueryRecords /\ Good(x) /\ x.pc \in {"get", "list", "read"}
  BY <1>2, <1>3, Records DEF IInv
<1>5. PICK rec : rec = [x EXCEPT !.blind = TRUE]
  OBVIOUS
<1>6. rec \in QueryRecords /\ rec.pc = x.pc /\ rec.since = x.since /\ rec.floor = x.floor
      /\ rec.loaded = x.loaded /\ rec.schema = x.schema /\ rec.todo = x.todo /\ rec.blind = TRUE
  BY <1>4, <1>5 DEF QueryRecords
<1>7. Good(rec)
  BY <1>4, <1>6 DEF Good
<1>8. Goes(q, rec)
  BY <1>2, <1>3, <1>5
<1> QED
  BY <1>1, <1>6, <1>7, <1>8, QueryMove

LEMMA CrashKeeps == ASSUME IInv, Crash PROVE IInv'
<1>1. Still /\ entry' = NoEntry /\ faults' \in 0 .. MaxFaults
  BY FaultyType DEF Crash, Still
<1>2. query' \in [Queries -> QueryRecords] /\ \A q \in Queries : Good(query'[q])
  BY IdleRecord, IdleGood DEF Crash
<1>3. editor' \in [Editors -> EditorRecords] /\ \A d \in Editors : editor'[d].edit <= Latest
  BY IdleEditorRecord, Shape DEF Crash
<1> QED
  BY <1>1, <1>2, <1>3, EmptyGood, StillMove DEF EditorRecords

LEMMA StutterKeeps == ASSUME IInv, UNCHANGED vars PROVE IInv'
<1>1. Still /\ entry' = entry /\ UNCHANGED <<query, editor>> /\ faults' \in 0 .. MaxFaults
      /\ entry \in EntryRecords /\ GoodEntry(entry)
  BY Records DEF vars, Still, IInv
<1> QED
  BY <1>1, EditorsStay, StillMove DEF EditorRecords

-----------------------------------------------------------------------------
(* The specification. *)

LEMMA InitHolds == Init => IInv
<1> SUFFICES ASSUME Init PROVE IInv
  OBVIOUS
<1>1. PICK first : first = [t \in Tables |-> [part \in Parts |-> 0]]
  OBVIOUS
<1>2. first \in [Tables -> Contents] /\ \A t \in Tables : first[t]["name"] # None
  BY <1>1, CacheAssumption DEF Contents, Edits, Parts, None
<1>3. /\ history = <<first>> /\ history \in Seq([Tables -> Contents]) /\ Len(history) = 1
      /\ history[1] = first
  BY <1>1, <1>2 DEF Init
<1>4. Latest = 0 /\ Now = first
  BY <1>3 DEF Latest, Now
<1>5. TypeOK
  <2>1. query \in [Queries -> QueryRecords]
    BY IdleRecord DEF Init
  <2>2. editor \in [Editors -> EditorRecords]
    BY IdleEditorRecord DEF Init
  <2>3. entry \in EntryRecords
    BY EmptyGood DEF Init
  <2>4. acked \in Edits /\ faults \in 0 .. MaxFaults /\ Len(history) \in 1 .. MaxEdits + 1
    BY <1>3, CacheAssumption DEF Init, Edits
  <2>5. raced \in BOOLEAN
    BY Zenon DEF Init
  <2> QED
    BY <1>3, <2>1, <2>2, <2>3, <2>4, <2>5 DEF TypeOK, EditorRecords, EntryRecords
<1>6. acked <= Latest /\ \A e \in Editors : editor[e].edit <= Latest
  BY <1>4, IdleEditorRecord DEF Init
<1>7. \A t \in Tables : Now[t]["name"] = None => Now[t] = Absent
  BY <1>2, <1>4
<1>8. GoodEntry(entry)
  BY EmptyGood DEF Init
<1>9. \A q \in Queries : Good(query[q])
  <2>1. \A q \in Queries : query[q] = Idle
    BY DEF Init
  <2>2. Good(Idle)
    BY IdleRecord DEF Init, Good
  <2> QED
    BY <2>1, <2>2
<1> QED
  BY <1>5, <1>6, <1>7, <1>8, <1>9 DEF IInv

LEMMA NextKeeps == IInv /\ [Next]_vars => IInv'
<1> SUFFICES ASSUME IInv, [Next]_vars PROVE IInv'
  OBVIOUS
<1>1. ASSUME NEW q \in Queries, Begin(q) \/ QueryStep(q) PROVE IInv'
  BY <1>1, BeginKeeps, CacheGetKeeps, CacheTimeoutKeeps, ListKeeps, ReadKeeps, CacheSetKeeps,
     AnswerKeeps DEF QueryStep
<1>2. ASSUME NEW e \in Editors, Commit(e) \/ EditorStep(e) PROVE IInv'
  BY <1>2, CommitKeeps, EditorKeeps
<1> QED
  BY <1>1, <1>2, TickKeeps, CancelKeeps, RevokeKeeps, CrashKeeps, StutterKeeps DEF Next

\* The inductive invariant of the cache and of the queries at work.
THEOREM Invariant == Spec => []IInv
BY InitHolds, NextKeeps, PTL DEF Spec

\* Types, for any tables, queries and editors.
THEOREM TypeCorrect == Spec => []TypeOK
<1>1. IInv => TypeOK
  BY DEF IInv
<1> QED
  BY <1>1, Invariant, PTL

\* A query compiles against parts that were each true since its schema's build
\* began, and against every acknowledged edit unless an edit met a build or an
\* invalidation was lost.
THEOREM ServesTheTruth == Spec => []ServedWasTrue
<1>1. IInv => ServedWasTrue
  BY DEF IInv, Good, ServedWasTrue
<1> QED
  BY <1>1, Invariant, PTL
=============================================================================
