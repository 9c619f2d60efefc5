------------------------------ MODULE TableViews ------------------------------
(***************************************************************************)
(* The views of one table: its rows of public.table_views, and view_order  *)
(* and default_view in the config of its row in public.tables.  The        *)
(* functions are create_view, delete_view, update_view,                    *)
(* update_default_view (V71) and update_view_order (V69), called through   *)
(* router/api/tables/views.py and PATCH /tables/{table_id}.                *)
(*                                                                         *)
(* Each runs in one READ COMMITTED transaction; one action here is one     *)
(* statement.  The last statement and the commit are one action: all end   *)
(* with a write of one row, which waits for that row and uses its latest   *)
(* version.  A view row written earlier in the transaction stays locked    *)
(* and its change invisible until then.                                    *)
(*                                                                         *)
(* The clients are pages of the frontend (table-page.svelte.ts).  A page   *)
(* has a copy of the schema, which every reply replaces, and two lines of  *)
(* requests: the queue of configuration writes, which begins a write when  *)
(* the one before it has been answered, and everything else.               *)
(***************************************************************************)
EXTENDS Naturals, Sequences, SequencesExt, FiniteSets

CONSTANTS
    Pages,          \* browser pages that show the table
    MaxView,        \* bound: the largest view id
    Fields,         \* keys of a view's config
    Values,         \* what a key may hold; a key the config lacks holds Absent
    Absent,
    MaxAsked,       \* bound: requests in a behaviour
    MaxFailures     \* bound: failed requests and lost replies

ASSUME ViewsAssumption ==
    /\ Pages # {} /\ Fields # {}
    /\ MaxView \in Nat \ {0} /\ MaxAsked \in Nat /\ MaxFailures \in Nat
    /\ Absent \notin Values

Views == 1 .. MaxView
Configs == [Fields -> Values \cup {Absent}]
Patches == UNION {[F -> Values \cup {Absent}] : F \in SUBSET Fields}
NoView == [f \in {} |-> Absent]
NoKeys == [f \in Fields |-> Absent]

\* What a user changes at a time: one key, which may become undefined.
Changes == {[g \in {f} |-> x] : f \in Fields, x \in Values \cup {Absent}}

\* The two lines of a page, each with one request at a time.
Lines == Pages \X {"queue", "direct"}
Page(e) == e[1]
QueueOf(p) == <<p, "queue">>

VARIABLES
    views,      \* committed rows of table_views: per id the config, or NoView
    order,      \* config.view_order
    default,    \* config.default_view, 0 for the implicit Schema view
    schema,     \* per page: the schema in the last reply it applied
    queue,      \* per page: the configuration writes that wait for their turn
    request,    \* per line: its request
    disturbed,  \* history: requests have overlapped, one has failed half-way, or
                \* a client has acted on a list that was out of date
    asked,      \* requests so far
    failures    \* failures so far

viewsVars == <<views, order, default, schema, queue, request, disturbed, asked, failures>>

Exists(v) == views[v] # NoView
Existing == {v \in Views : Exists(v)}

NoViews == [v \in Views |-> NoView]

NoRequest == [pc |-> "idle", view |-> 0, edit |-> NoView, patch |-> NoView, row |-> NoView,
         parts |-> {}, order |-> <<>>, default |-> 0, read |-> NoViews]

Lists == Seq(Views)

\* A schema as a page keeps it: its views in their order, and their configs.
Schemas == [list : Lists, config : [Views -> Configs \cup {NoView}]]

\* A queued write: a change of a view's config, or the default view.
Edits == [op : {"config", "default"}, view : 0 .. MaxView, change : Patches]

ViewRequests ==
    [pc : {"idle", "insert", "append", "lock", "read", "strip", "patch", "merge",
           "order", "check", "default", "readConfig", "readViews", "reply"},
     view : 0 .. MaxView,                    \* the view it is about
     edit : Patches,                         \* queued: the change the user asked for
     patch : Patches, row : Patches,         \* update_view: the patch, the row it read
     parts : SUBSET {"order", "default"},    \* PATCH: what is left to do
     order : Lists, default : 0 .. MaxView,  \* the config it has read or was sent
     read : [Views -> Configs \cup {NoView}]] \* the views in its reply

ViewsTypeOK ==
    /\ views \in [Views -> Configs \cup {NoView}]
    /\ order \in Lists
    /\ default \in 0 .. MaxView
    /\ schema \in [Pages -> Schemas]
    /\ queue \in [Pages -> Seq(Edits)]
    /\ request \in [Lines -> ViewRequests]
    /\ disturbed \in BOOLEAN
    /\ asked \in 0 .. MaxAsked
    /\ failures \in 0 .. MaxFailures

\* A table of the workflow template: one view, in the order, and the default.
ViewsInit ==
    /\ \E c \in Configs : views = [v \in Views |-> IF v = 1 THEN c ELSE NoView]
    /\ order = <<1>>
    /\ default = 1
    /\ schema = [p \in Pages |-> [list |-> <<1>>, config |-> views]]
    /\ queue = [p \in Pages |-> <<>>]
    /\ request = [e \in Lines |-> NoRequest]
    /\ disturbed = FALSE
    /\ asked = 0
    /\ failures = 0

-----------------------------------------------------------------------------
\* Rows of table_views that another open transaction has written or locked.
Holds(e, v) == request[e].view = v /\ request[e].pc \in {"append", "read", "strip", "merge"}
Held(e, v) == \E o \in Lines \ {e} : Holds(o, v)

\* The lines at work, and whether a page shows the committed schema.
Busy == {e \in Lines : request[e].pc # "idle"}
        \cup {QueueOf(p) : p \in {q \in Pages : queue[q] # <<>>}}
UpToDate(p) == schema[p] = [list |-> order, config |-> views]

Asks(e, record) ==
    /\ e[2] = "direct" /\ request[e].pc = "idle" /\ asked < MaxAsked
    /\ request' = [request EXCEPT ![e] = record]
    /\ asked' = asked + 1
    /\ disturbed' = (disturbed \/ Busy # {} \/ ~UpToDate(Page(e)))
    /\ UNCHANGED <<views, order, default, schema, queue, failures>>

\* A statement that writes nothing: the request goes on, or ends with an error.
Reads(e, record) ==
    /\ request' = [request EXCEPT ![e] = record]
    /\ UNCHANGED <<views, order, default, schema, queue, disturbed, asked, failures>>

\* What is left of a request after its commit: the reply.
Replying == [NoRequest EXCEPT !.pc = "readConfig"]

\* The row in public.tables is written and the transaction committed.
Commits(e, newViews, newOrder, newDefault, record) ==
    /\ views' = newViews /\ order' = newOrder /\ default' = newDefault
    /\ request' = [request EXCEPT ![e] = record]
    /\ UNCHANGED <<schema, queue, disturbed, asked, failures>>

\* The elements of a list that belong to a set, in the order of the list.
Kept(list, S) ==
    LET K[n \in 0 .. Len(list)] ==
            IF n = 0 THEN <<>>
            ELSE IF list[n] \in S THEN Append(K[n - 1], list[n]) ELSE K[n - 1]
    IN  K[Len(list)]

-----------------------------------------------------------------------------
(* create_view *)

\* trg_set_view_id_fn: one more than the largest committed id.
NextView == IF Existing = {} THEN 1 ELSE 1 + Max(Existing)

\* handleAddView: without any of the keys.
BeginCreate(e) ==
    /\ NextView \in Views
    /\ Asks(e, [NoRequest EXCEPT !.pc = "insert", !.view = NextView, !.patch = NoKeys])

\* The primary key: the INSERT waits for a transaction that has inserted or
\* deleted the same id, and fails when that one leaves a row behind.
InsertView(e) ==
    /\ request[e].pc = "insert" /\ ~Held(e, request[e].view)
    /\ Reads(e, IF Exists(request[e].view) THEN NoRequest
                ELSE [request[e] EXCEPT !.pc = "append"])

AppendToOrder(e) ==
    /\ request[e].pc = "append"
    /\ Commits(e, [views EXCEPT ![request[e].view] = request[e].patch],
                  Append(order, request[e].view), default, Replying)

-----------------------------------------------------------------------------
(* delete_view *)

BeginDelete(e, v) == Asks(e, [NoRequest EXCEPT !.pc = "lock", !.view = v])

\* The DELETE waits for the row; without a row it is an error (404).
DeleteRow(e) ==
    /\ request[e].pc = "lock" /\ ~Held(e, request[e].view)
    /\ Reads(e, IF Exists(request[e].view) THEN [request[e] EXCEPT !.pc = "read"]
                ELSE NoRequest)

ReadConfig(e) ==
    /\ request[e].pc = "read"
    /\ Reads(e, [request[e] EXCEPT !.pc = "strip", !.order = order, !.default = default])

Without(list, v) == Kept(list, Views \ {v})

\* Variant: the view stays in the order.
StripDefaultOnly(e) ==
    /\ request[e].pc = "strip"
    /\ LET v == request[e].view
       IN Commits(e, [views EXCEPT ![v] = NoView], request[e].order,
                     IF request[e].default = v THEN 0 ELSE request[e].default, Replying)

\* Both keys are overwritten by what follows from the config it read.
StripConfig(e) ==
    /\ request[e].pc = "strip"
    /\ LET v == request[e].view
       IN Commits(e, [views EXCEPT ![v] = NoView], Without(request[e].order, v),
                     IF request[e].default = v THEN 0 ELSE request[e].default, Replying)

-----------------------------------------------------------------------------
(* update_view *)

Merge(config, patch) == [f \in Fields |-> IF f \in DOMAIN patch THEN patch[f] ELSE config[f]]

BeginUpdate(e, v, patch) ==
    Asks(e, [NoRequest EXCEPT !.pc = "patch", !.view = v, !.patch = patch])

\* Variant: SELECT without FOR UPDATE, so that the merge may start from a stale row.
SelectUnlocked(e) ==
    /\ request[e].pc = "patch"
    /\ Reads(e, IF Exists(request[e].view)
                THEN [request[e] EXCEPT !.pc = "merge", !.row = views[request[e].view]]
                ELSE NoRequest)

\* SELECT ... FOR UPDATE waits for the row; without a row it is an error (404).
SelectForUpdate(e) ==
    /\ request[e].pc = "patch" /\ ~Held(e, request[e].view)
    /\ Reads(e, IF Exists(request[e].view)
                THEN [request[e] EXCEPT !.pc = "merge", !.row = views[request[e].view]]
                ELSE NoRequest)

WriteView(e) ==
    /\ request[e].pc = "merge"
    /\ Commits(e, [views EXCEPT ![request[e].view] = Merge(request[e].row, request[e].patch)],
                  order, default, Replying)

-----------------------------------------------------------------------------
(* PATCH /tables/{table_id}: view_order and then default_view, each in a      *)
(* transaction of its own.                                                    *)

\* patch_schema does the parts that are left, in this order.
Patching(e, parts) ==
    IF parts = {} THEN Replying
    ELSE [request[e] EXCEPT !.parts = parts,
                            !.pc = IF "order" \in parts THEN "order" ELSE "check"]

\* A drag takes one of the views the editor sees to another place.
Dragged(list, i, j) == InsertAt(RemoveAt(list, i), j, list[i])

BeginPatch(e, parts, newOrder, v) ==
    Asks(e, [NoRequest EXCEPT !.pc = "order", !.parts = parts, !.order = newOrder, !.view = v])

\* update_view_order stores whatever list the caller sent.
WriteOrder(e) ==
    /\ request[e].pc = "order"
    /\ Commits(e, views, request[e].order, default, Patching(e, request[e].parts \ {"order"}))

\* update_default_view: an id without a view is an error (400), with what the
\* earlier part wrote already committed.
CheckDefault(e) ==
    /\ request[e].pc = "check"
    /\ Reads(e, IF request[e].view = 0 \/ Exists(request[e].view)
                THEN [request[e] EXCEPT !.pc = "default"] ELSE NoRequest)

WriteDefault(e) ==
    /\ request[e].pc = "default"
    /\ Commits(e, views, order, request[e].view, Patching(e, request[e].parts \ {"default"}))

-----------------------------------------------------------------------------
(* get_tables_schema: two statements after the commit; the page replaces its *)
(* copy of the schema when the reply arrives.                                *)

\* Opening the page again is a request without a write.
BeginReload(e) == Asks(e, Replying)

ReplyConfig(e) ==
    /\ request[e].pc = "readConfig"
    /\ Reads(e, [NoRequest EXCEPT !.pc = "readViews", !.order = order])

\* schema_from_config: the views in view_order, then those that it lacks.
SchemaViews(list) ==
    Kept(list, Existing) \o Kept([v \in Views |-> v], Existing \ Range(list))

ReplyViews(e) ==
    /\ request[e].pc = "readViews"
    /\ Reads(e, [NoRequest EXCEPT !.pc = "reply", !.order = SchemaViews(request[e].order),
                                  !.read = views])

\* applySchema: in the order in which the replies arrive.
ApplySchema(e) ==
    /\ request[e].pc = "reply"
    /\ schema' = [schema EXCEPT ![Page(e)] = [list |-> request[e].order,
                                                config |-> request[e].read]]
    /\ request' = [request EXCEPT ![e] = NoRequest]
    /\ UNCHANGED <<views, order, default, queue, disturbed, asked, failures>>

\* The request fails, or its reply is lost.  The queue goes on with the next write.
Fails(e) ==
    /\ request[e].pc # "idle" /\ failures < MaxFailures
    /\ request' = [request EXCEPT ![e] = NoRequest]
    /\ failures' = failures + 1
    /\ disturbed' = TRUE
    /\ UNCHANGED <<views, order, default, schema, queue, asked>>

-----------------------------------------------------------------------------
(* The queue of configuration writes.                                        *)

\* enqueueConfigWrite: the page's own queue may be at work.
Enqueue(p, edit) ==
    /\ asked < MaxAsked
    /\ queue' = [queue EXCEPT ![p] = Append(@, edit)]
    /\ asked' = asked + 1
    /\ disturbed' = (disturbed \/ Busy \ {QueueOf(p)} # {} \/ (Busy = {} /\ ~UpToDate(p)))
    /\ UNCHANGED <<views, order, default, schema, request, failures>>

\* JSON.stringify leaves out what is undefined.
Sent(config) == [f \in {g \in DOMAIN config : config[g] # Absent} |-> config[f]]

\* The request of a queued write: the whole config the page shows at this moment,
\* with the change in it.  A view that the page no longer shows is an error.
QueuedRequest(p, edit) ==
    IF edit.op = "default"
    THEN [NoRequest EXCEPT !.pc = "check", !.view = edit.view, !.parts = {"default"}]
    ELSE IF edit.view \notin Range(schema[p].list) THEN NoRequest
    ELSE [NoRequest EXCEPT !.pc = "patch", !.view = edit.view, !.edit = edit.change,
                      !.patch = Sent(Merge(schema[p].config[edit.view], edit.change))]

\* Variant: a write does not wait for the reply to the one before it.
DequeueAtOnce(p) ==
    /\ queue[p] # <<>> /\ request[QueueOf(p)].pc \in {"idle", "readConfig", "readViews", "reply"}
    /\ queue' = [queue EXCEPT ![p] = Tail(@)]
    /\ request' = [request EXCEPT ![QueueOf(p)] = QueuedRequest(p, Head(queue[p]))]
    /\ UNCHANGED <<views, order, default, schema, disturbed, asked, failures>>

Dequeue(p) ==
    /\ queue[p] # <<>> /\ request[QueueOf(p)].pc = "idle"
    /\ queue' = [queue EXCEPT ![p] = Tail(@)]
    /\ request' = [request EXCEPT ![QueueOf(p)] = QueuedRequest(p, Head(queue[p]))]
    /\ UNCHANGED <<views, order, default, schema, disturbed, asked, failures>>

\* Sort, group, filter, order and widths of columns, and choosing a tab.
Configure(p) ==
    \/ \E v \in Range(schema[p].list), c \in Changes :
           Enqueue(p, [op |-> "config", view |-> v, change |-> c])
    \/ \E v \in {0} \cup Range(schema[p].list) :
           Enqueue(p, [op |-> "default", view |-> v, change |-> NoView])

-----------------------------------------------------------------------------
\* A client names the views it sees.  What does not go through the queue: creating,
\* deleting and dragging views, boards and timelines, which send the whole config they
\* show, and callers of the API, who can also remove a key (null).
Begin(e) ==
    LET list == schema[Page(e)].list
        Whole(v, change) == Sent(Merge(schema[Page(e)].config[v], change))
    IN  \/ BeginReload(e)
        \/ BeginCreate(e)
        \/ \E v \in Range(list) :
               \/ BeginDelete(e, v)
               \/ \E c \in Changes : BeginUpdate(e, v, Whole(v, c))
               \/ \E f \in Fields : BeginUpdate(e, v, [g \in {f} |-> Absent])
        \/ \E i, j \in DOMAIN list :
               \/ BeginPatch(e, {"order"}, Dragged(list, i, j), 0)
               \/ \E v \in {0} \cup Range(list) :
                      BeginPatch(e, {"order", "default"}, Dragged(list, i, j), v)

ViewsNext ==
    \/ \E e \in Lines :
        \/ Begin(e)
        \/ InsertView(e) \/ AppendToOrder(e)
        \/ DeleteRow(e) \/ ReadConfig(e) \/ StripConfig(e)
        \/ SelectForUpdate(e) \/ WriteView(e)
        \/ WriteOrder(e) \/ CheckDefault(e) \/ WriteDefault(e)
        \/ ReplyConfig(e) \/ ReplyViews(e) \/ ApplySchema(e)
        \/ Fails(e)
    \/ \E p \in Pages : Configure(p) \/ Dequeue(p)

ViewsSpec == ViewsInit /\ [][ViewsNext]_viewsVars
-----------------------------------------------------------------------------
(* Properties. *)

\* view_order lists every view of the table, once, and nothing else.
OrderIsTheViews == Range(order) = Existing /\ IsInjective(order)

\* The default view is the implicit Schema view or exists.
DefaultExists == default = 0 \/ Exists(default)

\* Pages that take turns, know what they change and get their replies keep all of
\* it in agreement: the views, the config, and what the last page shows.  A page
\* may fill its own queue while it is at work.
TakingTurns ==
    ~disturbed =>
        /\ OrderIsTheViews /\ DefaultExists
        /\ Busy = {} => \E p \in Pages : UpToDate(p)

\* A queued write sends the whole config, and yet changes only what its user asked
\* for: if nobody else is at work, what the page shows when a write leaves the queue
\* holds every earlier write of that queue.
QueueMerges ==
    \A e \in Lines :
        ~disturbed /\ request[e].pc = "merge" /\ e[2] = "queue" /\ views' # views =>
            views'[request[e].view] = Merge(views[request[e].view], Sent(request[e].edit))

QueuedWritesMerge == [][QueueMerges]_viewsVars

\* update_view merges: as long as a view lives, a key of its config changes only
\* by the commit of a patch of that view that has the key, whatever other
\* patches and creations run at the same time.
OnlyPatchesChange ==
    \A v \in Existing, f \in Fields :
        Exists(v)' /\ views'[v][f] # views[v][f] =>
            \E e \in Lines : /\ request[e].pc = "merge" /\ request[e].view = v
                             /\ f \in DOMAIN request[e].patch

OnlyPatchedFieldsChange == [][OnlyPatchesChange]_viewsVars
-----------------------------------------------------------------------------
(* The inductive invariant that the proofs use. *)

\* A row that a transaction has written or locked has no other holder, and is as
\* that transaction found it.
Locked ==
    /\ \A d, e \in Lines :
           Holds(d, request[d].view) /\ Holds(e, request[e].view)
           /\ request[d].view = request[e].view => d = e
    /\ \A e \in Lines :
           /\ request[e].pc = "append" => ~Exists(request[e].view)
           /\ request[e].pc = "merge" =>
                  Exists(request[e].view) /\ request[e].row = views[request[e].view]

\* What each function works on.
InPhase(e, r) ==
    /\ r.pc \in {"insert", "append", "lock", "read", "strip", "patch", "merge"} => r.view \in Views
    /\ r.pc \in {"insert", "append"} => r.patch = NoKeys
    /\ r.pc = "order" => "order" \in r.parts
    /\ r.pc \in {"check", "default"} => r.parts = {"default"}
    /\ e[2] = "queue" => r.pc \notin {"insert", "append", "lock", "read", "strip", "order"}
Phases == \A e \in Lines : InPhase(e, request[e])

\* A schema holds the config of every view it lists.
ListsItsViews(list, config) == \A v \in Range(list) : config[v] # NoView
Listed ==
    /\ \A p \in Pages : ListsItsViews(schema[p].list, schema[p].config)
    /\ \A e \in Lines :
           request[e].pc = "reply" => ListsItsViews(request[e].order, request[e].read)

\* As long as nothing has disturbed the pages, each request finds what it was sent for.
InAgreement(e, r) ==
    /\ r.pc = "insert" => ~Exists(r.view)
    /\ r.pc \in {"lock", "read", "strip", "patch"} => Exists(r.view)
    /\ r.pc = "strip" => r.order = order /\ r.default = default
    /\ r.pc \in {"patch", "merge"} /\ e[2] = "queue" =>
           r.patch = Sent(Merge(views[r.view], r.edit))
    /\ r.pc = "order" => Range(r.order) = Existing /\ IsInjective(r.order)
    /\ r.pc \in {"order", "check", "default"} => r.view \in Existing \cup {0}
    /\ r.pc = "readViews" => r.order = order
    /\ r.pc = "reply" => r.order = order /\ r.read = views

\* The page whose queue is at work sees every view and, between two writes of the
\* queue, all of the schema.  Its queued writes are about views that exist.
QueueInAgreement(p) ==
    /\ QueueOf(p) \in Busy => \A v \in Range(schema[p].list) : Exists(v)
    /\ queue[p] # <<>> /\ request[QueueOf(p)].pc = "idle" => UpToDate(p)
    /\ \A n \in DOMAIN queue[p] :
           queue[p][n].view \in Existing \cup IF queue[p][n].op = "default" THEN {0} ELSE {}

Undisturbed ==
    /\ OrderIsTheViews /\ DefaultExists
    /\ \A d, e \in Busy : d = e
    /\ Busy = {} => \E p \in Pages : UpToDate(p)
    /\ \A e \in Lines : InAgreement(e, request[e])
    /\ \A p \in Pages : QueueInAgreement(p)

ViewsInv == ViewsTypeOK /\ Locked /\ Phases /\ Listed /\ (~disturbed => Undisturbed)
=============================================================================
