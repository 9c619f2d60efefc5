---------------------------- MODULE RlsSessions ----------------------------
(***************************************************************************)
(* The row-level-security identity on pooled connections: core/db.py,      *)
(* middleware/auth.py, repository/_base.py.                                *)
(*                                                                         *)
(* PostgreSQL decides what a statement may see by app.current_user_id, a   *)
(* setting of the backend process that runs it.  A SQLAlchemy session has  *)
(* a connection only while a transaction is open; each transaction may get *)
(* another backend (the pool's, or a transaction-mode pooler's).  A        *)
(* setting has a session-level value and, inside a transaction, a local    *)
(* one: COMMIT drops the local value, ROLLBACK also takes back the         *)
(* session-level changes of the transaction.                               *)
(***************************************************************************)
CONSTANTS
    Users,      \* authenticated callers
    Service,    \* the fixed identity of the public announcement endpoint
    Sessions,   \* ORM sessions that may be open at the same time
    Backends,   \* connections of app_engine (pool_size + max_overflow)
    Nobody,     \* the empty setting
    None        \* no value

ASSUME SessionConstants ==
    /\ {Service, Nobody, None} \cap Users = {}
    /\ Service # Nobody /\ None \notin {Service, Nobody}
    /\ None \notin Sessions \cup Backends

VARIABLES
    setting,  \* setting[b]: session value, local value, value to roll back to
    open,     \* open[b]: the session whose transaction runs on backend b
    session   \* session[s]: whom it serves, its stashed identity, its progress

vars == <<setting, open, session>>

Callers == Users \cup {Service}
Closed == [user |-> None, stash |-> None, at |-> "closed", parent |-> None]

\* The backend that runs the transaction of s, if one is open.
On(s) == {b \in Backends : open[b] = s}
Free == {b \in Backends : open[b] = None}

\* What current_setting('app.current_user_id') answers on b.
Identity(b) == IF setting[b].local # None THEN setting[b].local ELSE setting[b].value

\* Both hooks are installed before the first session exists.
Init ==
    /\ setting = [b \in Backends |-> [value |-> Nobody, local |-> None, saved |-> Nobody]]
    /\ open = [b \in Backends |-> None]
    /\ session = [s \in Sessions |-> Closed]

-----------------------------------------------------------------------------
(* Transactions.                                                           *)

\* set_config(..., false) of the checkout hook: blank whatever the backend
\* still carries. It is the first statement of the transaction.
clear_rls_identity(cfg) == [cfg EXCEPT !.value = Nobody, !.saved = cfg.value]

\* Variant: is_local = FALSE.
ApplyToConnection(cfg, s) ==
    IF session[s].stash = None THEN cfg ELSE [cfg EXCEPT !.value = session[s].stash]

\* set_config(..., true) of the after_begin hook, if the session has a stash.
apply_rls_identity(cfg, s) == [cfg EXCEPT !.local = session[s].stash]

\* The session needs a connection for its next statement.
Wants(s) == session[s].at \in {"opened", "bound"} /\ On(s) = {}

Begin(s) ==
    /\ Wants(s)
    /\ \E b \in Free :
        /\ open' = [open EXCEPT ![b] = s]
        /\ setting' = [setting EXCEPT ![b] = apply_rls_identity(clear_rls_identity(@), s)]
    /\ UNCHANGED session

Committed(cfg) == [cfg EXCEPT !.local = None, !.saved = cfg.value]

RolledBack(cfg) == [cfg EXCEPT !.local = None, !.value = cfg.saved]

\* COMMIT returns the connection; the session may go on in a new transaction.
Commit(s) ==
    /\ session[s].at = "bound"
    /\ \E b \in On(s) :
        /\ open' = [open EXCEPT ![b] = None]
        /\ setting' = [setting EXCEPT ![b] = Committed(@)]
    /\ UNCHANGED session

\* The pool rolls back on release and resets nothing else.
Release(S) ==
    /\ open' = [b \in Backends |-> IF open[b] \in S THEN None ELSE open[b]]
    /\ setting' = [b \in Backends |->
                     IF open[b] \in S THEN RolledBack(setting[b]) ELSE setting[b]]

-----------------------------------------------------------------------------
(* Sessions.                                                               *)

\* get_session: a request that has not been authenticated yet.
OpenRequest(s) ==
    /\ session[s] = Closed
    /\ \E u \in Users : session' = [session EXCEPT ![s] = [Closed EXCEPT !.user = u, !.at = "opened"]]
    /\ UNCHANGED <<setting, open>>

\* get_fixed_identity_session: set_rls_context stashes before it executes.
OpenFixed(s) ==
    /\ session[s] = Closed
    /\ session' = [session EXCEPT ![s] =
                     [Closed EXCEPT !.user = Service, !.stash = Service, !.at = "opened"]]
    /\ UNCHANGED <<setting, open>>

\* register_upload: a second session for the same caller, opened while the
\* request's own session keeps its transaction and waits.
OpenRegistration(p, s) ==
    /\ session[p].at = "bound" /\ session[p].parent = None /\ On(p) # {}
    /\ session[s] = Closed
    /\ session' = [session EXCEPT
                     ![p].at = "registering",
                     ![s] = [user |-> session[p].user, stash |-> session[p].user,
                             at |-> "opened", parent |-> p]]
    /\ UNCHANGED <<setting, open>>

\* get_current_user: looks the caller up on the session, without an identity.
\* Routes without get_rls_session run nothing else on it.
Authenticate(s) ==
    /\ session[s].at = "opened" /\ session[s].stash = None
    /\ On(s) # {}
    /\ session' = [session EXCEPT ![s].at = "authenticated"]
    /\ UNCHANGED <<setting, open>>

\* set_rls_context: stash, and set the transaction that is already open.
SetContext(s) ==
    /\ \/ session[s].at = "authenticated"
       \/ session[s].at = "opened" /\ session[s].stash # None
    /\ \E b \in On(s) : setting' = [setting EXCEPT ![b].local = session[s].user]
    /\ session' = [session EXCEPT ![s].stash = session[s].user, ![s].at = "bound"]
    /\ UNCHANGED open

\* RLSRepository._execute re-applies the stash before each of its reads. Other
\* statements change nothing here: what they see is Identity(b).
Reapply(s) ==
    /\ session[s].at = "bound"
    /\ \E b \in On(s) : setting' = [setting EXCEPT ![b].local = session[s].stash]
    /\ UNCHANGED <<open, session>>

\* A request's session and the registration it waits for.
Request(s) == {s} \cup {c \in Sessions : session[c].parent = s}
                  \cup ({session[s].parent} \ {None})

\* The handler returns: the session is closed, a waiting upload goes on.
Close(s) ==
    /\ session[s].at \in {"authenticated", "bound"}
    /\ Release({s})
    /\ session' = [t \in Sessions |->
                     IF t = s THEN Closed
                     ELSE IF t = session[s].parent THEN [session[t] EXCEPT !.at = "bound"]
                     ELSE session[t]]

\* An exception or a cancellation unwinds the request with all its sessions.
Abort(s) ==
    /\ Release(Request(s))
    /\ session' = [t \in Sessions |-> IF t \in Request(s) THEN Closed ELSE session[t]]

Fault(s) == session[s] # Closed /\ Abort(s)

\* Variant: the pool lets its callers wait for ever.
NeverTimesOut(s) == FALSE

\* QueuePool gives up on a session that waits for a connection for too long.
PoolTimeout(s) == Wants(s) /\ Free = {} /\ Abort(s)

Step(s) == Begin(s) \/ PoolTimeout(s) \/ Authenticate(s) \/ SetContext(s)

Next ==
    \E s \in Sessions :
        \/ OpenRequest(s) \/ OpenFixed(s)
        \/ \E p \in Sessions : OpenRegistration(p, s)
        \/ Step(s) \/ Close(s) \/ Commit(s) \/ Reapply(s) \/ Fault(s)

Spec == Init /\ [][Next]_vars

\* Handlers have no loops and the pool has a timeout: every started step ends.
\* Strong fairness for Close: a request registers a bounded number of uploads.
Fairness == \A s \in Sessions : WF_vars(Step(s)) /\ SF_vars(Close(s))

FairSpec == Spec /\ Fairness

-----------------------------------------------------------------------------
(* Properties.                                                             *)

Identities == Callers \cup {Nobody}

Settings == [value : Identities, local : Identities \cup {None}, saved : Identities]

SessionRecords ==
    [user : Callers \cup {None}, stash : Callers \cup {None},
     at : {"closed", "opened", "authenticated", "bound", "registering"},
     parent : Sessions \cup {None}]

TypeOK ==
    /\ setting \in [Backends -> Settings]
    /\ open \in [Backends -> Sessions \cup {None}]
    /\ session \in [Sessions -> SessionRecords]

\* Once a request is authenticated each of its statements runs as its caller:
\* not as another request's, and not as nobody after a commit in mid-request,
\* whichever backend each transaction is given. Before that it runs as nobody,
\* and a backend between two transactions carries nobody's identity, whether the
\* last one committed, rolled back or was abandoned.
RunsAsCaller ==
    /\ \A s \in Sessions : \A b \in On(s) :
           Identity(b) = IF session[s].at \in {"bound", "registering"} \/ session[s].stash # None
                         THEN session[s].user ELSE Nobody
    /\ \A b \in Free : Identity(b) = Nobody

\* Every session ends: uploads that each hold a connection and wait for a
\* second one are let go by the pool's timeout.
SessionsEnd == \A s \in Sessions : (session[s] # Closed) ~> (session[s] = Closed)
=============================================================================
