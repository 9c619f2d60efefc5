--------------------------- MODULE WorkspaceMembers ---------------------------
(***************************************************************************)
(* The roster of one workspace: add_member, update_member_role,            *)
(* remove_member and delete_workspace (router/api/workspaces.py).          *)
(*                                                                         *)
(* workspace_members has one row per granted action, so a change of level  *)
(* is several statements.  A request first asks a few questions, each in a *)
(* statement of its own, and then writes; the connection is READ COMMITTED *)
(* and row-level security filters every statement by what the caller holds *)
(* when that statement starts.  One action here is one such statement.     *)
(***************************************************************************)
EXTENDS Naturals, FiniteSets

CONSTANTS
    Users,
    Founder,        \* the user who created the workspace
    Requests,       \* requests that may be in progress at the same time
    MaxRequests,    \* bound: roster requests in a behaviour
    MaxFaults       \* bound: cancelled requests and lost connections

ASSUME MembersAssumption ==
    /\ Founder \in Users
    /\ MaxRequests \in Nat /\ MaxFaults \in Nat

VARIABLES
    exists,     \* the workspace has not been deleted
    grants,     \* committed workspace_members rows, as <<user, action>>
    req,        \* per request: its open transaction
    overlapped, \* history: a request has begun while another was in progress
    contested,  \* history: so has one that may take ownership away, during another such
    started,    \* requests started so far
    faults      \* faults so far

vars == <<exists, grants, req, overlapped, contested, started, faults>>

Actions == {"read", "write", "owner"}
Rows == Users \X Actions

\* The action rows of a level: higher levels materialize the lower ones.
Ceiling(level) ==
    CASE level = "read" -> {"read"}
      [] level = "write" -> {"read", "write"}
      [] level = "owner" -> Actions

Idle == [pc |-> "idle", op |-> "add", caller |-> Founder, target |-> Founder, level |-> "read",
         n |-> 1, picked |-> {}, ins |-> {}, del |-> {}]

RequestRecords ==
    [pc : {"idle", "lookup", "count", "select", "run", "wait", "commit", "drop", "cascade"},
     op : {"add", "update", "remove", "delete"},
     caller : Users, target : Users, level : Actions,
     n : 1 .. 3,                \* the statement it is at
     picked : SUBSET Rows,      \* remove_member: the rows it read
     ins : SUBSET Rows,         \* rows it inserted and has not committed
     del : SUBSET Rows]         \* rows it deleted and has not committed

TypeOK ==
    /\ exists \in BOOLEAN
    /\ grants \in SUBSET Rows
    /\ req \in [Requests -> RequestRecords]
    /\ overlapped \in BOOLEAN /\ contested \in BOOLEAN
    /\ started \in 0 .. MaxRequests
    /\ faults \in 0 .. MaxFaults

\* create_workspace gives its creator all three rows in one statement.
Init ==
    /\ exists = TRUE
    /\ grants = {Founder} \X Actions
    /\ req = [r \in Requests |-> Idle]
    /\ overlapped = FALSE /\ contested = FALSE
    /\ started = 0
    /\ faults = 0

-----------------------------------------------------------------------------
(* What a statement of request r sees. *)

Seen(r) == (grants \cup req[r].ins) \ req[r].del

\* current_user_workspaces('owner')
IsOwner(r) == <<req[r].caller, "owner">> \in Seen(r)

\* Row-level security shows the roster to owners, and to others their own rows.
Roster(r) == {g \in Seen(r) : IsOwner(r) \/ g[1] = req[r].caller}
LevelsOf(r, u) == {a \in Actions : <<u, a>> \in Roster(r)}
\* Variant: all members are counted.
CountMembers(r) == Cardinality({u \in Users : LevelsOf(r, u) # {}})

CountOwners(r) == Cardinality({u \in Users : "owner" \in LevelsOf(r, u)})

Move(r, pc) == req' = [req EXCEPT ![r].pc = pc]
End(r) == req' = [req EXCEPT ![r] = Idle]

\* May the request take ownership away?  One that grants a lower level deletes
\* the rows above it, also the rows a stranger has been given in the meantime.
MayTake(op, level) == op = "remove" \/ (op \in {"add", "update"} /\ level # "owner")

\* _require_owner: everybody else gets a 403.
Begin(r, op, caller, target, level) ==
    /\ exists /\ started < MaxRequests
    /\ req[r].pc = "idle"
    /\ <<caller, "owner">> \in grants
    /\ req' = [req EXCEPT ![r] = [Idle EXCEPT
           !.pc = IF op = "delete" THEN "drop" ELSE "lookup",
           !.op = op, !.caller = caller, !.target = target, !.level = level]]
    /\ started' = started + 1
    /\ overlapped' = (overlapped \/ \E s \in Requests : req[s].pc # "idle")
    /\ contested' = (contested \/ (MayTake(op, level) /\ \E s \in Requests :
                                      req[s].pc # "idle" /\ MayTake(req[s].op, req[s].level)))
    /\ UNCHANGED <<exists, grants, faults>>

\* Does the operation take ownership away from an owner?
TakesOwnership(r) ==
    /\ "owner" \in LevelsOf(r, req[r].target)
    /\ req[r].op \in {"remove", "update"} /\ MayTake(req[r].op, req[r].level)

\* get_member_with_info: add_member wants a stranger (else 409), the other two
\* a member (else 404).
LookUp(r) ==
    /\ req[r].pc = "lookup"
    /\ \/ /\ (LevelsOf(r, req[r].target) = {}) # (req[r].op = "add")
          /\ End(r)
       \/ /\ (LevelsOf(r, req[r].target) = {}) = (req[r].op = "add")
          /\ Move(r, IF TakesOwnership(r) THEN "count"
                     ELSE IF req[r].op = "remove" THEN "select" ELSE "run")
    /\ UNCHANGED <<exists, grants, overlapped, contested, started, faults>>

\* count_owners: the last one can neither be demoted nor removed (400).
Count(r) ==
    /\ req[r].pc = "count"
    /\ IF CountOwners(r) <= 1 THEN End(r)
       ELSE Move(r, IF req[r].op = "remove" THEN "select" ELSE "run")
    /\ UNCHANGED <<exists, grants, overlapped, contested, started, faults>>

\* remove_member reads the rows it is going to delete.
Select(r) ==
    /\ req[r].pc = "select"
    /\ LET rows == {g \in Roster(r) : g[1] = req[r].target}
       IN IF rows = {} THEN End(r)
          ELSE req' = [req EXCEPT ![r].pc = "run", ![r].picked = rows]
    /\ UNCHANGED <<exists, grants, overlapped, contested, started, faults>>

-----------------------------------------------------------------------------
(* The writing statements: three for grant_workspace_action, one per row for *)
(* remove_member, whose unit of work deletes in primary key order.           *)

Row(r) == <<req[r].target,
            (IF req[r].op = "remove" THEN <<"owner", "read", "write">>
                                     ELSE <<"read", "write", "owner">>)[req[r].n]>>

\* Variant: a grant inserts the named level only.
InsertsNamedLevel(r) == req[r].op # "remove" /\ Row(r)[2] = req[r].level

Inserts(r) == req[r].op # "remove" /\ Row(r)[2] \in Ceiling(req[r].level)

\* Row-level security judges a statement when it starts: one that waits for a
\* row has passed.
Allowed(r) == req[r].pc = "wait" \/ IsOwner(r)

\* The row the statement would delete: seen, allowed by row-level security,
\* and for remove_member one of those it read.
Deletes(r) ==
    /\ ~Inserts(r) /\ Allowed(r)
    /\ Row(r) \in Seen(r)
    /\ req[r].op = "remove" => Row(r) \in req[r].picked

\* An INSERT waits for whoever inserted or deleted the same row and has not
\* committed, a DELETE for whoever deleted it.
Blocks(s, r) ==
    /\ s # r
    /\ \/ Inserts(r) /\ Allowed(r) /\ Row(r) \in req[s].ins \cup req[s].del
       \/ Deletes(r) /\ Row(r) \in req[s].del
Blocked(r) == \E s \in Requests : Blocks(s, r)

IsLast(r) == req[r].n = 3

\* INSERT ... ON CONFLICT DO NOTHING fails the policy's check unless the caller
\* is an owner, and the foreign key once the workspace is gone; DELETE silently
\* skips what the policy hides.
Apply(r) ==
    IF Inserts(r) /\ ~(Allowed(r) /\ exists) THEN End(r)
    ELSE req' = [req EXCEPT
             ![r].ins = IF Inserts(r) /\ Row(r) \notin Seen(r) THEN @ \cup {Row(r)} ELSE @,
             ![r].del = IF Deletes(r) THEN @ \cup {Row(r)} ELSE @,
             ![r].n = IF IsLast(r) THEN @ ELSE @ + 1,
             ![r].pc = IF IsLast(r) THEN "commit" ELSE "run"]

Statement(r) ==
    /\ req[r].pc \in {"run", "wait"} /\ ~Blocked(r)
    /\ Apply(r)
    /\ UNCHANGED <<exists, grants, overlapped, contested, started, faults>>

Wait(r) ==
    /\ req[r].pc = "run" /\ Blocked(r)
    /\ Move(r, "wait")
    /\ UNCHANGED <<exists, grants, overlapped, contested, started, faults>>

\* Variant: only waiting for oneself counts as a deadlock.
DeadlockedAlone(r) == req[r].pc = "wait" /\ Blocks(r, r)

\* PostgreSQL ends a circle of waiting transactions by failing one of them.
Deadlocked(r) ==
    \E S \in SUBSET Requests :
        /\ r \in S
        /\ \A s \in S : req[s].pc = "wait" /\ \E t \in S : Blocks(t, s)

DeadlockVictim(r) ==
    /\ Deadlocked(r)
    /\ End(r)
    /\ UNCHANGED <<exists, grants, overlapped, contested, started, faults>>

Commit(r) ==
    /\ req[r].pc = "commit"
    /\ grants' = Seen(r)
    /\ End(r)
    /\ UNCHANGED <<exists, overlapped, contested, started, faults>>

\* delete_workspace: the DELETE starts. The policy hides the workspace from a
\* former owner, and then nothing is deleted.
StartDrop(r) ==
    /\ req[r].pc = "drop"
    /\ IF IsOwner(r) THEN Move(r, "cascade") ELSE End(r)
    /\ UNCHANGED <<exists, grants, overlapped, contested, started, faults>>

\* The cascade waits for transactions that have written to the roster.
Drop(r) ==
    /\ req[r].pc = "cascade"
    /\ \A s \in Requests : req[s].ins \cup req[s].del = {}
    /\ exists' = FALSE
    /\ grants' = {}
    /\ End(r)
    /\ UNCHANGED <<overlapped, contested, started, faults>>

\* A cancelled request or a lost connection rolls back.
Abort(r) ==
    /\ req[r].pc # "idle" /\ faults < MaxFaults
    /\ faults' = faults + 1
    /\ End(r)
    /\ UNCHANGED <<exists, grants, overlapped, contested, started>>

-----------------------------------------------------------------------------
Step(r) ==
    \/ LookUp(r) \/ Count(r) \/ Select(r)
    \/ Statement(r) \/ Wait(r) \/ DeadlockVictim(r)
    \/ Commit(r) \/ StartDrop(r) \/ Drop(r)

Next ==
    \E r \in Requests :
        \/ \E caller, target \in Users, level \in Actions, op \in {"add", "update"} :
               Begin(r, op, caller, target, level)
        \/ \E caller, target \in Users : Begin(r, "remove", caller, target, "read")
        \/ \E caller \in Users : Begin(r, "delete", caller, caller, "read")
        \/ Step(r)
        \/ Abort(r)

Spec == Init /\ [][Next]_vars

\* A request in progress is driven on; PostgreSQL wakes waiters and detects
\* deadlocks (deadlock_timeout).
FairSpec == Spec /\ \A r \in Requests : WF_vars(Step(r))
-----------------------------------------------------------------------------
(* Properties. *)

Held(u) == {a \in Actions : <<u, a>> \in grants}

\* "Higher levels materialize lower action rows": whoever may write may read,
\* whoever owns may write.
LevelsClosed == \A u \in Users : Held(u) \in {{}} \cup {Ceiling(a) : a \in Actions}

\* "Owners manage the roster and the last owner remains": so it is while no two
\* requests that may take ownership away overlap, whatever else goes on.
OwnerRemains == exists => \E u \in Users : "owner" \in Held(u)
OwnerRemainsUncontested == ~contested => OwnerRemains

\* One roster request after another, some of them cancelled between statements
\* and some refused half-way, keeps the levels closed.
OneAtATime == ~overlapped => LevelsClosed

\* No request waits for ever on rows of another, deadlocks included.
RequestsEnd == \A r \in Requests : req[r].pc # "idle" ~> req[r].pc = "idle"
=============================================================================
