------------------------------ MODULE Accounts ------------------------------
(***************************************************************************)
(* Accounts: administration (router/api/admin/users.py), the self-service  *)
(* of router/api/auth.py and the lookups of repository/user.py.            *)
(*                                                                         *)
(* Every handler reads in one or two statements, decides, and writes in a  *)
(* later one: check, then act, in READ COMMITTED and without a lock.  What *)
(* is left to the database are the unique indexes on email and user_name,  *)
(* which compare bytes, while get_by_email compares lower(email).          *)
(***************************************************************************)
EXTENDS Naturals

CONSTANTS
    Emails,     \* spellings of addresses
    Lower,      \* Lower[e]: the spelling in lower case
    Handles,    \* user names, given or made from an address (_slugify)
    Keys,       \* keys of a user's config
    Values,     \* values of a config key
    Passwords,
    Requests,   \* requests served at the same time
    MaxUsers,   \* bound: accounts ever created
    MaxStarts,  \* bound: requests that pass their checks
    Null,       \* the null of a patch
    Absent        \* absent: an account, a config key, a password

ASSUME AccountConstants ==
    /\ Lower \in [Emails -> Emails]
    /\ \A e \in Emails : Lower[Lower[e]] = Lower[e]
    /\ MaxUsers \in Nat /\ MaxStarts \in Nat
    /\ Null \notin Values /\ Absent \notin Values \cup Passwords \cup {Null}

VARIABLES
    account,   \* account[u]: the rows of auth.users and gdpr.* of user u, or Absent
    created,   \* accounts ever created
    started,   \* requests that have passed their checks
    request,   \* the requests in progress: handler, subject, inputs, what they read
    raced      \* lower-case addresses that two overlapping requests claimed (history)

accountsVars == <<account, created, started, request, raced>>

Ids == 1..MaxUsers
Existing == {u \in Ids : account[u] # Absent}
Configs == [Keys -> Values \cup {Absent}]
Roles == {"user", "admin"}
Account == [email : Emails, handle : Handles, role : Roles,
            config : Configs, password : Passwords \cup {Absent}]

Idle == [op |-> "none", user |-> 0, to |-> Absent, read |-> Absent]

AccountsInit ==
    /\ account = [u \in Ids |-> Absent]
    /\ created = 0
    /\ started = 0
    /\ request = [r \in Requests |-> Idle]
    /\ raced = {}

-----------------------------------------------------------------------------
(* Reads.                                                                  *)

\* Variant: get_by_email compares bytes.
ByEmailExactly(e) == {u \in Existing : account[u].email = e}

\* get_by_email; scalar_one_or_none raises if there are several.
ByEmail(e) == {u \in Existing : Lower[account[u].email] = Lower[e]}

Starts(r, op, user, to, read) ==
    /\ request[r] = Idle
    /\ started < MaxStarts
    /\ started' = started + 1
    /\ request' = [request EXCEPT ![r] = [op |-> op, user |-> user, to |-> to, read |-> read]]

\* The requests that are about to give somebody the address e.
Claiming(e) ==
    {r \in Requests :
        \/ request[r].op = "create" /\ Lower[request[r].to.email] = Lower[e]
        \/ request[r].op = "email" /\ Lower[request[r].to] = Lower[e]}

Claims(e) == raced' = IF Claiming(e) = {} THEN raced ELSE raced \cup {Lower[e]}

\* create_user: the address must be free.
CheckNew(r) ==
    \E e \in Emails, h \in Handles :
        /\ ByEmail(e) = {}
        /\ Starts(r, "create", 0, [email |-> e, handle |-> h], Absent)
        /\ Claims(e)
        /\ UNCHANGED <<account, created>>

\* update_me_email: the address must be free or the caller's own.
CheckEmail(r) ==
    \E u \in Existing, e \in Emails :
        /\ ByEmail(e) \subseteq {u}
        /\ Starts(r, "email", u, e, account[u].email)
        /\ Claims(e)
        /\ UNCHANGED <<account, created>>

\* Variant: the patch replaces the config.
PatchAlone(config, patch) ==
    [k \in Keys |-> IF k \notin DOMAIN patch \/ patch[k] = Null THEN Absent ELSE patch[k]]

\* Top-level keys are replaced, null removes a key.
Merge(config, patch) ==
    [k \in Keys |-> IF k \notin DOMAIN patch THEN config[k]
                     ELSE IF patch[k] = Null THEN Absent ELSE patch[k]]

ReadConfig(r) ==
    \E u \in Existing, k \in Keys, v \in Values \cup {Null} :
        /\ Starts(r, "config", u, [key \in {k} |-> v], account[u].config)
        /\ UNCHANGED <<account, created, raced>>

\* Variant: whoever sends no current password is let through.
VerifiesIfSent(stored, current) == current \in {stored, Absent}

\* An account without a password asks for none.
Verifies(stored, current) == stored = Absent \/ current = stored

\* set_me_password: get_current_user_password_hash, then the comparison.
ReadPassword(r) ==
    \E u \in Existing, current \in Passwords \cup {Absent}, new \in Passwords :
        /\ Verifies(account[u].password, current)
        /\ Starts(r, "password", u, new, [stored |-> account[u].password, sent |-> current])
        /\ UNCHANGED <<account, created, raced>>

\* update_user, delete_user: the account is looked up by its address.
FindForAdmin(r) ==
    \E e \in Emails, op \in {"role", "delete"}, role \in Roles :
        \E u \in Ids :
            /\ ByEmail(e) = {u}
            /\ Starts(r, op, u, role, account[u].role)
            /\ op = "delete" => role = "user"
            /\ UNCHANGED <<account, created, raced>>

-----------------------------------------------------------------------------
(* Writes. Each is the INSERT, UPDATE or DELETE with its COMMIT, after the *)
(* wait for whoever holds the row or the index entry. A row that has gone  *)
(* makes it fail (StaleDataError, a foreign key), and so does a duplicate. *)

Is(r, op) == request[r].op = op

Ends(r) == request' = [request EXCEPT ![r] = Idle] /\ UNCHANGED started

Write(u, rec) == account' = [account EXCEPT ![u] = rec]

\* user_info_email_unique and user_info_user_name_unique.
Unique(u, email, handle) ==
    \A v \in Existing \ {u} : account[v].email # email /\ account[v].handle # handle

\* bootstrap_user: auth.users, gdpr.user_info and the workspace of the handle.
Bootstrap(r) ==
    LET new == request[r].to
        id == created + 1 IN
    /\ Is(r, "create")
    /\ created < MaxUsers
    /\ Unique(id, new.email, new.handle)
    /\ Write(id, [email |-> new.email, handle |-> new.handle, role |-> "user",
                  config |-> [k \in Keys |-> Absent], password |-> Absent])
    /\ created' = id
    /\ Ends(r)
    /\ UNCHANGED raced

\* The ORM sends an UPDATE only for a value that differs from the one it read.
SetEmail(r) ==
    LET u == request[r].user
        e == request[r].to IN
    /\ Is(r, "email")
    /\ u \in Existing
    /\ Unique(u, e, account[u].handle)
    /\ Write(u, [account[u] EXCEPT !.email = IF e = request[r].read THEN @ ELSE e])
    /\ Ends(r)
    /\ UNCHANGED <<created, raced>>

PatchConfig(r) ==
    LET u == request[r].user
        old == request[r].read
        merged == Merge(old, request[r].to) IN
    /\ Is(r, "config")
    /\ u \in Existing
    /\ Write(u, [account[u] EXCEPT !.config = IF merged = old THEN @ ELSE merged])
    /\ Ends(r)
    /\ UNCHANGED <<created, raced>>

\* set_current_user_password_hash.
SetPassword(r) ==
    LET u == request[r].user IN
    /\ Is(r, "password")
    /\ u \in Existing
    /\ Write(u, [account[u] EXCEPT !.password = request[r].to])
    /\ Ends(r)
    /\ UNCHANGED <<created, raced>>

SetRole(r) ==
    LET u == request[r].user IN
    /\ Is(r, "role")
    /\ u \in Existing
    /\ Write(u, [account[u] EXCEPT !.role = IF request[r].to = request[r].read
                                            THEN @ ELSE request[r].to])
    /\ Ends(r)
    /\ UNCHANGED <<created, raced>>

\* Everything that refers to the account goes with it; a second deletion deletes nothing.
Delete(r) ==
    /\ Is(r, "delete")
    /\ Write(request[r].user, Absent)
    /\ Ends(r)
    /\ UNCHANGED <<created, raced>>

\* A lost connection, a duplicate, a row that has gone: ROLLBACK.
Fails(r) ==
    /\ request[r] # Idle
    /\ Ends(r)
    /\ UNCHANGED <<account, created, raced>>

AccountsNext ==
    \E r \in Requests :
        \/ CheckNew(r) \/ CheckEmail(r) \/ ReadConfig(r) \/ ReadPassword(r) \/ FindForAdmin(r)
        \/ Bootstrap(r) \/ SetEmail(r) \/ PatchConfig(r) \/ SetPassword(r)
        \/ SetRole(r) \/ Delete(r) \/ Fails(r)

AccountsSpec == AccountsInit /\ [][AccountsNext]_accountsVars

-----------------------------------------------------------------------------
(* Properties.                                                             *)

\* What the requests of a handler remember: their subject, their input and what they read.
Subjects == 1..created
Sent == Passwords \cup {Absent}
Patches == UNION {[{k} -> Values \cup {Null}] : k \in Keys}
RequestRecords ==
    {Idle}
    \cup [op : {"create"}, user : {0}, to : [email : Emails, handle : Handles], read : {Absent}]
    \cup [op : {"email"}, user : Subjects, to : Emails, read : Emails]
    \cup [op : {"config"}, user : Subjects, to : Patches, read : Configs]
    \cup [op : {"password"}, user : Subjects, to : Passwords, read : [stored : Sent, sent : Sent]]
    \cup [op : {"role", "delete"}, user : Subjects, to : Roles, read : Roles]

AccountsTypeOK ==
    /\ created \in 0..MaxUsers /\ started \in 0..MaxStarts
    /\ account \in [Ids -> Account \cup {Absent}]
    /\ \A u \in Existing : u <= created
    /\ request \in [Requests -> RequestRecords]
    /\ raced \subseteq Emails

\* get_by_email finds at most one account, so that nobody is locked out of the
\* lookups by address, unless two requests claimed the address at the same
\* time: the index would accept two spellings of it.
AddressesUnambiguous ==
    \A u, v \in Existing :
        Lower[account[u].email] = Lower[account[v].email] => u = v \/ Lower[account[u].email] \in raced

\* Whoever is about to write an address is alone with it and has found it free, or
\* the address is raced.
ClaimsAreChecked ==
    \A e \in Emails : \A r \in Claiming(e) :
        Lower[e] \in raced \/ (Claiming(e) = {r} /\ ByEmail(e) \subseteq {request[r].user})

\* Whoever is about to set a password has passed the comparison.
PasswordsVerified ==
    \A r \in Requests : Is(r, "password") => Verifies(request[r].read.stored, request[r].read.sent)

Changed(u, field) == u \in Existing /\ account'[u] # Absent /\ account'[u][field] # account[u][field]

Finished(r, op, u) == Is(r, op) /\ request[r].user = u /\ request'[r] = Idle

OtherKeysKept ==
    \A u \in Ids, k \in Keys :
        Changed(u, "config") /\ account'[u].config[k] # account[u].config[k] =>
            \E r \in Requests :
                /\ Finished(r, "config", u)
                /\ k \in DOMAIN request[r].to \/ request[r].read # account[u].config

\* A patch of the config leaves the keys alone that it does not name, whatever
\* happens to the account meanwhile, unless another patch committed after it
\* had read the config: then it puts those keys back.
PatchesKeepOtherKeys == [][OtherKeysKept]_accountsVars

OldPasswordsKnown ==
    \A u \in Ids :
        Changed(u, "password") /\ account[u].password # Absent =>
            \E r \in Requests :
                /\ Finished(r, "password", u)
                /\ \/ request[r].read.sent = account[u].password
                   \/ request[r].read.stored # account[u].password

\* A password that is set is replaced only by somebody who knew it, unless it
\* was set after the request had looked: two first passwords can race.
PasswordsChangeKnowingly == [][OldPasswordsKnown]_accountsVars
=============================================================================
