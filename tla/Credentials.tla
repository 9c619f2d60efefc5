---------------------------- MODULE Credentials ----------------------------
(***************************************************************************)
(* Login, refresh-token rotation and the first-party SSO issuer:           *)
(* router/api/auth.py, router/api/sso.py and services/lc_auth.py.          *)
(*                                                                         *)
(* Every opaque secret the backend hands out is a row of one of three      *)
(* tables (sso_sessions, sso_refresh_tokens, sso_authorization_codes).     *)
(* Its row carries a mark that ends its life: revoked_at or consumed_at    *)
(* ("spent" here).  Every handler but two is the same transaction: a       *)
(* conditional UPDATE of the presented row, which takes its row lock, then *)
(* the INSERT of the next secret or none, and COMMIT.  Row locks last to   *)
(* the end of the transaction; a statement sees the rows committed when it *)
(* starts and, after waiting for a lock, the newest version of that row    *)
(* (READ COMMITTED).                                                       *)
(***************************************************************************)
EXTENDS Integers, FiniteSets, Sequences

CONSTANTS
    Users,          \* accounts of auth.users
    Clients,        \* registered, active SSO clients, one redirect URI each
    PublicClients,  \* those of client_kind 'public'; the others are confidential
    Requests,       \* requests the backend serves at the same time
    MaxSecrets,     \* bound: rows ever issued in the three tables
    MaxExpired,     \* bound: unspent rows that expire
    None            \* no request, no client

ASSUME CredentialConstants ==
    /\ PublicClients \subseteq Clients
    /\ MaxSecrets \in Nat /\ MaxExpired \in Nat
    /\ None \notin Requests \cup Clients

VARIABLES
    secrets,  \* the committed rows, in the order in which they were issued
    holder,   \* the open transaction that holds the row lock of each secret
    req,      \* the request each slot serves: its handler, step and inputs
    jwts,     \* access JWTs issued for each secret: the endpoints that did it
    closed,   \* families a logout or a replay has revoked (history)
    raced     \* families rotated while such a revocation ran (history)

vars == <<secrets, holder, req, jwts, closed, raced>>

Ids == 1..MaxSecrets
CodeFlows == {"authorization_code", "native_launch", "browser_exchange"}
SecretKinds == {"session", "refresh"} \cup CodeFlows

\* A row: the secret it was exchanged for (0: none), the family of a refresh
\* token (the id of its first token), the client and challenge of a code.
Secret == [kind : SecretKinds, user : Users, client : Clients \cup {None},
           parent : 0..MaxSecrets, family : 0..MaxSecrets, pkce : BOOLEAN,
           spent : BOOLEAN, expired : BOOLEAN]

Idle == [op |-> "none", at |-> "idle", secret |-> 0, client |-> None,
         verifies |-> FALSE, live |-> FALSE, user |-> None, rows |-> {}]

Issued == DOMAIN secrets
Family(f) == {s \in Issued : secrets[s].kind = "refresh" /\ secrets[s].family = f}
HeldBy(r) == {s \in Ids : holder[s] = r}

Init ==
    /\ secrets = <<>>
    /\ holder = [s \in Ids |-> None]
    /\ req = [r \in Requests |-> Idle]
    /\ jwts = [s \in Ids |-> <<>>]
    /\ closed = {}
    /\ raced = {}

-----------------------------------------------------------------------------
(* Statements.                                                             *)

NewSecret(kind, user, client, parent, family, pkce) ==
    [kind |-> kind, user |-> user, client |-> client, parent |-> parent,
     family |-> family, pkce |-> pkce, spent |-> FALSE, expired |-> FALSE]

\* The secret values are random and leave the process only with the reply, so
\* an id is given when the INSERT commits.
Insert(rows, row) == Append(rows, row)

Spend(rows, S) == [s \in DOMAIN rows |-> [rows[s] EXCEPT !.spent = @ \/ s \in S]]

Unlock(r) == [s \in Ids |-> IF holder[s] = r THEN None ELSE holder[s]]

\* COMMIT or ROLLBACK and the reply: the locks go and the slot is free.
Finish(r) ==
    /\ holder' = Unlock(r)
    /\ req' = [req EXCEPT ![r] = Idle]

\* The handlers that are presented with a secret.
Operations == {"refresh_login", "logout_refresh_token", "authorize", "launch",
               "browser_token", "token", "sso_logout"}

\* The part of each WHERE clause that reads columns which never change: the
\* table, the flow type, and the client with its redirect URI.
Addresses(op, s, c) ==
    LET row == secrets[s] IN
    CASE op \in {"refresh_login", "logout_refresh_token"} -> row.kind = "refresh"
      [] op \in {"authorize", "sso_logout"} -> row.kind = "session"
      [] op = "launch" -> row.kind = "native_launch"
      [] op = "browser_token" -> row.kind = "browser_exchange" /\ row.client = c
      [] op = "token" -> row.kind \in CodeFlows /\ row.client = c

\* Variant: the mark is not looked at.
MatchesSpent(r) == req[r].live

\* The rest of it. :now was read before the statement, so a secret that expires
\* while the statement waits for the row lock still counts as live.
Matches(r) == ~secrets[req[r].secret].spent /\ req[r].live

-----------------------------------------------------------------------------
(* Handlers.                                                               *)

\* The request reads the clock when it arrives.
Presented(op, s, c, v) ==
    [Idle EXCEPT !.op = op, !.at = "asked", !.secret = s, !.client = c,
                 !.verifies = v, !.live = ~secrets[s].expired]

\* A request arrives with one of the secrets ever issued, rightly or not. A
\* value that addresses no row changes nothing. For token and
\* browser_token the client is registered and has passed its own check (a
\* verifier is present, the client secret or the Origin header is right);
\* whether the verifier matches the challenge is decided later.
Present(r) ==
    /\ req[r] = Idle
    /\ \E op \in Operations, s \in Issued, c \in Clients \cup {None}, v \in BOOLEAN :
        /\ Addresses(op, s, c)
        /\ (c # None) <=> op \in {"authorize", "browser_token", "token"}
        /\ v => op = "token" /\ secrets[s].pkce
        /\ req' = [req EXCEPT ![r] = Presented(op, s, c, v)]
    /\ UNCHANGED <<secrets, holder, jwts, closed, raced>>

\* The conditional UPDATE finds its row and locks it, waiting for another
\* transaction's lock first.
Claim(r) ==
    LET s == req[r].secret IN
    /\ req[r].at = "asked"
    /\ req[r].op \notin {"logout_refresh_token", "sso_logout"}
    /\ holder[s] = None
    /\ Matches(r)
    /\ holder' = [holder EXCEPT ![s] = r]
    /\ req' = [req EXCEPT ![r].at = "claimed"]
    /\ UNCHANGED <<secrets, jwts, closed, raced>>

\* The conditional UPDATE finds no row: ROLLBACK and 400 or 401, except that a
\* refused refresh goes on to revoke the family (a replay, or an expired token).
Refuse(r) ==
    /\ req[r].at = "asked"
    /\ req[r].op \notin {"logout_refresh_token", "sso_logout"}
    /\ ~Matches(r)
    /\ IF req[r].op = "refresh_login"
       THEN req' = [req EXCEPT ![r].at = "replayed"] /\ UNCHANGED holder
       ELSE Finish(r)
    /\ UNCHANGED <<secrets, jwts, closed, raced>>

\* refresh_login: the successor joins the family and the rotation commits.
Rotate(r) ==
    LET s == req[r].secret
        row == secrets[s] IN
    /\ req[r].at = "claimed"
    /\ req[r].op = "refresh_login"
    /\ Len(secrets) < MaxSecrets
    /\ secrets' = Insert(Spend(secrets, {s}),
                         NewSecret("refresh", row.user, None, s, row.family, FALSE))
    /\ raced' = raced \cup {f \in {row.family} : \E q \in Requests :
                    req[q].at = "revoking" /\ secrets[req[q].secret].family = f}
    /\ Finish(r)
    /\ UNCHANGED <<jwts, closed>>

\* Variant: only the presented token is revoked.
ScanPresented(r) ==
    /\ \/ req[r].at = "replayed"
       \/ req[r].at = "asked" /\ req[r].op = "logout_refresh_token"
    /\ req' = [req EXCEPT ![r].at = "revoking", ![r].rows = {req[r].secret}]
    /\ UNCHANGED <<secrets, holder, jwts, closed, raced>>

\* logout_refresh_token, and refresh_login after a refusal: read the family id
\* (it never changes) and start the UPDATE of the family. Its snapshot fixes
\* which rows it will visit.
ScanFamily(r) ==
    /\ \/ req[r].at = "replayed"
       \/ req[r].at = "asked" /\ req[r].op = "logout_refresh_token"
    /\ req' = [req EXCEPT ![r].at = "revoking",
                          ![r].rows = Family(secrets[req[r].secret].family)]
    /\ UNCHANGED <<secrets, holder, jwts, closed, raced>>

\* The UPDATE takes the row locks one at a time, in the order of the scan.
LockRow(r) ==
    /\ req[r].at = "revoking"
    /\ \E s \in req[r].rows :
        /\ holder[s] = None
        /\ holder' = [holder EXCEPT ![s] = r]
        /\ req' = [req EXCEPT ![r].rows = @ \ {s}]
    /\ UNCHANGED <<secrets, jwts, closed, raced>>

RevokeFamily(r) ==
    /\ req[r].at = "revoking"
    /\ req[r].rows = {}
    /\ secrets' = Spend(secrets, HeldBy(r))
    /\ closed' = closed \cup {secrets[req[r].secret].family}
    /\ Finish(r)
    /\ UNCHANGED <<jwts, raced>>

\* authorize: a PKCE-bound code for the user of the session it has locked.
Authorize(r) ==
    LET s == req[r].secret IN
    /\ req[r].at = "claimed"
    /\ req[r].op = "authorize"
    /\ Len(secrets) < MaxSecrets
    /\ secrets' = Insert(secrets, NewSecret("authorization_code", secrets[s].user,
                                            req[r].client, s, 0, TRUE))
    /\ Finish(r)
    /\ UNCHANGED <<jwts, closed, raced>>

\* launch: the launch ticket is consumed and a browser ticket issued in one
\* transaction.
Launch(r) ==
    LET s == req[r].secret IN
    /\ req[r].at = "claimed"
    /\ req[r].op = "launch"
    /\ Len(secrets) < MaxSecrets
    /\ secrets' = Insert(Spend(secrets, {s}),
                         NewSecret("browser_exchange", secrets[s].user,
                                   secrets[s].client, s, 0, FALSE))
    /\ Finish(r)
    /\ UNCHANGED <<jwts, closed, raced>>

\* token refuses a wrong verifier, and a code without a challenge from a public
\* client; it rolls back, so the code can be presented again.
Accepts(r) ==
    LET s == secrets[req[r].secret] IN
    /\ s.pkce => req[r].verifies
    /\ req[r].client \in PublicClients => s.pkce

\* Consume the code, commit and sign the JWT.
Redeem(r) ==
    LET s == req[r].secret IN
    /\ secrets' = Spend(secrets, {s})
    /\ jwts' = [jwts EXCEPT ![s] = Append(@, req[r].op)]

\* browser_token.
BrowserToken(r) ==
    /\ req[r].at = "claimed"
    /\ req[r].op = "browser_token"
    /\ Redeem(r)
    /\ Finish(r)
    /\ UNCHANGED <<closed, raced>>

Token(r) ==
    /\ req[r].at = "claimed"
    /\ req[r].op = "token"
    /\ IF Accepts(r) THEN Redeem(r) ELSE UNCHANGED <<secrets, jwts>>
    /\ Finish(r)
    /\ UNCHANGED <<closed, raced>>

\* Variant: the UPDATE does not wait for the row lock.
EndSessionAtOnce(r) ==
    /\ req[r].at = "asked" /\ req[r].op = "sso_logout"
    /\ secrets' = Spend(secrets, {req[r].secret})
    /\ Finish(r)
    /\ UNCHANGED <<jwts, closed, raced>>

\* sso logout: revokes the session whatever its state.
EndSession(r) ==
    LET s == req[r].secret IN
    /\ req[r].at = "asked"
    /\ req[r].op = "sso_logout"
    /\ holder[s] = None
    /\ secrets' = Spend(secrets, {s})
    /\ Finish(r)
    /\ UNCHANGED <<jwts, closed, raced>>

\* password_login, the account found and its password (if it has one) right:
\* the browser session commits first, the refresh token in a second
\* transaction. It starts a family and is not tied to the session.
StartSession(r) ==
    /\ req[r] = Idle
    /\ Len(secrets) < MaxSecrets
    /\ \E u \in Users :
        /\ secrets' = Insert(secrets, NewSecret("session", u, None, 0, 0, FALSE))
        /\ req' = [req EXCEPT ![r] = [Idle EXCEPT !.op = "password_login",
                                                  !.at = "session", !.user = u]]
    /\ UNCHANGED <<holder, jwts, closed, raced>>

IssueRefreshToken(r) ==
    /\ req[r].at = "session"
    /\ Len(secrets) < MaxSecrets
    /\ secrets' = Insert(secrets, NewSecret("refresh", req[r].user, None, 0,
                                            Len(secrets) + 1, FALSE))
    /\ Finish(r)
    /\ UNCHANGED <<jwts, closed, raced>>

\* handoff: one INSERT for a caller with a bearer token; public clients only.
Handoff ==
    /\ Len(secrets) < MaxSecrets
    /\ \E u \in Users, c \in PublicClients :
        /\ \E s \in Issued : secrets[s].user = u
        /\ secrets' = Insert(secrets, NewSecret("native_launch", u, c, 0, 0, FALSE))
    /\ UNCHANGED <<holder, req, jwts, closed, raced>>

-----------------------------------------------------------------------------
(* The environment.                                                        *)

\* A lost connection, a killed worker, a cancelled request or a deadlock's
\* victim: the open transaction is rolled back. (MaxSecrets also ends here: a
\* request that could issue no more rows fails.)
Fault(r) ==
    /\ req[r] # Idle
    /\ Finish(r)
    /\ UNCHANGED <<secrets, jwts, closed, raced>>

\* Time passes a secret's expires_at; it matters for unspent ones only.
Expire(s) ==
    /\ s \in Issued
    /\ ~secrets[s].expired
    /\ ~secrets[s].spent
    /\ Cardinality({t \in Issued : secrets[t].expired}) < MaxExpired
    /\ secrets' = [secrets EXCEPT ![s].expired = TRUE]
    /\ UNCHANGED <<holder, req, jwts, closed, raced>>

Serve(r) ==
    \/ Claim(r) \/ Refuse(r) \/ Rotate(r) \/ ScanFamily(r) \/ LockRow(r)
    \/ RevokeFamily(r) \/ Authorize(r) \/ Launch(r) \/ BrowserToken(r)
    \/ Token(r) \/ EndSession(r) \/ IssueRefreshToken(r)

Next ==
    \/ \E r \in Requests : Present(r) \/ StartSession(r) \/ Serve(r) \/ Fault(r)
    \/ Handoff
    \/ \E s \in Ids : Expire(s)

Spec == Init /\ [][Next]_vars

-----------------------------------------------------------------------------
(* Properties.                                                             *)

\* The requests' records.
RequestRecords ==
    [op : Operations \cup {"password_login", "none"},
     at : {"idle", "asked", "claimed", "replayed", "revoking", "session"},
     secret : 0..MaxSecrets, client : Clients \cup {None}, verifies : BOOLEAN,
     live : BOOLEAN, user : Users \cup {None}, rows : SUBSET Ids]

\* Types; a request that has claimed a secret holds its row lock and no other.
TypeOK ==
    /\ secrets \in Seq(Secret) /\ Len(secrets) <= MaxSecrets
    /\ holder \in [Ids -> Requests \cup {None}]
    /\ req \in [Requests -> RequestRecords]
    /\ \A r \in Requests :
         /\ req[r].at = "claimed" => HeldBy(r) = {req[r].secret}
         /\ req[r].at \notin {"claimed", "revoking"} => HeldBy(r) = {}
         /\ HeldBy(r) \cup req[r].rows \subseteq Issued
    /\ jwts \in [Ids -> Seq({"token", "browser_token"})]
    /\ raced \cup closed \subseteq Ids

Children(s) == {t \in Issued : secrets[t].parent = s}

Uses(s) == Cardinality(Children(s)) + Len(jwts[s])

\* Two requests that present the same refresh token, code or ticket never both
\* get something for it, whatever waits, rollbacks and expiries happen between
\* them.  A secret that was used is marked, and a code or ticket is marked only by
\* the exchange that pays for it: a wrong verifier, a wrong client or a rollback
\* leaves it usable.
SingleUse ==
    \A s \in Issued : secrets[s].kind # "session" =>
        /\ Uses(s) <= 1
        /\ Uses(s) = 1 => secrets[s].spent
        /\ secrets[s].kind \in CodeFlows /\ secrets[s].spent => Uses(s) = 1

\* A device has at most one refresh token that works, even while a rotation, a
\* replay and a logout of its family overlap; after a logout or a detected replay
\* it has none, unless a rotation committed while the revocation ran: its UPDATE
\* cannot see a successor that was inserted after its snapshot.
LiveTokens ==
    \A f \in Ids :
        /\ \A s, t \in Family(f) : ~secrets[s].spent /\ ~secrets[t].spent => s = t
        /\ f \in closed \ raced => \A s \in Family(f) : secrets[s].spent

\* authorize commits no code for a browser session whose logout has committed
\* before, however long it waited between reading the session and the INSERT.
CodesOfLiveSessions ==
    [][\A t \in (DOMAIN secrets') \ (DOMAIN secrets) :
          secrets'[t].kind = "authorization_code" => ~secrets[secrets'[t].parent].spent]_vars

=============================================================================
