------------------------- MODULE CredentialsProofs -------------------------
(***************************************************************************)
(* Proofs about Credentials, for any number of accounts, clients, requests *)
(* and secrets.  The argument: what a request has claimed cannot be marked *)
(* by another before it gives its lock back, so only one request gets      *)
(* something for a secret, and a revocation that has visited its rows has  *)
(* visited the family, but for a successor issued after its snapshot.      *)
(***************************************************************************)
EXTENDS Credentials, SequenceTheorems, FiniteSetTheorems, TLAPS

\* Ids go up from a secret to those issued for it; a family is named after its
\* first token; families that were revoked exist; only codes give JWTs.
Ancestry ==
    /\ \A s \in Issued :
        /\ secrets[s].parent \in Issued \cup {0}
        /\ secrets[s].kind = "refresh" => secrets[s].family \in Issued
    /\ closed \subseteq Issued
    /\ \A s \in Ids \ Issued : jwts[s] = <<>>

\* What is not marked has not been used.
UnmarkedUnused ==
    \A s \in Issued : secrets[s].kind # "session" /\ ~secrets[s].spent =>
        Children(s) = {} /\ jwts[s] = <<>>

\* The family of a refresh token.
Kin(s) == {t \in Issued : secrets[t].kind = "refresh" /\ secrets[t].family = secrets[s].family}

\* A request has a secret of the right table; what it has claimed is not
\* marked yet; a revocation has, or is going to visit, the whole family but
\* for a successor that was inserted meanwhile.
Stage(rec, held) ==
    /\ rec.at \in {"asked", "claimed", "replayed", "revoking"} =>
        rec.secret \in Issued /\ Addresses(rec.op, rec.secret, rec.client)
    /\ rec.at = "asked" => rec.op \in Operations
    /\ rec.at = "claimed" =>
        /\ held = {rec.secret} /\ ~secrets[rec.secret].spent
        /\ rec.op \in Operations \ {"logout_refresh_token", "sso_logout"}
    /\ rec.at = "replayed" => rec.op = "refresh_login"
    /\ rec.at = "session" => rec.user \in Users
    /\ rec.at \notin {"claimed", "revoking"} => held = {}
    /\ rec.at # "revoking" => rec.rows = {}
    /\ rec.at = "revoking" =>
        /\ rec.op \in {"refresh_login", "logout_refresh_token"}
        /\ rec.rows \cup held \subseteq Kin(rec.secret)
        /\ secrets[rec.secret].family \in raced \/ Kin(rec.secret) \subseteq rec.rows \cup held

IInv ==
    /\ TypeOK /\ Ancestry /\ SingleUse /\ UnmarkedUnused /\ LiveTokens
    /\ \A r \in Requests : Stage(req[r], HeldBy(r))

\* What a step may do to the rows there are: mark those of S.
Evolves(S) ==
    /\ secrets' \in Seq(Secret) /\ Len(secrets') <= MaxSecrets
    /\ \A s \in Issued :
        /\ secrets'[s].kind = secrets[s].kind
        /\ secrets'[s].user = secrets[s].user
        /\ secrets'[s].client = secrets[s].client
        /\ secrets'[s].parent = secrets[s].parent
        /\ secrets'[s].family = secrets[s].family
        /\ secrets'[s].spent <=> secrets[s].spent \/ s \in S

Becomes(q, new, mine) == req'[q] = new /\ HeldBy(q)' = mine

\* A request goes on as it was while another marks S and issues N.
Undisturbed(q, S, N) ==
    /\ req'[q] = req[q] /\ HeldBy(q)' = HeldBy(q) /\ S \cap HeldBy(q) = {}
    /\ req[q].at = "revoking" => \A n \in N :
         secrets'[n].kind = "refresh" /\ secrets'[n].family = secrets[req[q].secret].family
             => secrets'[n].family \in raced'

-----------------------------------------------------------------------------
(* The rows. *)

LEMMA Shape ==
    ASSUME TypeOK
    PROVE  /\ Len(secrets) \in Nat /\ Len(secrets) <= MaxSecrets /\ MaxSecrets \in Nat
           /\ Issued = 1..Len(secrets) /\ Issued \subseteq Ids
           /\ Len(secrets) + 1 \notin Issued /\ 0 \notin Issued
           /\ \A s \in Issued : secrets[s] \in Secret
           /\ secrets \in Seq(Secret)
BY CredentialConstants, LenProperties, ElementOfSeq DEF TypeOK, Issued, Ids

LEMMA Spent ==
    ASSUME TypeOK, NEW S
    PROVE  LET rows == Spend(secrets, S) IN
           /\ rows \in Seq(Secret) /\ Len(rows) = Len(secrets)
           /\ \A s \in Issued :
                /\ rows[s].kind = secrets[s].kind
                /\ rows[s].user = secrets[s].user
                /\ rows[s].client = secrets[s].client
                /\ rows[s].parent = secrets[s].parent
                /\ rows[s].family = secrets[s].family
                /\ rows[s].spent <=> secrets[s].spent \/ s \in S
<1> DEFINE rows == Spend(secrets, S)
<1>1. /\ Len(secrets) \in Nat /\ DOMAIN secrets = 1..Len(secrets)
      /\ \A s \in 1..Len(secrets) : secrets[s] \in Secret
  BY Shape DEF Issued
<1>2. rows = [s \in 1..Len(secrets) |-> [secrets[s] EXCEPT !.spent = @ \/ s \in S]]
  BY <1>1 DEF Spend
<1>3. ASSUME NEW s \in 1..Len(secrets)
      PROVE  /\ rows[s] \in Secret
             /\ rows[s].kind = secrets[s].kind
             /\ rows[s].user = secrets[s].user
             /\ rows[s].client = secrets[s].client
             /\ rows[s].parent = secrets[s].parent
             /\ rows[s].family = secrets[s].family
             /\ rows[s].spent <=> secrets[s].spent \/ s \in S
  <2>1. rows[s] = [secrets[s] EXCEPT !.spent = @ \/ s \in S] /\ secrets[s] \in Secret
    BY <1>1, <1>2
  <2> HIDE DEF rows
  <2> QED
    BY <2>1 DEF Secret
<1>4. rows \in [1..Len(secrets) -> Secret]
  <2>1. \A s \in 1..Len(secrets) : rows[s] \in Secret
    BY <1>3
  <2> QED
    BY <1>2, <2>1
<1> HIDE DEF rows
<1>5. rows \in Seq(Secret)
  BY <1>1, <1>4, SeqDef
<1>6. Len(rows) = Len(secrets)
  <2>1. DOMAIN rows = 1..Len(secrets) /\ DOMAIN rows = 1..Len(rows) /\ Len(rows) \in Nat
    BY <1>4, <1>5, LenProperties
  <2> QED
    BY <1>1, <2>1
<1> QED
  BY <1>1, <1>3, <1>5, <1>6 DEF rows, Issued

LEMMA MarksOnly ==
    ASSUME TypeOK, NEW S, secrets' = Spend(secrets, S)
    PROVE  Evolves(S) /\ Issued' = Issued
<1>1. secrets' \in Seq(Secret) /\ Len(secrets') = Len(secrets)
  BY Spent
<1>2. Issued' = Issued
  BY <1>1, Shape, LenProperties DEF Issued
<1> QED
  BY <1>1, <1>2, Spent, Shape DEF Evolves

LEMMA Inserts ==
    ASSUME TypeOK, NEW S, NEW row \in Secret, Len(secrets) < MaxSecrets,
           secrets' = Insert(Spend(secrets, S), row)
    PROVE  /\ Evolves(S) /\ Issued' = Issued \cup {Len(secrets) + 1}
           /\ secrets'[Len(secrets) + 1] = row
           /\ Len(secrets) + 1 \in Ids \ Issued
<1>1. PICK rows : rows = Spend(secrets, S)
  OBVIOUS
<1>2. /\ rows \in Seq(Secret) /\ Len(rows) = Len(secrets) /\ Len(secrets) \in Nat
      /\ secrets' = Append(rows, row) /\ MaxSecrets \in Nat /\ Issued = 1..Len(secrets)
  BY <1>1, Spent, Shape DEF Insert
<1>3. /\ secrets' \in Seq(Secret) /\ Len(secrets') = Len(secrets) + 1
      /\ secrets'[Len(secrets) + 1] = row
      /\ \A s \in 1..Len(secrets) : secrets'[s] = rows[s]
  BY <1>2
<1>4. Issued' = Issued \cup {Len(secrets) + 1}
  BY <1>2, <1>3, LenProperties DEF Issued
<1>5. Evolves(S)
  <2>1. \A s \in Issued : secrets'[s] = rows[s]
    BY <1>2, <1>3
  <2> QED
    BY <1>1, <1>2, <1>3, <2>1, Spent DEF Evolves
<1> QED
  BY <1>2, <1>3, <1>4, <1>5 DEF Ids

LEMMA InsertsAlone ==
    ASSUME TypeOK, NEW row \in Secret, Len(secrets) < MaxSecrets,
           secrets' = Insert(secrets, row)
    PROVE  /\ Evolves({}) /\ Issued' = Issued \cup {Len(secrets) + 1}
           /\ secrets'[Len(secrets) + 1] = row
           /\ Len(secrets) + 1 \in Ids \ Issued
<1>2. /\ secrets \in Seq(Secret) /\ Len(secrets) \in Nat
      /\ secrets' = Append(secrets, row) /\ MaxSecrets \in Nat /\ Issued = 1..Len(secrets)
  BY Shape DEF Insert
<1>3. /\ secrets' \in Seq(Secret) /\ Len(secrets') = Len(secrets) + 1
      /\ secrets'[Len(secrets) + 1] = row
      /\ \A s \in 1..Len(secrets) : secrets'[s] = secrets[s]
  BY <1>2
<1>4. Issued' = Issued \cup {Len(secrets) + 1}
  BY <1>2, <1>3, LenProperties DEF Issued
<1>5. Evolves({})
  BY <1>2, <1>3 DEF Evolves
<1> QED
  BY <1>2, <1>3, <1>4, <1>5 DEF Ids

LEMMA ChildrenAfter ==
    ASSUME NEW S, Evolves(S), NEW N, Issued' = Issued \cup N, N \cap Issued = {}, NEW s
    PROVE  Children(s)' = Children(s) \cup {n \in N : secrets'[n].parent = s}
BY DEF Children, Evolves

LEMMA FamilyAfter ==
    ASSUME NEW S, Evolves(S), NEW N, Issued' = Issued \cup N, N \cap Issued = {}, NEW f
    PROVE  Family(f)' = Family(f) \cup
               {n \in N : secrets'[n].kind = "refresh" /\ secrets'[n].family = f}
BY DEF Family, Evolves

LEMMA KinAfter ==
    ASSUME NEW S, Evolves(S), NEW N, Issued' = Issued \cup N, N \cap Issued = {}, NEW s \in Issued
    PROVE  Kin(s)' = Kin(s) \cup
               {n \in N : secrets'[n].kind = "refresh" /\ secrets'[n].family = secrets[s].family}
BY DEF Kin, Evolves

\* What is issued is live, and the only live token of a family not closed.
Successor(n, N) ==
    /\ ~secrets'[n].spent
    /\ secrets'[n].parent \in Issued \cup {0}
    /\ secrets'[n].kind = "refresh" =>
         /\ secrets'[n].family \in Issued \cup N
         /\ secrets'[n].family \notin closed' \ raced'
         /\ \A t \in Issued :
              secrets[t].kind = "refresh" /\ secrets[t].family = secrets'[n].family
                  => secrets'[t].spent

\* A secret is marked if and only if it is used, or is a token that is revoked.
Accounted(s, S) ==
    secrets[s].kind # "session" =>
        \/ /\ Children(s)' = Children(s) /\ jwts'[s] = jwts[s]
           /\ s \in S => secrets[s].kind = "refresh"
        \/ s \in S /\ Uses(s)' = 1

Revoked(f) == f \in raced' \/ \A s \in Family(f)' : secrets'[s].spent

\* A step that marks S and issues at most one secret keeps what is said of the
\* rows, when it uses what it marks, marks what it uses, and the successor is
\* the only live token of its family.
LEMMA RowsMove ==
    ASSUME IInv, NEW S, Evolves(S),
           NEW N, N \subseteq {Len(secrets) + 1}, Issued' = Issued \cup N,
           \A n \in N : Successor(n, N),
           \A s \in Ids \ Issued : jwts'[s] = <<>>,
           \A s \in Issued : Accounted(s, S),
           closed' \subseteq Issued, raced \subseteq raced',
           \A f \in closed' \ closed : Revoked(f)
    PROVE  Ancestry' /\ SingleUse' /\ UnmarkedUnused' /\ LiveTokens'
<1>a. \A n \in N : /\ ~secrets'[n].spent
                   /\ secrets'[n].parent \in Issued \cup {0}
                   /\ secrets'[n].kind = "refresh" =>
                        /\ secrets'[n].family \in Issued \cup N
                        /\ secrets'[n].family \notin closed' \ raced'
                        /\ \A t \in Issued :
                             secrets[t].kind = "refresh" /\ secrets[t].family = secrets'[n].family
                                 => secrets'[t].spent
  BY DEF Successor
<1>b. \A s \in Issued : secrets[s].kind # "session" =>
          \/ /\ Children(s)' = Children(s) /\ jwts'[s] = jwts[s]
             /\ s \in S => secrets[s].kind = "refresh"
          \/ s \in S /\ Uses(s)' = 1
  BY DEF Accounted
<1>c. \A f \in closed' \ closed : f \in raced' \/ \A s \in Family(f)' : secrets'[s].spent
  BY DEF Revoked
<1> USE <1>a, <1>b, <1>c
<1>1. TypeOK /\ Ancestry /\ SingleUse /\ UnmarkedUnused /\ LiveTokens
  BY DEF IInv
<1>2. N \cap Issued = {} /\ 0 \notin Issued
  BY <1>1, Shape
<1>3. Ancestry'
  BY <1>1 DEF Ancestry, Evolves
<1>4. \A n \in N : Children(n)' = {} /\ jwts'[n] = <<>> /\ n \in Ids
  <2> SUFFICES ASSUME NEW n \in N PROVE Children(n)' = {} /\ jwts'[n] = <<>> /\ n \in Ids
    OBVIOUS
  <2>1. Children(n) = {} /\ n \notin Issued \cup {0}
    BY <1>1, <1>2, Shape DEF Ancestry, Children
  <2>2. n \in Ids
    <3>1. secrets' \in Seq(Secret) /\ Len(secrets') <= MaxSecrets
      BY DEF Evolves
    <3>2. n \in 1..Len(secrets') /\ Len(secrets') \in Nat
      BY <3>1, LenProperties DEF Issued
    <3> QED
      BY <3>1, <3>2, CredentialConstants DEF Ids
  <2>3. \A t \in Issued' : secrets'[t].parent # n
    <3>1. \A t \in Issued : secrets'[t].parent = secrets[t].parent /\ secrets[t].parent # n
      BY <2>1 DEF Children, Evolves
    <3>2. \A t \in N : secrets'[t].parent # n
      BY <1>a, <2>1
    <3> QED
      BY <3>1, <3>2
  <2>4. Children(n)' = {}
    BY <2>3 DEF Children
  <2> QED
    BY <2>1, <2>2, <2>4
<1>5. ASSUME NEW n \in N PROVE Uses(n)' = 0
  <2>1. Cardinality({}) = 0 /\ Len(<<>>) = 0
    BY FS_EmptySet
  <2>2. Children(n)' = {} /\ jwts'[n] = <<>>
    BY <1>4
  <2>3. Uses(n)' = Cardinality({}) + Len(<<>>)
    BY <2>2 DEF Uses
  <2> QED
    BY <2>1, <2>3
<1>6. SingleUse'
  <2> SUFFICES ASSUME NEW s \in Issued', secrets'[s].kind # "session"
               PROVE  /\ Uses(s)' <= 1
                      /\ Uses(s)' = 1 => secrets'[s].spent
                      /\ secrets'[s].kind \in CodeFlows /\ secrets'[s].spent => Uses(s)' = 1
    BY DEF SingleUse
  <2>1. CASE s \in N
    BY <1>5, <2>1
  <2>2. CASE s \in Issued
    <3>1. /\ secrets'[s].kind = secrets[s].kind
          /\ secrets'[s].spent <=> secrets[s].spent \/ s \in S
      BY <2>2 DEF Evolves
    <3>2. CASE s \in S /\ Uses(s)' = 1
      BY <3>1, <3>2
    <3>3. CASE /\ Children(s)' = Children(s) /\ jwts'[s] = jwts[s]
               /\ s \in S => secrets[s].kind = "refresh"
      <4>1. Uses(s)' = Uses(s)
        BY <3>3 DEF Uses
      <4>2. secrets[s].kind \in CodeFlows => s \notin S
        BY <3>3 DEF CodeFlows
      <4> QED
        BY <1>1, <2>2, <3>1, <4>1, <4>2 DEF SingleUse
    <3> QED
      BY <2>2, <3>1, <3>2, <3>3
  <2> QED
    BY <2>1, <2>2
<1>7. UnmarkedUnused'
  <2> SUFFICES ASSUME NEW s \in Issued', secrets'[s].kind # "session", ~secrets'[s].spent
               PROVE  Children(s)' = {} /\ jwts'[s] = <<>>
    BY DEF UnmarkedUnused
  <2>1. CASE s \in N
    BY <1>4, <2>1
  <2>2. CASE s \in Issued
    BY <1>1, <2>2 DEF UnmarkedUnused, Evolves
  <2> QED
    BY <2>1, <2>2
<1>8. LiveTokens'
  <2> SUFFICES ASSUME NEW f \in Ids
               PROVE  /\ \A s, t \in Family(f)' : ~secrets'[s].spent /\ ~secrets'[t].spent => s = t
                      /\ f \in closed' \ raced' => \A s \in Family(f)' : secrets'[s].spent
    BY DEF LiveTokens
  <2> DEFINE New == {n \in N : secrets'[n].kind = "refresh" /\ secrets'[n].family = f}
  <2>1. Family(f)' = Family(f) \cup New
    BY <1>2, FamilyAfter
  <2>2. \A s \in Family(f) : secrets[s].spent => secrets'[s].spent
    BY DEF Family, Evolves
  <2>3. \A s, t \in Family(f) : ~secrets[s].spent /\ ~secrets[t].spent => s = t
    BY <1>1 DEF LiveTokens
  <2>4. \A n \in New, s \in Family(f) : secrets'[s].spent
    BY DEF Family
  <2>5. New # {} => f \notin closed' \ raced'
    OBVIOUS
  <2>6. \A s, t \in New : s = t
    OBVIOUS
  <2>7. f \in closed \ raced => \A s \in Family(f) : secrets[s].spent
    BY <1>1 DEF LiveTokens
  <2> HIDE DEF New
  <2>8. \A s, t \in Family(f)' : ~secrets'[s].spent /\ ~secrets'[t].spent => s = t
    BY <2>1, <2>2, <2>3, <2>4, <2>6
  <2>9. ASSUME f \in closed' \ raced' PROVE \A s \in Family(f)' : secrets'[s].spent
    <3>1. CASE f \in closed
      BY <2>1, <2>2, <2>5, <2>7, <2>9, <3>1
    <3>2. CASE f \notin closed
      BY <2>9, <3>2
    <3> QED
      BY <3>1, <3>2
  <2> QED
    BY <2>8, <2>9
<1> QED
  BY <1>3, <1>6, <1>7, <1>8

-----------------------------------------------------------------------------
(* The requests. *)

\* A request another one does not disturb.
LEMMA StageStays ==
    ASSUME IInv, NEW S, Evolves(S), NEW N, Issued' = Issued \cup N, N \cap Issued = {},
           raced \subseteq raced',
           NEW rec, NEW held, Stage(rec, held), S \cap held = {},
           rec.at = "revoking" => \A n \in N :
               secrets'[n].kind = "refresh" /\ secrets'[n].family = secrets[rec.secret].family
                   => secrets'[n].family \in raced'
    PROVE  Stage(rec, held)'
<1>1. rec.at \in {"asked", "claimed", "replayed", "revoking"} =>
        /\ rec.secret \in Issued /\ rec.secret \in Issued'
        /\ Addresses(rec.op, rec.secret, rec.client)
        /\ Addresses(rec.op, rec.secret, rec.client)'
        /\ secrets'[rec.secret].family = secrets[rec.secret].family
  BY DEF Stage, Addresses, Evolves
<1>2. rec.at = "claimed" => ~secrets'[rec.secret].spent
  BY DEF Stage, Evolves
<1>3. ASSUME rec.at = "revoking"
      PROVE  /\ rec.rows \cup held \subseteq Kin(rec.secret)'
             /\ secrets'[rec.secret].family \in raced' \/ Kin(rec.secret)' \subseteq rec.rows \cup held
  <2>1. PICK f : f = secrets[rec.secret].family
    OBVIOUS
  <2>2. Kin(rec.secret)' = Kin(rec.secret) \cup
          {n \in N : secrets'[n].kind = "refresh" /\ secrets'[n].family = f}
    BY <1>1, <1>3, <2>1, KinAfter
  <2>3. /\ rec.rows \cup held \subseteq Kin(rec.secret)
        /\ f \in raced \/ Kin(rec.secret) \subseteq rec.rows \cup held
    BY <1>3, <2>1 DEF Stage
  <2> QED
    BY <1>1, <1>3, <2>1, <2>2, <2>3
<1> QED
  BY <1>1, <1>2, <1>3 DEF Stage

LEMMA Finished ==
    ASSUME TypeOK, NEW r \in Requests, Finish(r)
    PROVE  /\ req' = [req EXCEPT ![r] = Idle] /\ req' \in [Requests -> RequestRecords]
           /\ holder' \in [Ids -> Requests \cup {None}]
           /\ HeldBy(r)' = {} /\ req'[r] = Idle
           /\ \A q \in Requests \ {r} : req'[q] = req[q] /\ HeldBy(q)' = HeldBy(q)
<1>1. req \in [Requests -> RequestRecords] /\ holder \in [Ids -> Requests \cup {None}]
  BY DEF TypeOK
<1>2. Idle \in RequestRecords
  BY CredentialConstants DEF Idle, RequestRecords
<1>3. holder' = [s \in Ids |-> IF holder[s] = r THEN None ELSE holder[s]]
  BY DEF Finish, Unlock
<1>4. HeldBy(r)' = {} /\ \A q \in Requests \ {r} : HeldBy(q)' = HeldBy(q)
  BY <1>3, CredentialConstants DEF HeldBy
<1>5. holder' \in [Ids -> Requests \cup {None}]
  BY <1>1, <1>3
<1>6. req' = [req EXCEPT ![r] = Idle]
  BY DEF Finish
<1> QED
  BY <1>1, <1>2, <1>4, <1>5, <1>6

LEMMA IdleStage == Stage(Idle, {}) /\ Stage(Idle, {})'
BY DEF Stage, Idle

\* Types from the stages.
LEMMA StagesType ==
    ASSUME TypeOK, NEW S, Evolves(S), Issued \subseteq Issued',
           holder' \in [Ids -> Requests \cup {None}],
           req' \in [Requests -> RequestRecords],
           \A q \in Requests : Stage(req[q], HeldBy(q))',
           jwts' \in [Ids -> Seq({"token", "browser_token"})],
           raced' \cup closed' \subseteq Ids
    PROVE  TypeOK'
<1>1. \A q \in Requests :
        /\ req'[q].at = "claimed" => HeldBy(q)' = {req'[q].secret}
        /\ req'[q].at \notin {"claimed", "revoking"} => HeldBy(q)' = {}
        /\ HeldBy(q)' \cup req'[q].rows \subseteq Issued'
  <2> SUFFICES ASSUME NEW q \in Requests
               PROVE  /\ req'[q].at = "claimed" => HeldBy(q)' = {req'[q].secret}
                      /\ req'[q].at \notin {"claimed", "revoking"} => HeldBy(q)' = {}
                      /\ HeldBy(q)' \cup req'[q].rows \subseteq Issued'
    OBVIOUS
  <2>1. Stage(req[q], HeldBy(q))'
    OBVIOUS
  <2> QED
    BY <2>1 DEF Stage, Kin
<1> QED
  BY <1>1 DEF TypeOK, Evolves

LEMMA UndisturbedStays ==
    ASSUME IInv, NEW S, Evolves(S), NEW N, Issued' = Issued \cup N, N \cap Issued = {},
           raced \subseteq raced', NEW q \in Requests, Undisturbed(q, S, N),
           NEW rec, rec = req'[q], NEW held, held = HeldBy(q)'
    PROVE  Stage(rec, held)'
<1>1. rec = req[q] /\ held = HeldBy(q) /\ S \cap held = {}
  BY DEF Undisturbed
<1>2. Stage(rec, held)
  BY <1>1 DEF IInv
<1>3. rec.at = "revoking" => \A n \in N :
        secrets'[n].kind = "refresh" /\ secrets'[n].family = secrets[rec.secret].family
            => secrets'[n].family \in raced'
  BY <1>1 DEF Undisturbed
<1> QED
  BY <1>1, <1>2, <1>3, StageStays

\* The stage of every request after a step of some requests, which may mark S and
\* issue N.
LEMMA StagesAfter ==
    ASSUME IInv, NEW S, Evolves(S), NEW N, Issued' = Issued \cup N, N \cap Issued = {},
           raced \subseteq raced',
           NEW new, NEW mine, Stage(new, mine)',
           \A q \in Requests : Becomes(q, new, mine) \/ Undisturbed(q, S, N),
           NEW q \in Requests, NEW rec, rec = req'[q], NEW held, held = HeldBy(q)'
    PROVE  Stage(rec, held)'
<1>1. CASE Becomes(q, new, mine)
  BY <1>1 DEF Becomes
<1>2. CASE Undisturbed(q, S, N)
  BY <1>2, UndisturbedStays
<1> QED
  BY <1>1, <1>2

LEMMA RequestMove ==
    ASSUME IInv, NEW S, Evolves(S), NEW N, Issued' = Issued \cup N, N \cap Issued = {},
           Ancestry' /\ SingleUse' /\ UnmarkedUnused' /\ LiveTokens',
           jwts' \in [Ids -> Seq({"token", "browser_token"})],
           raced \subseteq raced', raced' \cup closed' \subseteq Ids,
           req' \in [Requests -> RequestRecords], holder' \in [Ids -> Requests \cup {None}],
           NEW new, NEW mine, Stage(new, mine)',
           \A q \in Requests : Becomes(q, new, mine) \/ Undisturbed(q, S, N)
    PROVE  IInv'
<1>1. \A q \in Requests : \A rec, held : rec = req'[q] /\ held = HeldBy(q)' => Stage(rec, held)'
  BY StagesAfter
<1>2. \A q \in Requests : Stage(req[q], HeldBy(q))'
  BY <1>1 DEF Stage
<1>3. TypeOK'
  BY <1>2, StagesType DEF IInv
<1> QED
  BY <1>2, <1>3 DEF IInv

LEMMA RowsStay ==
    ASSUME IInv, UNCHANGED <<secrets, jwts, closed, raced>>
    PROVE  /\ Evolves({}) /\ Issued' = Issued
           /\ Ancestry' /\ SingleUse' /\ UnmarkedUnused' /\ LiveTokens'
<1>1. Issued' = Issued /\ Evolves({})
  BY Shape DEF IInv, Issued, Evolves
<1>2. Ancestry' /\ UnmarkedUnused'
  BY <1>1 DEF IInv, Ancestry, UnmarkedUnused, Children
<1>3. SingleUse'
  <2>1. \A s : Uses(s)' = Uses(s)
    BY <1>1 DEF Uses, Children
  <2> QED
    BY <1>1, <2>1 DEF IInv, SingleUse
<1>4. LiveTokens'
  BY <1>1 DEF IInv, LiveTokens, Family
<1> QED
  BY <1>1, <1>2, <1>3, <1>4

\* A step of one request that changes no row.
LEMMA QuietMove ==
    ASSUME IInv, UNCHANGED <<secrets, jwts, closed, raced>>,
           NEW r \in Requests, NEW rec \in RequestRecords, NEW held,
           req' = [req EXCEPT ![r] = rec],
           holder' \in [Ids -> Requests \cup {None}], HeldBy(r)' = held,
           \A q \in Requests \ {r} : HeldBy(q)' = HeldBy(q),
           Stage(rec, held)'
    PROVE  IInv'
<1>1. req \in [Requests -> RequestRecords]
  BY DEF IInv, TypeOK
<1>2. /\ req' \in [Requests -> RequestRecords] /\ req'[r] = rec
      /\ \A q \in Requests \ {r} : req'[q] = req[q]
  BY <1>1
<1>4. /\ jwts' \in [Ids -> Seq({"token", "browser_token"})]
      /\ raced' \cup closed' \subseteq Ids
  BY DEF IInv, TypeOK
<1>5. PICK none : none = {}
  OBVIOUS
<1>6. Evolves(none) /\ Issued' = Issued \cup none /\ none \cap Issued = {}
  BY <1>5, RowsStay
<1>7. Ancestry' /\ SingleUse' /\ UnmarkedUnused' /\ LiveTokens' /\ raced \subseteq raced'
  BY RowsStay
<1>8. \A q \in Requests : Becomes(q, rec, held) \/ Undisturbed(q, none, none)
  BY <1>2, <1>5 DEF Undisturbed, Becomes
<1> QED
  BY <1>2, <1>4, <1>6, <1>7, <1>8, RequestMove

LEMMA Mine ==
    ASSUME IInv, NEW r \in Requests
    PROVE  /\ TypeOK /\ Stage(req[r], HeldBy(r)) /\ req[r] \in RequestRecords
           /\ req \in [Requests -> RequestRecords]
           /\ holder \in [Ids -> Requests \cup {None}]
BY DEF IInv, TypeOK

LEMMA StopKeeps ==
    ASSUME IInv, NEW r \in Requests, Finish(r), UNCHANGED <<secrets, jwts, closed, raced>>
    PROVE  IInv'
<1>1. Idle \in RequestRecords
  BY CredentialConstants DEF Idle, RequestRecords
<1>2. Stage(Idle, {})'
  BY IdleStage
<1> QED
  BY <1>1, <1>2, Mine, Finished, QuietMove

LEMMA PresentKeeps ==
    ASSUME IInv, NEW r \in Requests, Present(r)
    PROVE  IInv'
<1>1. PICK op \in Operations, s \in Issued, c \in Clients \cup {None}, v \in BOOLEAN :
        /\ Addresses(op, s, c)
        /\ req' = [req EXCEPT ![r] = Presented(op, s, c, v)]
  BY DEF Present
<1>2. PICK rec : rec = Presented(op, s, c, v)
  OBVIOUS
<1>3. s \in 0..MaxSecrets
  BY Shape DEF IInv
<1>4. /\ rec \in RequestRecords /\ rec.op = op /\ rec.at = "asked" /\ rec.secret = s
      /\ rec.client = c /\ rec.rows = {}
  BY <1>2, <1>3 DEF RequestRecords, Idle, Presented
<1>5. UNCHANGED <<secrets, holder, jwts, closed, raced>>
  BY DEF Present
<1>6. HeldBy(r)' = {} /\ \A q \in Requests : HeldBy(q)' = HeldBy(q)
  <2>1. req[r].at = "idle"
    BY DEF Present, Idle
  <2> QED
    BY <1>5, <2>1, Mine DEF Stage, HeldBy
<1>7. Issued' = Issued
  BY <1>5 DEF Issued
<1>8. Stage(rec, {})'
  BY <1>1, <1>4, <1>5, <1>7 DEF Stage, Addresses
<1> QED
  BY <1>1, <1>2, <1>4, <1>5, <1>6, <1>8, Mine, QuietMove

LEMMA ClaimKeeps ==
    ASSUME IInv, NEW r \in Requests, Claim(r)
    PROVE  IInv'
<1>1. PICK old : old = req[r]
  OBVIOUS
<1>2. PICK s : s = old.secret
  OBVIOUS
<1>3. /\ Stage(old, HeldBy(r)) /\ old \in RequestRecords /\ old.at = "asked"
      /\ old.op \notin {"logout_refresh_token", "sso_logout"}
      /\ holder[s] = None /\ ~secrets[s].spent
      /\ holder' = [holder EXCEPT ![s] = r]
      /\ holder \in [Ids -> Requests \cup {None}]
      /\ UNCHANGED <<secrets, jwts, closed, raced>>
  BY <1>1, <1>2, Mine DEF Claim, Matches
<1>4. s \in Issued /\ s \in Ids /\ Issued' = Issued
  BY <1>2, <1>3, Shape DEF Stage, IInv, Issued
<1>5. PICK rec : rec = [old EXCEPT !.at = "claimed"]
  OBVIOUS
<1>6. /\ rec \in RequestRecords /\ rec.op = old.op /\ rec.at = "claimed" /\ rec.secret = s
      /\ rec.client = old.client /\ rec.rows = old.rows
  BY <1>2, <1>3, <1>5 DEF RequestRecords
<1>7. req' = [req EXCEPT ![r] = rec]
  BY <1>1, <1>5 DEF Claim
<1>8. holder' \in [Ids -> Requests \cup {None}]
  BY <1>3
<1>9. HeldBy(r)' = {s}
  <2>1. HeldBy(r) = {}
    BY <1>3 DEF Stage
  <2> QED
    BY <1>3, <1>4, <2>1 DEF HeldBy
<1>10. \A q \in Requests \ {r} : HeldBy(q)' = HeldBy(q)
  BY <1>3, <1>4, CredentialConstants DEF HeldBy
<1>11. Stage(rec, {s})'
  BY <1>2, <1>3, <1>4, <1>6 DEF Stage, Addresses
<1> QED
  BY <1>3, <1>6, <1>7, <1>8, <1>9, <1>10, <1>11, QuietMove

LEMMA RefuseKeeps ==
    ASSUME IInv, NEW r \in Requests, Refuse(r)
    PROVE  IInv'
<1>1. CASE Finish(r)
  BY <1>1, StopKeeps DEF Refuse
<1>2. CASE ~Finish(r)
  <2>1. PICK old : old = req[r]
    OBVIOUS
  <2>2. /\ Stage(old, HeldBy(r)) /\ old \in RequestRecords /\ old.at = "asked"
        /\ old.op = "refresh_login"
        /\ UNCHANGED <<secrets, holder, jwts, closed, raced>>
    BY <1>2, <2>1, Mine DEF Refuse
  <2>3. PICK rec : rec = [old EXCEPT !.at = "replayed"]
    OBVIOUS
  <2>4. /\ rec \in RequestRecords /\ rec.op = old.op /\ rec.at = "replayed"
        /\ rec.secret = old.secret /\ rec.client = old.client /\ rec.rows = old.rows
    BY <2>2, <2>3 DEF RequestRecords
  <2>5. req' = [req EXCEPT ![r] = rec]
    BY <1>2, <2>1, <2>3 DEF Refuse
  <2>6. HeldBy(r)' = {} /\ \A q \in Requests : HeldBy(q)' = HeldBy(q)
    BY <2>2 DEF Stage, HeldBy
  <2>7. Stage(rec, {})'
    BY <2>2, <2>4 DEF Stage, Addresses, Issued
  <2> QED
    BY <2>2, <2>4, <2>5, <2>6, <2>7, Mine, QuietMove
<1> QED
  BY <1>1, <1>2

LEMMA ScanFamilyKeeps ==
    ASSUME IInv, NEW r \in Requests, ScanFamily(r)
    PROVE  IInv'
<1>1. PICK old : old = req[r]
  OBVIOUS
<1>2. /\ Stage(old, HeldBy(r)) /\ old \in RequestRecords
      /\ \/ old.at = "replayed"
         \/ old.at = "asked" /\ old.op = "logout_refresh_token"
      /\ UNCHANGED <<secrets, holder, jwts, closed, raced>>
  BY <1>1, Mine DEF ScanFamily
<1>3. /\ old.secret \in Issued /\ secrets[old.secret].kind = "refresh"
      /\ old.op \in {"refresh_login", "logout_refresh_token"}
  BY <1>2 DEF Stage, Addresses
<1>4. PICK rec : rec = [old EXCEPT !.at = "revoking", !.rows = Family(secrets[old.secret].family)]
  OBVIOUS
<1>5. Family(secrets[old.secret].family) = Kin(old.secret) /\ Kin(old.secret) \subseteq Ids
  BY Shape DEF Family, Kin, IInv
<1>6. /\ rec \in RequestRecords /\ rec.op = old.op /\ rec.at = "revoking"
      /\ rec.secret = old.secret /\ rec.client = old.client /\ rec.rows = Kin(old.secret)
  BY <1>2, <1>4, <1>5 DEF RequestRecords
<1>7. req' = [req EXCEPT ![r] = rec]
  BY <1>1, <1>4 DEF ScanFamily
<1>8. HeldBy(r)' = {} /\ \A q \in Requests : HeldBy(q)' = HeldBy(q)
  BY <1>2 DEF Stage, HeldBy
<1>9. Stage(rec, {})'
  BY <1>2, <1>3, <1>6 DEF Stage, Addresses, Issued, Kin
<1> QED
  BY <1>2, <1>6, <1>7, <1>8, <1>9, Mine, QuietMove

LEMMA LockRowKeeps ==
    ASSUME IInv, NEW r \in Requests, LockRow(r)
    PROVE  IInv'
<1>1. PICK old : old = req[r]
  OBVIOUS
<1>2. PICK s \in old.rows :
        /\ holder[s] = None
        /\ holder' = [holder EXCEPT ![s] = r]
        /\ req' = [req EXCEPT ![r].rows = @ \ {s}]
  BY <1>1 DEF LockRow
<1>3. /\ Stage(old, HeldBy(r)) /\ old \in RequestRecords /\ old.at = "revoking"
      /\ holder \in [Ids -> Requests \cup {None}]
      /\ UNCHANGED <<secrets, jwts, closed, raced>>
  BY <1>1, Mine DEF LockRow
<1>4. PICK rec : rec = [old EXCEPT !.rows = @ \ {s}]
  OBVIOUS
<1>5. /\ rec \in RequestRecords /\ rec.op = old.op /\ rec.at = "revoking"
      /\ rec.secret = old.secret /\ rec.client = old.client /\ rec.rows = old.rows \ {s}
      /\ s \in Ids
  BY <1>3, <1>4 DEF RequestRecords
<1>6. req' = [req EXCEPT ![r] = rec]
  BY <1>1, <1>2, <1>4, Mine
<1>7. holder' \in [Ids -> Requests \cup {None}]
  BY <1>2, <1>3
<1>8. PICK held : held = HeldBy(r) \cup {s}
  OBVIOUS
<1>9. HeldBy(r)' = held
  BY <1>2, <1>3, <1>5, <1>8 DEF HeldBy
<1>10. \A q \in Requests \ {r} : HeldBy(q)' = HeldBy(q)
  BY <1>2, <1>3, <1>5, CredentialConstants DEF HeldBy
<1>11. Stage(rec, held)'
  <2>1. Stage(rec, held)
    BY <1>3, <1>5, <1>8 DEF Stage
  <2> QED
    BY <1>3, <2>1 DEF Stage, Addresses, Issued, Kin
<1> QED
  BY <1>3, <1>5, <1>6, <1>7, <1>9, <1>10, <1>11, QuietMove

-----------------------------------------------------------------------------
(* Steps that change rows. *)

\* A revocation that is going on has nothing to do with what is issued, or the
\* family is known to have been raced.
Spares(q, N) ==
    req[q].at = "revoking" => \A n \in N :
        secrets'[n].kind = "refresh" /\ secrets'[n].family = secrets[req[q].secret].family
            => secrets'[n].family \in raced'

NotHeld(q, S) == S \cap HeldBy(q) = {}

LEMMA FinishMove ==
    ASSUME IInv, NEW S, Evolves(S), NEW N, Issued' = Issued \cup N, N \cap Issued = {},
           Ancestry' /\ SingleUse' /\ UnmarkedUnused' /\ LiveTokens',
           jwts' \in [Ids -> Seq({"token", "browser_token"})],
           raced \subseteq raced', raced' \cup closed' \subseteq Ids,
           NEW r \in Requests, Finish(r),
           \A q \in Requests \ {r} : NotHeld(q, S) /\ Spares(q, N)
    PROVE  IInv'
<1>1. TypeOK
  BY DEF IInv
<1>2. /\ req' \in [Requests -> RequestRecords]
      /\ holder' \in [Ids -> Requests \cup {None}]
      /\ HeldBy(r)' = {} /\ req'[r] = Idle
      /\ \A q \in Requests \ {r} : req'[q] = req[q] /\ HeldBy(q)' = HeldBy(q)
  BY <1>1, Finished
<1>3. PICK new : new = Idle
  OBVIOUS
<1>4. PICK mine : mine = {}
  OBVIOUS
<1>5. Stage(new, mine)'
  BY <1>3, <1>4, IdleStage
<1>6. \A q \in Requests : Becomes(q, new, mine) \/ Undisturbed(q, S, N)
  BY <1>2, <1>3, <1>4 DEF Becomes, Undisturbed, NotHeld, Spares
<1>7. /\ req' \in [Requests -> RequestRecords]
      /\ holder' \in [Ids -> Requests \cup {None}]
  BY <1>2
<1> QED
  BY <1>5, <1>6, <1>7, RequestMove

LEMMA Claimed ==
    ASSUME IInv, NEW r \in Requests, req[r].at = "claimed", NEW s, s = req[r].secret
    PROVE  /\ s \in Issued /\ s \in Ids /\ secrets[s] \in Secret /\ ~secrets[s].spent
           /\ HeldBy(r) = {s}
           /\ Addresses(req[r].op, s, req[r].client)
           /\ req[r].op \in Operations \ {"logout_refresh_token", "sso_logout"}
           /\ \A q \in Requests \ {r} : NotHeld(q, {s})
           /\ jwts \in [Ids -> Seq({"token", "browser_token"})]
           /\ raced \cup closed \subseteq Ids /\ closed \subseteq Issued
           /\ \A t \in Ids \ Issued : jwts[t] = <<>>
<1>1. TypeOK /\ Stage(req[r], HeldBy(r)) /\ Ancestry
  BY Mine DEF IInv
<1>2. s \in Issued /\ HeldBy(r) = {s}
  BY <1>1 DEF Stage
<1>3. \A q \in Requests \ {r} : NotHeld(q, {s})
  BY <1>2 DEF HeldBy, NotHeld
<1> QED
  BY <1>1, <1>2, <1>3, Shape DEF Stage, TypeOK, Ancestry

LEMMA NewRow ==
    ASSUME NEW kind \in SecretKinds, NEW user \in Users, NEW client \in Clients \cup {None},
           NEW parent \in 0..MaxSecrets, NEW family \in 0..MaxSecrets, NEW pkce \in BOOLEAN
    PROVE  LET row == NewSecret(kind, user, client, parent, family, pkce) IN
           /\ row \in Secret /\ row.kind = kind /\ row.parent = parent /\ row.family = family
           /\ ~row.spent
BY DEF NewSecret, Secret

\* Consuming a code for a JWT.
LEMMA RedeemKeeps ==
    ASSUME IInv, NEW r \in Requests, req[r].at = "claimed",
           req[r].op \in {"token", "browser_token"}, Redeem(r), Finish(r),
           UNCHANGED <<closed, raced>>
    PROVE  IInv'
<1>1. PICK s : s = req[r].secret
  OBVIOUS
<1>2. /\ s \in Issued /\ s \in Ids /\ ~secrets[s].spent /\ secrets[s].kind \in CodeFlows
      /\ \A q \in Requests \ {r} : NotHeld(q, {s})
      /\ jwts \in [Ids -> Seq({"token", "browser_token"})]
      /\ raced \cup closed \subseteq Ids /\ closed \subseteq Issued
      /\ \A t \in Ids \ Issued : jwts[t] = <<>>
  BY <1>1, Claimed DEF Addresses, CodeFlows
<1>3. TypeOK /\ UnmarkedUnused
  BY DEF IInv
<1>4. PICK S : S = {s}
  OBVIOUS
<1>5. PICK N : N = {}
  OBVIOUS
<1>6. Evolves(S) /\ Issued' = Issued \cup N /\ N \cap Issued = {} /\ N \subseteq {Len(secrets) + 1}
  BY <1>1, <1>3, <1>4, <1>5, MarksOnly DEF Redeem
<1>7. jwts' = [jwts EXCEPT ![s] = Append(@, req[r].op)]
  BY <1>1 DEF Redeem
<1>8. jwts[s] = <<>> /\ Children(s) = {}
  BY <1>2, <1>3 DEF UnmarkedUnused, CodeFlows
<1>9. \A t : Children(t)' = Children(t)
  BY <1>5, <1>6 DEF Children, Evolves
<1>10. Uses(s)' = 1
  <2>1. jwts'[s] = <<req[r].op>> /\ Children(s)' = {}
    BY <1>2, <1>7, <1>8, <1>9
  <2>2. Cardinality({}) = 0 /\ Len(<<req[r].op>>) = 1
    BY FS_EmptySet
  <2>3. Uses(s)' = Cardinality({}) + Len(<<req[r].op>>)
    BY <2>1 DEF Uses
  <2> QED
    BY <2>2, <2>3
<1>11. /\ jwts' \in [Ids -> Seq({"token", "browser_token"})]
       /\ \A t \in Ids \ {s} : jwts'[t] = jwts[t]
  BY <1>2, <1>7
<1>12. \A t \in Issued : Accounted(t, S)
  BY <1>3, <1>4, <1>9, <1>10, <1>11, Shape DEF Accounted
<1>13. /\ \A n \in N : Successor(n, N)
       /\ \A t \in Ids \ Issued : jwts'[t] = <<>>
       /\ closed' \subseteq Issued /\ raced \subseteq raced' /\ raced' \cup closed' \subseteq Ids
       /\ \A f \in closed' \ closed : Revoked(f)
  BY <1>2, <1>5, <1>11
<1>15. Ancestry' /\ SingleUse' /\ UnmarkedUnused' /\ LiveTokens'
  BY <1>6, <1>12, <1>13, RowsMove
<1>14. \A q \in Requests \ {r} : NotHeld(q, S) /\ Spares(q, N)
  BY <1>2, <1>4, <1>5 DEF Spares
<1> QED
  BY <1>6, <1>11, <1>13, <1>14, <1>15, FinishMove

LEMMA BrowserTokenKeeps ==
    ASSUME IInv, NEW r \in Requests, BrowserToken(r)
    PROVE  IInv'
BY RedeemKeeps DEF BrowserToken

LEMMA TokenKeeps ==
    ASSUME IInv, NEW r \in Requests, Token(r)
    PROVE  IInv'
BY RedeemKeeps, StopKeeps DEF Token

\* One secret is exchanged for another: the rows.
LEMMA ExchangeRows ==
    ASSUME IInv, NEW s \in Issued, ~secrets[s].spent, secrets[s].kind # "session",
           NEW row \in Secret, ~row.spent, row.parent = s, Len(secrets) < MaxSecrets,
           row.kind = "refresh" => secrets[s].kind = "refresh" /\ row.family = secrets[s].family,
           secrets' = Insert(Spend(secrets, {s}), row),
           jwts' = jwts, closed' = closed, raced \subseteq raced'
    PROVE  Ancestry' /\ SingleUse' /\ UnmarkedUnused' /\ LiveTokens'
<1>1. TypeOK /\ UnmarkedUnused /\ LiveTokens /\ Ancestry
  BY DEF IInv
<1>2. PICK S : S = {s}
  OBVIOUS
<1>3. PICK n : n = Len(secrets) + 1
  OBVIOUS
<1>4. PICK N : N = {n}
  OBVIOUS
<1>5. /\ Evolves(S) /\ Issued' = Issued \cup N /\ N \cap Issued = {}
      /\ secrets'[n] = row /\ N \subseteq {Len(secrets) + 1}
  BY <1>1, <1>2, <1>3, <1>4, Inserts
<1>6. jwts[s] = <<>> /\ Children(s) = {}
  BY <1>1 DEF UnmarkedUnused
<1>7. \A t \in Issued : Children(t)' = IF t = s THEN Children(t) \cup {n} ELSE Children(t)
  <2> SUFFICES ASSUME NEW t \in Issued
               PROVE  Children(t)' = IF t = s THEN Children(t) \cup {n} ELSE Children(t)
    OBVIOUS
  <2>1. Children(t)' = Children(t) \cup {m \in N : secrets'[m].parent = t}
    BY <1>5, ChildrenAfter
  <2>2. {m \in N : secrets'[m].parent = t} = IF t = s THEN {n} ELSE {}
    BY <1>4, <1>5
  <2> QED
    BY <2>1, <2>2
<1>8. Uses(s)' = 1
  <2>1. Children(s)' = {n} /\ jwts'[s] = <<>>
    BY <1>6, <1>7
  <2>2. Cardinality({n}) = 1 /\ Len(<<>>) = 0
    BY FS_Singleton
  <2>3. Uses(s)' = Cardinality({n}) + Len(<<>>)
    BY <2>1 DEF Uses
  <2> QED
    BY <2>2, <2>3
<1>9. \A t \in Issued : Accounted(t, S)
  BY <1>2, <1>7, <1>8 DEF Accounted
<1>10. Successor(n, N)
  <2>1. ~secrets'[n].spent /\ secrets'[n].parent \in Issued \cup {0}
    BY <1>5
  <2>2. ASSUME secrets'[n].kind = "refresh"
        PROVE  /\ secrets'[n].family \in Issued \cup N
               /\ secrets'[n].family \notin closed' \ raced'
               /\ \A t \in Issued :
                    secrets[t].kind = "refresh" /\ secrets[t].family = secrets'[n].family
                        => secrets'[t].spent
    <3>1. PICK f : f = row.family
      OBVIOUS
    <3>2. f = secrets[s].family /\ secrets[s].kind = "refresh" /\ f \in Issued /\ f \in Ids
      BY <1>1, <1>5, <2>2, <3>1, Shape DEF Ancestry
    <3>3. s \in Family(f)
      BY <3>2 DEF Family
    <3>4. f \notin closed \ raced
      BY <1>1, <3>2, <3>3 DEF LiveTokens
    <3>5. \A t \in Family(f) : t = s \/ secrets[t].spent
      BY <1>1, <3>2, <3>3 DEF LiveTokens
    <3>6. \A t \in Family(f) : secrets'[t].spent
      BY <1>2, <1>5, <3>5 DEF Evolves, Family
    <3> QED
      BY <1>5, <3>1, <3>2, <3>4, <3>6 DEF Family
  <2> QED
    BY <2>1, <2>2 DEF Successor
<1>11. /\ \A m \in N : Successor(m, N)
       /\ \A t \in Ids \ Issued : jwts'[t] = <<>>
       /\ closed' \subseteq Issued
       /\ \A f \in closed' \ closed : Revoked(f)
  BY <1>1, <1>4, <1>10 DEF Ancestry
<1> QED
  BY <1>5, <1>9, <1>11, RowsMove

LEMMA RotateKeeps ==
    ASSUME IInv, NEW r \in Requests, Rotate(r)
    PROVE  IInv'
<1>1. PICK s : s = req[r].secret
  OBVIOUS
<1>0. req[r].at = "claimed" /\ req[r].op = "refresh_login"
  BY DEF Rotate
<1>2. /\ s \in Issued /\ s \in Ids /\ ~secrets[s].spent /\ secrets[s] \in Secret
      /\ \A q \in Requests \ {r} : NotHeld(q, {s})
      /\ jwts \in [Ids -> Seq({"token", "browser_token"})]
      /\ raced \cup closed \subseteq Ids
      /\ Addresses(req[r].op, s, req[r].client)
  BY <1>0, <1>1, Claimed
<1>k. secrets[s].kind = "refresh"
  BY <1>0, <1>2 DEF Addresses
<1>t. /\ secrets[s].user \in Users /\ secrets[s].client \in Clients \cup {None}
      /\ secrets[s].family \in 0..MaxSecrets /\ s \in 0..MaxSecrets /\ 0 \in 0..MaxSecrets
      /\ "refresh" \in SecretKinds /\ "browser_exchange" \in SecretKinds
  BY <1>2, CredentialConstants DEF Secret, SecretKinds, CodeFlows, Ids
<1>3. PICK row : row = NewSecret("refresh", secrets[s].user, None, s, secrets[s].family, FALSE)
  OBVIOUS
<1>4. row \in Secret /\ row.kind = "refresh" /\ row.parent = s /\ ~row.spent
      /\ row.family = secrets[s].family
  BY <1>3, <1>t DEF NewSecret, Secret
<1>5. /\ secrets' = Insert(Spend(secrets, {s}), row) /\ Len(secrets) < MaxSecrets
      /\ raced' = raced \cup {f \in {secrets[s].family} : \E q \in Requests :
                    req[q].at = "revoking" /\ secrets[req[q].secret].family = f}
      /\ Finish(r) /\ jwts' = jwts /\ closed' = closed
  BY <1>1, <1>3 DEF Rotate
<1>6. Ancestry' /\ SingleUse' /\ UnmarkedUnused' /\ LiveTokens'
  BY <1>2, <1>k, <1>4, <1>5, ExchangeRows
<1>7. TypeOK /\ Ancestry
  BY DEF IInv
<1>8. PICK n : n = Len(secrets) + 1
  OBVIOUS
<1>9. PICK N : N = {n}
  OBVIOUS
<1>10. PICK S : S = {s}
  OBVIOUS
<1>11. /\ Evolves(S) /\ Issued' = Issued \cup N /\ N \cap Issued = {} /\ secrets'[n] = row
  BY <1>4, <1>5, <1>7, <1>8, <1>9, <1>10, Inserts
<1>12. \A q \in Requests : Spares(q, N)
  BY <1>4, <1>5, <1>9, <1>11 DEF Spares
<1>13. \A q \in Requests \ {r} : NotHeld(q, S) /\ Spares(q, N)
  BY <1>2, <1>10, <1>12
<1>14. raced \subseteq raced' /\ raced' \cup closed' \subseteq Ids
  BY <1>2, <1>k, <1>5, <1>7, Shape DEF Ancestry
<1> QED
  BY <1>2, <1>5, <1>6, <1>11, <1>13, <1>14, FinishMove

LEMMA LaunchKeeps ==
    ASSUME IInv, NEW r \in Requests, Launch(r)
    PROVE  IInv'
<1>1. PICK s : s = req[r].secret
  OBVIOUS
<1>0. req[r].at = "claimed" /\ req[r].op = "launch"
  BY DEF Launch
<1>2. /\ s \in Issued /\ s \in Ids /\ ~secrets[s].spent /\ secrets[s] \in Secret
      /\ \A q \in Requests \ {r} : NotHeld(q, {s})
      /\ jwts \in [Ids -> Seq({"token", "browser_token"})]
      /\ raced \cup closed \subseteq Ids
      /\ Addresses(req[r].op, s, req[r].client)
  BY <1>0, <1>1, Claimed
<1>k. secrets[s].kind = "native_launch"
  BY <1>0, <1>2 DEF Addresses
<1>t. /\ secrets[s].user \in Users /\ secrets[s].client \in Clients \cup {None}
      /\ secrets[s].family \in 0..MaxSecrets /\ s \in 0..MaxSecrets /\ 0 \in 0..MaxSecrets
      /\ "refresh" \in SecretKinds /\ "browser_exchange" \in SecretKinds
  BY <1>2, CredentialConstants DEF Secret, SecretKinds, CodeFlows, Ids
<1>3. PICK row : row = NewSecret("browser_exchange", secrets[s].user, secrets[s].client, s, 0, FALSE)
  OBVIOUS
<1>4. row \in Secret /\ row.kind = "browser_exchange" /\ row.parent = s /\ ~row.spent
  BY <1>3, <1>t DEF NewSecret, Secret
<1>5. /\ secrets' = Insert(Spend(secrets, {s}), row) /\ Len(secrets) < MaxSecrets
      /\ raced' = raced /\ Finish(r) /\ jwts' = jwts /\ closed' = closed
  BY <1>1, <1>3 DEF Launch
<1>6. Ancestry' /\ SingleUse' /\ UnmarkedUnused' /\ LiveTokens'
  BY <1>2, <1>k, <1>4, <1>5, ExchangeRows
<1>7. TypeOK
  BY DEF IInv
<1>8. PICK n : n = Len(secrets) + 1
  OBVIOUS
<1>9. PICK N : N = {n}
  OBVIOUS
<1>10. PICK S : S = {s}
  OBVIOUS
<1>11. /\ Evolves(S) /\ Issued' = Issued \cup N /\ N \cap Issued = {} /\ secrets'[n] = row
  BY <1>4, <1>5, <1>7, <1>8, <1>9, <1>10, Inserts
<1>12. \A q \in Requests : Spares(q, N)
  BY <1>4, <1>9, <1>11 DEF Spares
<1>13. \A q \in Requests \ {r} : NotHeld(q, S) /\ Spares(q, N)
  BY <1>2, <1>10, <1>12
<1>14. raced \subseteq raced' /\ raced' \cup closed' \subseteq Ids
  BY <1>2, <1>5
<1> QED
  BY <1>2, <1>5, <1>6, <1>11, <1>13, <1>14, FinishMove

\* A secret is issued for none, or for a browser session.
LEMMA IssueRows ==
    ASSUME IInv, NEW row \in Secret, ~row.spent, Len(secrets) < MaxSecrets,
           row.parent # 0 => row.parent \in Issued /\ secrets[row.parent].kind = "session",
           row.kind = "refresh" => row.family = Len(secrets) + 1,
           secrets' = Insert(secrets, row), UNCHANGED <<jwts, closed, raced>>,
           NEW S, S = {}, NEW N, N = {Len(secrets) + 1}
    PROVE  /\ Ancestry' /\ SingleUse' /\ UnmarkedUnused' /\ LiveTokens'
           /\ Evolves(S) /\ Issued' = Issued \cup N /\ N \cap Issued = {}
           /\ \A q \in Requests : NotHeld(q, S) /\ Spares(q, N)
           /\ jwts' \in [Ids -> Seq({"token", "browser_token"})]
           /\ raced \subseteq raced' /\ raced' \cup closed' \subseteq Ids
<1>1. TypeOK /\ UnmarkedUnused /\ LiveTokens /\ Ancestry
  BY DEF IInv
<1>2. PICK n : n = Len(secrets) + 1
  OBVIOUS
<1>3. /\ Evolves(S) /\ Issued' = Issued \cup N /\ N \cap Issued = {}
      /\ secrets'[n] = row /\ N \subseteq {Len(secrets) + 1} /\ n \in Ids \ Issued
  BY <1>1, <1>2, InsertsAlone
<1>4. \A t \in Issued : Accounted(t, S)
  <2>1. \A t \in Issued : secrets[t].kind # "session" => Children(t)' = Children(t)
    BY <1>1, <1>2, <1>3, Shape DEF Children, Evolves
  <2> QED
    BY <2>1 DEF Accounted
<1>5. Successor(n, N)
  BY <1>1, <1>2, <1>3 DEF Successor, Ancestry
<1>6. /\ \A m \in N : Successor(m, N)
      /\ \A t \in Ids \ Issued : jwts'[t] = <<>>
      /\ closed' \subseteq Issued /\ raced \subseteq raced'
      /\ \A f \in closed' \ closed : Revoked(f)
  BY <1>1, <1>2, <1>5 DEF Ancestry
<1>7. Ancestry' /\ SingleUse' /\ UnmarkedUnused' /\ LiveTokens'
  BY <1>3, <1>4, <1>6, RowsMove
<1>8. ASSUME NEW q \in Requests PROVE Spares(q, N)
  <2> SUFFICES ASSUME req[q].at = "revoking", row.kind = "refresh"
               PROVE  row.family # secrets[req[q].secret].family
    BY <1>2, <1>3 DEF Spares
  <2>1. Stage(req[q], HeldBy(q))
    BY DEF IInv
  <2>2. req[q].secret \in Issued /\ secrets[req[q].secret].kind = "refresh"
    BY <2>1 DEF Stage, Addresses
  <2>3. secrets[req[q].secret].family \in Issued
    BY <1>1, <2>2 DEF Ancestry
  <2> QED
    BY <1>2, <1>3, <2>3
<1>9. \A q \in Requests : NotHeld(q, S)
  BY DEF NotHeld
<1>10. /\ jwts' \in [Ids -> Seq({"token", "browser_token"})]
       /\ raced' \cup closed' \subseteq Ids
  BY <1>1 DEF TypeOK
<1> QED
  BY <1>3, <1>6, <1>7, <1>8, <1>9, <1>10

LEMMA AuthorizeKeeps ==
    ASSUME IInv, NEW r \in Requests, Authorize(r)
    PROVE  IInv'
<1>1. PICK s : s = req[r].secret
  OBVIOUS
<1>2. req[r].at = "claimed" /\ req[r].op = "authorize" /\ req[r] \in RequestRecords
  BY Mine DEF Authorize
<1>3. /\ s \in Issued /\ s \in Ids /\ secrets[s] \in Secret
      /\ Addresses(req[r].op, s, req[r].client)
  BY <1>1, <1>2, Claimed
<1>4. secrets[s].kind = "session"
  BY <1>2, <1>3 DEF Addresses
<1>5. PICK row : row = NewSecret("authorization_code", secrets[s].user, req[r].client, s, 0, TRUE)
  OBVIOUS
<1>6. /\ secrets[s].user \in Users /\ s \in 0..MaxSecrets /\ 0 \in 0..MaxSecrets
      /\ "authorization_code" \in SecretKinds /\ req[r].client \in Clients \cup {None}
  BY <1>2, <1>3, CredentialConstants DEF Secret, SecretKinds, CodeFlows, Ids, RequestRecords
<1>7. row \in Secret /\ row.kind = "authorization_code" /\ row.parent = s /\ ~row.spent
  BY <1>5, <1>6 DEF NewSecret, Secret
<1>8. /\ secrets' = Insert(secrets, row) /\ Len(secrets) < MaxSecrets
      /\ Finish(r) /\ UNCHANGED <<jwts, closed, raced>>
  BY <1>1, <1>5 DEF Authorize
<1>9. PICK S : S = {}
  OBVIOUS
<1>10. PICK N : N = {Len(secrets) + 1}
  OBVIOUS
<1>11. /\ Ancestry' /\ SingleUse' /\ UnmarkedUnused' /\ LiveTokens'
       /\ Evolves(S) /\ Issued' = Issued \cup N /\ N \cap Issued = {}
       /\ \A q \in Requests : NotHeld(q, S) /\ Spares(q, N)
       /\ jwts' \in [Ids -> Seq({"token", "browser_token"})]
       /\ raced \subseteq raced' /\ raced' \cup closed' \subseteq Ids
  BY <1>3, <1>4, <1>7, <1>8, <1>9, <1>10, IssueRows
<1> QED
  BY <1>8, <1>11, FinishMove

LEMMA IssueRefreshTokenKeeps ==
    ASSUME IInv, NEW r \in Requests, IssueRefreshToken(r)
    PROVE  IInv'
<1>1. req[r].user \in Users
  BY Mine DEF IssueRefreshToken, Stage
<1>2. PICK row : row = NewSecret("refresh", req[r].user, None, 0, Len(secrets) + 1, FALSE)
  OBVIOUS
<1>3. Len(secrets) < MaxSecrets
  BY DEF IssueRefreshToken
<1>4. Len(secrets) + 1 \in 0..MaxSecrets /\ 0 \in 0..MaxSecrets /\ "refresh" \in SecretKinds
  BY <1>3, Shape DEF IInv, SecretKinds
<1>5. row \in Secret /\ row.family = Len(secrets) + 1 /\ row.parent = 0 /\ ~row.spent
  BY <1>1, <1>2, <1>4 DEF NewSecret, Secret
<1>6. /\ secrets' = Insert(secrets, row)
      /\ Finish(r) /\ UNCHANGED <<jwts, closed, raced>>
  BY <1>2 DEF IssueRefreshToken
<1>7. PICK S : S = {}
  OBVIOUS
<1>8. PICK N : N = {Len(secrets) + 1}
  OBVIOUS
<1>9. /\ Ancestry' /\ SingleUse' /\ UnmarkedUnused' /\ LiveTokens'
      /\ Evolves(S) /\ Issued' = Issued \cup N /\ N \cap Issued = {}
      /\ \A q \in Requests : NotHeld(q, S) /\ Spares(q, N)
      /\ jwts' \in [Ids -> Seq({"token", "browser_token"})]
      /\ raced \subseteq raced' /\ raced' \cup closed' \subseteq Ids
  BY <1>3, <1>5, <1>6, <1>7, <1>8, IssueRows
<1> QED
  BY <1>6, <1>9, FinishMove

LEMMA StartSessionKeeps ==
    ASSUME IInv, NEW r \in Requests, StartSession(r)
    PROVE  IInv'
<1>1. PICK u \in Users :
        /\ secrets' = Insert(secrets, NewSecret("session", u, None, 0, 0, FALSE))
        /\ req' = [req EXCEPT ![r] = [Idle EXCEPT !.op = "password_login",
                                                  !.at = "session", !.user = u]]
  BY DEF StartSession
<1>2. PICK row : row = NewSecret("session", u, None, 0, 0, FALSE)
  OBVIOUS
<1>3. 0 \in 0..MaxSecrets /\ "session" \in SecretKinds
  BY CredentialConstants DEF SecretKinds
<1>4. row \in Secret /\ row.kind = "session" /\ row.parent = 0 /\ ~row.spent
  BY <1>2, <1>3 DEF NewSecret, Secret
<1>50. req[r] = Idle /\ Len(secrets) < MaxSecrets
       /\ UNCHANGED <<holder, jwts, closed, raced>>
  BY Zenon DEF StartSession
<1>51. req[r].at = "idle"
  BY <1>50 DEF Idle
<1>5. /\ secrets' = Insert(secrets, row) /\ Len(secrets) < MaxSecrets
      /\ UNCHANGED <<holder, jwts, closed, raced>> /\ req[r].at = "idle"
  BY <1>1, <1>2, <1>50, <1>51
<1>6. PICK S : S = {}
  OBVIOUS
<1>7. PICK N : N = {Len(secrets) + 1}
  OBVIOUS
<1>8. /\ Ancestry' /\ SingleUse' /\ UnmarkedUnused' /\ LiveTokens'
      /\ Evolves(S) /\ Issued' = Issued \cup N /\ N \cap Issued = {}
      /\ \A q \in Requests : NotHeld(q, S) /\ Spares(q, N)
      /\ jwts' \in [Ids -> Seq({"token", "browser_token"})]
      /\ raced \subseteq raced' /\ raced' \cup closed' \subseteq Ids
  BY <1>4, <1>5, <1>6, <1>7, IssueRows
<1>9. PICK new : new = [Idle EXCEPT !.op = "password_login", !.at = "session", !.user = u]
  OBVIOUS
<1>10. PICK mine : mine = {}
  OBVIOUS
<1>11. new \in RequestRecords /\ Stage(new, mine)'
  BY <1>3, <1>9, <1>10 DEF Idle, RequestRecords, Stage
<1>12. req' \in [Requests -> RequestRecords] /\ holder' \in [Ids -> Requests \cup {None}]
  BY <1>1, <1>5, <1>9, <1>11, Mine
<1>13. HeldBy(r)' = {} /\ \A q \in Requests : HeldBy(q)' = HeldBy(q)
  BY <1>5, Mine DEF Stage, HeldBy
<1>14. req'[r] = new /\ \A q \in Requests \ {r} : req'[q] = req[q]
  BY <1>1, <1>9, Mine
<1>15. \A q \in Requests : Becomes(q, new, mine) \/ Undisturbed(q, S, N)
  BY <1>8, <1>10, <1>13, <1>14 DEF Becomes, Undisturbed, NotHeld, Spares
<1> QED
  BY <1>8, <1>11, <1>12, <1>15, RequestMove

LEMMA HandoffKeeps ==
    ASSUME IInv, Handoff
    PROVE  IInv'
<1>1. PICK u \in Users, c \in PublicClients :
        secrets' = Insert(secrets, NewSecret("native_launch", u, c, 0, 0, FALSE))
  BY DEF Handoff
<1>2. PICK row : row = NewSecret("native_launch", u, c, 0, 0, FALSE)
  OBVIOUS
<1>3. 0 \in 0..MaxSecrets /\ "native_launch" \in SecretKinds /\ c \in Clients \cup {None}
  BY CredentialConstants DEF SecretKinds, CodeFlows
<1>4. row \in Secret /\ row.kind = "native_launch" /\ row.parent = 0 /\ ~row.spent
  BY <1>2, <1>3 DEF NewSecret, Secret
<1>5. /\ secrets' = Insert(secrets, row) /\ Len(secrets) < MaxSecrets
      /\ UNCHANGED <<holder, req, jwts, closed, raced>>
  BY <1>1, <1>2 DEF Handoff
<1>6. PICK S : S = {}
  OBVIOUS
<1>7. PICK N : N = {Len(secrets) + 1}
  OBVIOUS
<1>8. /\ Ancestry' /\ SingleUse' /\ UnmarkedUnused' /\ LiveTokens'
      /\ Evolves(S) /\ Issued' = Issued \cup N /\ N \cap Issued = {}
      /\ \A q \in Requests : NotHeld(q, S) /\ Spares(q, N)
      /\ jwts' \in [Ids -> Seq({"token", "browser_token"})]
      /\ raced \subseteq raced' /\ raced' \cup closed' \subseteq Ids
  BY <1>4, <1>5, <1>6, <1>7, IssueRows
<1>9. PICK new : new = Idle
  OBVIOUS
<1>10. PICK mine : mine = {}
  OBVIOUS
<1>11. Stage(new, mine)'
  BY <1>9, <1>10, IdleStage
<1>12. req' \in [Requests -> RequestRecords] /\ holder' \in [Ids -> Requests \cup {None}]
  BY <1>5 DEF IInv, TypeOK
<1>13. \A q \in Requests : HeldBy(q)' = HeldBy(q) /\ req'[q] = req[q]
  BY <1>5 DEF HeldBy
<1>15. \A q \in Requests : Becomes(q, new, mine) \/ Undisturbed(q, S, N)
  BY <1>8, <1>13 DEF Undisturbed, NotHeld, Spares
<1> QED
  BY <1>8, <1>11, <1>12, <1>15, RequestMove

\* Marking rows that are tokens or a session, with or without closing a family.
LEMMA RevokeRows ==
    ASSUME IInv, NEW S, \A s \in S : s \in Issued /\ secrets[s].kind \in {"refresh", "session"},
           secrets' = Spend(secrets, S), UNCHANGED <<jwts, raced>>, closed' \subseteq Issued,
           \A f \in closed' \ closed : f \in raced \/ Family(f) \subseteq S,
           NEW N, N = {}
    PROVE  /\ Ancestry' /\ SingleUse' /\ UnmarkedUnused' /\ LiveTokens'
           /\ Evolves(S) /\ Issued' = Issued \cup N /\ N \cap Issued = {}
           /\ \A q \in Requests : Spares(q, N)
           /\ jwts' \in [Ids -> Seq({"token", "browser_token"})]
           /\ raced \subseteq raced' /\ raced' \cup closed' \subseteq Ids
<1>1. TypeOK /\ Ancestry
  BY DEF IInv
<1>2. /\ Evolves(S) /\ Issued' = Issued \cup N /\ N \cap Issued = {}
      /\ N \subseteq {Len(secrets) + 1}
  BY <1>1, MarksOnly
<1>3. \A t : Children(t)' = Children(t)
  BY <1>2 DEF Children, Evolves
<1>4. \A t \in Issued : Accounted(t, S)
  BY <1>3 DEF Accounted
<1>5. \A f \in closed' \ closed : Revoked(f)
  <2> SUFFICES ASSUME NEW f \in closed' \ closed, f \notin raced', NEW s \in Family(f)'
               PROVE  secrets'[s].spent
    BY DEF Revoked
  <2>1. s \in Issued /\ secrets[s].kind = "refresh" /\ secrets[s].family = f
    BY <1>2 DEF Family, Evolves
  <2>2. s \in S
    BY <2>1 DEF Family
  <2> QED
    BY <1>2, <2>1, <2>2 DEF Evolves
<1>6. /\ \A n \in N : Successor(n, N)
      /\ \A t \in Ids \ Issued : jwts'[t] = <<>>
      /\ raced \subseteq raced'
  BY <1>1 DEF Ancestry
<1>7. Ancestry' /\ SingleUse' /\ UnmarkedUnused' /\ LiveTokens'
  BY <1>2, <1>4, <1>5, <1>6, RowsMove
<1>8. /\ jwts' \in [Ids -> Seq({"token", "browser_token"})]
      /\ raced' \cup closed' \subseteq Ids
  BY <1>1, Shape DEF TypeOK
<1>9. \A q \in Requests : Spares(q, N)
  BY DEF Spares
<1> QED
  BY <1>2, <1>6, <1>7, <1>8, <1>9

LEMMA RevokeFamilyKeeps ==
    ASSUME IInv, NEW r \in Requests, RevokeFamily(r)
    PROVE  IInv'
<1>1. PICK S : S = HeldBy(r)
  OBVIOUS
<1>2. PICK f : f = secrets[req[r].secret].family
  OBVIOUS
<1>3. /\ secrets' = Spend(secrets, S) /\ closed' = closed \cup {f}
      /\ Finish(r) /\ UNCHANGED <<jwts, raced>>
      /\ req[r].at = "revoking" /\ req[r].rows = {}
  BY <1>1, <1>2 DEF RevokeFamily
<1>4. Stage(req[r], HeldBy(r)) /\ Ancestry
  BY DEF IInv
<1>5. /\ req[r].secret \in Issued /\ secrets[req[r].secret].kind = "refresh"
      /\ S \subseteq Kin(req[r].secret)
      /\ f \in raced \/ Kin(req[r].secret) \subseteq S
  BY <1>1, <1>2, <1>3, <1>4 DEF Stage, Addresses
<1>6. f \in Issued /\ closed \subseteq Issued
  BY <1>2, <1>4, <1>5 DEF Ancestry
<1>7. Kin(req[r].secret) = Family(f)
  BY <1>2 DEF Kin, Family
<1>8. \A s \in S : s \in Issued /\ secrets[s].kind \in {"refresh", "session"}
  BY <1>5 DEF Kin
<1>9. PICK N : N = {}
  OBVIOUS
<1>10. closed' \subseteq Issued /\ \A g \in closed' \ closed : g \in raced \/ Family(g) \subseteq S
  BY <1>3, <1>5, <1>6, <1>7
<1>11. /\ Ancestry' /\ SingleUse' /\ UnmarkedUnused' /\ LiveTokens'
       /\ Evolves(S) /\ Issued' = Issued \cup N /\ N \cap Issued = {}
       /\ \A q \in Requests : Spares(q, N)
       /\ jwts' \in [Ids -> Seq({"token", "browser_token"})]
       /\ raced \subseteq raced' /\ raced' \cup closed' \subseteq Ids
  BY <1>3, <1>8, <1>9, <1>10, RevokeRows
<1>12. \A q \in Requests \ {r} : NotHeld(q, S) /\ Spares(q, N)
  BY <1>1, <1>11 DEF NotHeld, HeldBy
<1> QED
  BY <1>3, <1>11, <1>12, FinishMove

LEMMA EndSessionKeeps ==
    ASSUME IInv, NEW r \in Requests, EndSession(r)
    PROVE  IInv'
<1>1. PICK s : s = req[r].secret
  OBVIOUS
<1>2. PICK S : S = {s}
  OBVIOUS
<1>3. /\ secrets' = Spend(secrets, S) /\ Finish(r) /\ UNCHANGED <<jwts, closed, raced>>
      /\ req[r].at = "asked" /\ req[r].op = "sso_logout" /\ holder[s] = None
  BY <1>1, <1>2 DEF EndSession
<1>4. Stage(req[r], HeldBy(r)) /\ Ancestry
  BY DEF IInv
<1>5. s \in Issued /\ secrets[s].kind = "session" /\ closed \subseteq Issued
  BY <1>1, <1>3, <1>4 DEF Stage, Addresses, Ancestry
<1>6. PICK N : N = {}
  OBVIOUS
<1>7. \A t \in S : t \in Issued /\ secrets[t].kind \in {"refresh", "session"}
  BY <1>2, <1>5
<1>8. closed' \subseteq Issued /\ \A g \in closed' \ closed : g \in raced \/ Family(g) \subseteq S
  BY <1>3, <1>5
<1>9. /\ Ancestry' /\ SingleUse' /\ UnmarkedUnused' /\ LiveTokens'
      /\ Evolves(S) /\ Issued' = Issued \cup N /\ N \cap Issued = {}
      /\ \A q \in Requests : Spares(q, N)
      /\ jwts' \in [Ids -> Seq({"token", "browser_token"})]
      /\ raced \subseteq raced' /\ raced' \cup closed' \subseteq Ids
  BY <1>3, <1>6, <1>7, <1>8, RevokeRows
<1>10. \A q \in Requests \ {r} : NotHeld(q, S) /\ Spares(q, N)
  BY <1>2, <1>3, <1>9, CredentialConstants DEF NotHeld, HeldBy
<1> QED
  BY <1>3, <1>9, <1>10, FinishMove

LEMMA ExpireKeeps ==
    ASSUME IInv, NEW s \in Ids, Expire(s)
    PROVE  IInv'
<1>1. TypeOK /\ Ancestry
  BY DEF IInv
<1>2. /\ s \in Issued /\ secrets' = [secrets EXCEPT ![s].expired = TRUE]
      /\ UNCHANGED <<holder, req, jwts, closed, raced>>
  BY DEF Expire
<1>3. PICK row : row = [secrets[s] EXCEPT !.expired = TRUE]
  OBVIOUS
<1>4. /\ row \in Secret /\ row.kind = secrets[s].kind /\ row.user = secrets[s].user
      /\ row.client = secrets[s].client /\ row.parent = secrets[s].parent
      /\ row.family = secrets[s].family /\ (row.spent <=> secrets[s].spent)
  <2>1. secrets[s] \in Secret
    BY <1>1, <1>2, Shape
  <2> QED
    BY <1>3, <2>1 DEF Secret
<1>5. /\ secrets' \in Seq(Secret) /\ Len(secrets') = Len(secrets)
      /\ \A t \in 1..Len(secrets) : secrets'[t] = IF t = s THEN row ELSE secrets[t]
  <2>1. secrets' = [secrets EXCEPT ![s] = row] /\ s \in 1..Len(secrets) /\ secrets \in Seq(Secret)
    BY <1>1, <1>2, <1>3, Shape
  <2> QED
    BY <1>4, <2>1, ExceptSeq
<1>6. PICK S : S = {}
  OBVIOUS
<1>7. PICK N : N = {}
  OBVIOUS
<1>8. Issued' = Issued
  BY <1>1, <1>5, Shape, LenProperties DEF Issued
<1>9. /\ Evolves(S) /\ Issued' = Issued \cup N /\ N \cap Issued = {}
      /\ N \subseteq {Len(secrets) + 1}
  <2>1. \A t \in Issued : secrets'[t] = IF t = s THEN row ELSE secrets[t]
    BY <1>1, <1>5, Shape
  <2>2. Len(secrets') <= MaxSecrets
    BY <1>1, <1>5 DEF TypeOK
  <2>3. Evolves(S)
    BY <1>4, <1>5, <1>6, <2>1, <2>2 DEF Evolves
  <2> QED
    BY <1>7, <1>8, <2>3
<1>10. \A t : Children(t)' = Children(t)
  BY <1>8, <1>9 DEF Children, Evolves
<1>11. \A t \in Issued : Accounted(t, S)
  BY <1>2, <1>6, <1>10 DEF Accounted
<1>12. /\ \A n \in N : Successor(n, N)
       /\ \A t \in Ids \ Issued : jwts'[t] = <<>>
       /\ raced \subseteq raced' /\ closed' \subseteq Issued
       /\ \A f \in closed' \ closed : Revoked(f)
  BY <1>1, <1>2, <1>7 DEF Ancestry
<1>13. Ancestry' /\ SingleUse' /\ UnmarkedUnused' /\ LiveTokens'
  BY <1>9, <1>11, <1>12, RowsMove
<1>14. /\ jwts' \in [Ids -> Seq({"token", "browser_token"})]
       /\ raced' \cup closed' \subseteq Ids
       /\ req' \in [Requests -> RequestRecords] /\ holder' \in [Ids -> Requests \cup {None}]
  BY <1>1, <1>2 DEF TypeOK
<1>15. PICK new : new = Idle
  OBVIOUS
<1>16. PICK mine : mine = {}
  OBVIOUS
<1>17. Stage(new, mine)'
  BY <1>15, <1>16, IdleStage
<1>18. \A q \in Requests : HeldBy(q)' = HeldBy(q) /\ req'[q] = req[q]
  BY <1>2 DEF HeldBy
<1>19. \A q \in Requests : Becomes(q, new, mine) \/ Undisturbed(q, S, N)
  BY <1>6, <1>7, <1>18 DEF Undisturbed
<1> QED
  BY <1>9, <1>12, <1>13, <1>14, <1>17, <1>19, RequestMove

-----------------------------------------------------------------------------
LEMMA InitHolds == Init => IInv
<1> SUFFICES ASSUME Init PROVE IInv
  OBVIOUS
<1>1. secrets = <<>> /\ Issued = {} /\ closed = {} /\ raced = {}
  BY DEF Init, Issued
<1>2. \A r \in Requests : HeldBy(r) = {} /\ req[r] = Idle
  BY CredentialConstants DEF Init, HeldBy
<1>3. Idle \in RequestRecords
  BY CredentialConstants DEF Idle, RequestRecords
<1>4. TypeOK
  <2>1. \A r \in Requests : req[r].at = "idle" /\ req[r].rows = {}
    BY <1>2 DEF Idle
  <2>2. /\ req \in [Requests -> RequestRecords] /\ holder \in [Ids -> Requests \cup {None}]
        /\ jwts \in [Ids -> Seq({"token", "browser_token"})]
    BY <1>3 DEF Init
  <2>3. secrets \in Seq(Secret) /\ Len(secrets) <= MaxSecrets
    BY <1>1, CredentialConstants
  <2> QED
    BY <1>1, <1>2, <2>1, <2>2, <2>3 DEF TypeOK
<1>5. Ancestry
  BY <1>1 DEF Init, Ancestry
<1>6. SingleUse /\ UnmarkedUnused /\ LiveTokens
  BY <1>1 DEF SingleUse, UnmarkedUnused, LiveTokens, Family
<1>7. \A r \in Requests : Stage(req[r], HeldBy(r))
  BY <1>2 DEF Stage, Idle
<1> QED
  BY <1>4, <1>5, <1>6, <1>7 DEF IInv

LEMMA StutterKeeps ==
    ASSUME IInv, UNCHANGED vars
    PROVE  IInv'
<1>1. /\ UNCHANGED <<secrets, jwts, closed, raced>> /\ holder' = holder /\ req' = req
      /\ Issued' = Issued
  BY DEF vars, Issued
<1>2. Ancestry' /\ SingleUse' /\ UnmarkedUnused' /\ LiveTokens'
  BY <1>1, RowsStay
<1>3. TypeOK'
  BY <1>1 DEF IInv, TypeOK, HeldBy
<1>4. ASSUME NEW r \in Requests PROVE Stage(req[r], HeldBy(r))'
  <2>1. HeldBy(r)' = HeldBy(r) /\ req'[r] = req[r]
    BY <1>1 DEF HeldBy
  <2>2. \A rec, held : Stage(rec, held)' <=> Stage(rec, held)
    BY <1>1 DEF Stage, Addresses, Kin, vars
  <2> QED
    BY <2>1, <2>2, <1>4 DEF IInv
<1> QED
  BY <1>2, <1>3, <1>4 DEF IInv

\* Every step keeps the invariant.
LEMMA NextKeeps == IInv /\ [Next]_vars => IInv'
<1> SUFFICES ASSUME IInv, [Next]_vars PROVE IInv'
  OBVIOUS
<1>1. ASSUME NEW r \in Requests, Serve(r) PROVE IInv'
  BY <1>1, ClaimKeeps, RefuseKeeps, RotateKeeps, ScanFamilyKeeps, LockRowKeeps,
     RevokeFamilyKeeps, AuthorizeKeeps, LaunchKeeps, BrowserTokenKeeps, TokenKeeps,
     EndSessionKeeps, IssueRefreshTokenKeeps DEF Serve
<1>2. ASSUME NEW r \in Requests, Present(r) \/ StartSession(r) \/ Fault(r) PROVE IInv'
  BY <1>2, PresentKeeps, StartSessionKeeps, StopKeeps DEF Fault
<1> QED
  BY <1>1, <1>2, HandoffKeeps, ExpireKeeps, StutterKeeps DEF Next

\* The inductive invariant of the issued secrets and the requests at work on them.
THEOREM Invariant == Spec => []IInv
BY InitHolds, NextKeeps, PTL DEF Spec

\* Types, for any number of accounts, clients, requests and secrets.
THEOREM TypeCorrect == Spec => []TypeOK
<1>1. IInv => TypeOK
  BY DEF IInv
<1> QED
  BY <1>1, Invariant, PTL

\* A refresh token, code or ticket pays once, and is marked when it has.
THEOREM UsedOnce == Spec => []SingleUse
<1>1. IInv => SingleUse
  BY DEF IInv
<1> QED
  BY <1>1, Invariant, PTL

\* A family has one live token, and none after a revocation no rotation raced.
THEOREM OneLiveToken == Spec => []LiveTokens
<1>1. IInv => LiveTokens
  BY DEF IInv
<1> QED
  BY <1>1, Invariant, PTL
-----------------------------------------------------------------------------
(* Codes of live sessions. *)

\* A committed INSERT adds its own row and no other.
LEMMA OnlyRow ==
    ASSUME TypeOK, NEW rows \in Seq(Secret), Len(rows) = Len(secrets), NEW row,
           secrets' = Insert(rows, row)
    PROVE  \A t \in (DOMAIN secrets') \ (DOMAIN secrets) :
               secrets'[t].kind = row.kind /\ secrets'[t].parent = row.parent
<1>1. /\ Len(secrets) \in Nat
      /\ secrets' = Append(rows, row) /\ DOMAIN secrets = 1..Len(secrets)
  BY Shape DEF Insert, Issued
<1>2. rows \in Seq(Secret \cup {row}) /\ row \in Secret \cup {row}
  OBVIOUS
<1>3. /\ secrets' \in Seq(Secret \cup {row}) /\ Len(secrets') = Len(secrets) + 1
      /\ secrets'[Len(secrets) + 1] = row
  BY <1>1, <1>2
<1>4. DOMAIN secrets' = 1..(Len(secrets) + 1)
  BY <1>3, LenProperties
<1> QED
  BY <1>1, <1>3, <1>4

\* The codes of a step are for sessions that work.
LiveCodes ==
    \A t \in (DOMAIN secrets') \ (DOMAIN secrets) :
        secrets'[t].kind = "authorization_code" => ~secrets[secrets'[t].parent].spent

\* An INSERT of something else.
LEMMA OtherRow ==
    ASSUME TypeOK, NEW rows \in Seq(Secret), Len(rows) = Len(secrets),
           NEW kind, kind # "authorization_code",
           NEW u, NEW c, NEW s, NEW f, NEW p,
           secrets' = Insert(rows, NewSecret(kind, u, c, s, f, p))
    PROVE  LiveCodes
<1>1. PICK row : row = NewSecret(kind, u, c, s, f, p)
  OBVIOUS
<1>2. row.kind = kind
  BY <1>1 DEF NewSecret
<1> QED
  BY <1>1, <1>2, OnlyRow DEF LiveCodes

\* An INSERT in the transaction of an UPDATE.
LEMMA OtherRowSpent ==
    ASSUME TypeOK, NEW S, NEW kind, kind # "authorization_code",
           NEW u, NEW c, NEW s, NEW f, NEW p,
           secrets' = Insert(Spend(secrets, S), NewSecret(kind, u, c, s, f, p))
    PROVE  LiveCodes
<1>1. PICK rows : rows = Spend(secrets, S)
  OBVIOUS
<1>2. rows \in Seq(Secret) /\ Len(rows) = Len(secrets)
  BY <1>1, Spent
<1> QED
  BY <1>1, <1>2, OtherRow

\* An UPDATE alone.
LEMMA NoRow ==
    ASSUME TypeOK, NEW S, secrets' = Spend(secrets, S)
    PROVE  LiveCodes
BY MarksOnly DEF LiveCodes, Issued

LEMMA SameRows == secrets' = secrets => LiveCodes
BY DEF LiveCodes

LEMMA AuthorizeLives ==
    ASSUME IInv, NEW r \in Requests, Authorize(r)
    PROVE  LiveCodes
<1>1. PICK s : s = req[r].secret
  OBVIOUS
<1>2. PICK row : row = NewSecret("authorization_code", secrets[s].user, req[r].client, s, 0, TRUE)
  OBVIOUS
<1>3. row.parent = s
  BY <1>2 DEF NewSecret
<1>4. secrets' = Insert(secrets, row) /\ req[r].at = "claimed"
  BY <1>1, <1>2 DEF Authorize
<1>5. ~secrets[s].spent
  BY <1>1, <1>4, Claimed
<1>6. TypeOK /\ secrets \in Seq(Secret)
  BY DEF IInv, TypeOK
<1> QED
  BY <1>3, <1>4, <1>5, <1>6, OnlyRow DEF LiveCodes

LEMMA ServeLives ==
    ASSUME IInv, NEW r \in Requests, Serve(r)
    PROVE  LiveCodes
<1>1. TypeOK /\ secrets \in Seq(Secret)
  BY DEF IInv, TypeOK
<1>2. CASE Claim(r) \/ Refuse(r) \/ ScanFamily(r) \/ LockRow(r)
  BY <1>2, SameRows DEF Claim, Refuse, ScanFamily, LockRow
<1>3. CASE RevokeFamily(r)
  BY <1>1, <1>3, NoRow DEF RevokeFamily
<1>4. CASE EndSession(r)
  BY <1>1, <1>4, NoRow DEF EndSession
<1>5. CASE BrowserToken(r) \/ Token(r)
  BY <1>1, <1>5, NoRow, SameRows DEF BrowserToken, Token, Redeem
<1>6. CASE Rotate(r)
  BY <1>1, <1>6, OtherRowSpent DEF Rotate
<1>7. CASE Launch(r)
  BY <1>1, <1>7, OtherRowSpent DEF Launch
<1>8. CASE IssueRefreshToken(r)
  BY <1>1, <1>8, OtherRow DEF IssueRefreshToken
<1>9. CASE Authorize(r)
  BY <1>9, AuthorizeLives
<1> QED
  BY <1>2, <1>3, <1>4, <1>5, <1>6, <1>7, <1>8, <1>9 DEF Serve

LEMMA NextLives == IInv /\ [Next]_vars => LiveCodes
<1> SUFFICES ASSUME IInv, [Next]_vars PROVE LiveCodes
  OBVIOUS
<1>1. TypeOK /\ secrets \in Seq(Secret)
  BY DEF IInv, TypeOK
<1>2. ASSUME NEW r \in Requests, Present(r) \/ Fault(r) PROVE LiveCodes
  BY <1>2, SameRows DEF Present, Fault
<1>3. ASSUME NEW r \in Requests, StartSession(r) PROVE LiveCodes
  BY <1>1, <1>3, OtherRow DEF StartSession
<1>4. ASSUME Handoff PROVE LiveCodes
  BY <1>1, <1>4, OtherRow DEF Handoff
<1>5. ASSUME NEW s \in Ids, Expire(s) PROVE LiveCodes
  <2>1. DOMAIN secrets' = DOMAIN secrets
    BY <1>5 DEF Expire
  <2> QED
    BY <2>1 DEF LiveCodes
<1>6. ASSUME UNCHANGED vars PROVE LiveCodes
  BY <1>6, SameRows DEF vars
<1> QED
  BY <1>2, <1>3, <1>4, <1>5, <1>6, ServeLives DEF Next

\* No code is committed for a session whose logout has committed before: the
\* session that authorize reads is held by its row lock until the INSERT commits.
THEOREM NoCodeAfterLogout == Spec => CodesOfLiveSessions
<1>1. IInv /\ [Next]_vars =>
        [\A t \in (DOMAIN secrets') \ (DOMAIN secrets) :
            secrets'[t].kind = "authorization_code" => ~secrets[secrets'[t].parent].spent]_vars
  BY NextLives DEF LiveCodes
<1> QED
  BY <1>1, Invariant, PTL DEF Spec, CodesOfLiveSessions

=============================================================================
