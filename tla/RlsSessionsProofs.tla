------------------------- MODULE RlsSessionsProofs -------------------------
(***************************************************************************)
(* Proofs about RlsSessions, for any number of users, sessions and         *)
(* backends.  The argument: no transaction ever changes the session-level  *)
(* value of a backend for good, and the local value is always the stash of *)
(* the session whose transaction is open.  And about Accounts: what is     *)
(* left of a handler's read when it writes (second part).                  *)
(***************************************************************************)
EXTENDS RlsSessions, Accounts, TLAPS

\* Nothing at session level, and the stash of the session at transaction level.
BackendsCarryStash ==
    \A b \in Backends :
        /\ setting[b].value = Nobody /\ setting[b].saved = Nobody
        /\ open[b] = None => setting[b].local = None
        /\ \A s \in Sessions : open[b] = s => setting[b].local = session[s].stash

\* A transaction belongs to a session that is open, and a session has one.
OneTransaction ==
    /\ \A b \in Backends, s \in Sessions : open[b] = s => session[s].at # "closed"
    /\ \A b, c \in Backends : open[b] = open[c] /\ open[b] # None => b = c

\* The stash is the caller's, and set once the identity has been.
StashIsCaller ==
    \A s \in Sessions :
        /\ session[s].at = "closed" => session[s] = Closed
        /\ session[s].at # "closed" => session[s].user \in Callers
        /\ session[s].stash \in {None, session[s].user}
        /\ session[s].at \in {"bound", "registering"} => session[s].stash = session[s].user
        /\ session[s].at = "authenticated" => session[s].stash = None

\* A request waits for at most one registration, which opens none itself.
Families ==
    \A s \in Sessions : session[s].parent # None =>
        /\ session[session[s].parent].at = "registering"
        /\ session[session[s].parent].parent = None
        /\ \A t \in Sessions : session[t].parent = session[s].parent => t = s

IInv == TypeOK /\ BackendsCarryStash /\ OneTransaction /\ StashIsCaller /\ Families
-----------------------------------------------------------------------------
(* What the helpers return. *)

LEMMA Names == /\ None \notin Callers /\ None \notin Identities /\ Nobody \notin Callers
               /\ Callers \subseteq Identities /\ Nobody \in Identities
BY SessionConstants DEF Callers, Identities

LEMMA Cleared ==
    ASSUME NEW cfg \in Settings
    PROVE  /\ clear_rls_identity(cfg) \in Settings
           /\ clear_rls_identity(cfg).value = Nobody
           /\ clear_rls_identity(cfg).saved = cfg.value
BY Names DEF Settings, clear_rls_identity

LEMMA Applied ==
    ASSUME NEW cfg \in Settings, NEW s \in Sessions, session[s].stash \in Callers \cup {None}
    PROVE  /\ apply_rls_identity(cfg, s) \in Settings
           /\ apply_rls_identity(cfg, s).value = cfg.value
           /\ apply_rls_identity(cfg, s).saved = cfg.saved
           /\ apply_rls_identity(cfg, s).local = session[s].stash
BY Names DEF Settings, apply_rls_identity

LEMMA Ended ==
    ASSUME NEW cfg \in Settings
    PROVE  /\ Committed(cfg) \in Settings /\ RolledBack(cfg) \in Settings
           /\ Committed(cfg).value = cfg.value /\ Committed(cfg).saved = cfg.value
           /\ Committed(cfg).local = None
           /\ RolledBack(cfg).value = cfg.saved /\ RolledBack(cfg).saved = cfg.saved
           /\ RolledBack(cfg).local = None
BY Names DEF Settings, Committed, RolledBack

LEMMA LocalSet ==
    ASSUME NEW cfg \in Settings, NEW u \in Callers \cup {None}
    PROVE  LET new == [cfg EXCEPT !.local = u] IN
           new \in Settings /\ new.value = cfg.value /\ new.saved = cfg.saved /\ new.local = u
BY Names DEF Settings

LEMMA ClosedRecord == Closed \in SessionRecords /\ Closed.at = "closed" /\ Closed.parent = None
                      /\ Closed.user = None /\ Closed.stash = None
BY DEF Closed, SessionRecords

-----------------------------------------------------------------------------
LEMMA InitHolds == Init => IInv
BY Names, SessionConstants
   DEF Init, IInv, TypeOK, BackendsCarryStash, OneTransaction, StashIsCaller, Families,
       Closed, Identities, Settings, SessionRecords

(* Steps that move one backend and leave the sessions alone. *)

LEMMA BackendMove ==
    ASSUME IInv, NEW b \in Backends, NEW cfg \in Settings, NEW o \in Sessions \cup {None},
           setting' = [setting EXCEPT ![b] = cfg], open' = [open EXCEPT ![b] = o],
           session' = session,
           cfg.value = Nobody, cfg.saved = Nobody,
           o = None => cfg.local = None,
           o # None => /\ session[o].at # "closed" /\ cfg.local = session[o].stash
                       /\ On(o) \subseteq {b}
    PROVE  IInv'
<1>1. TypeOK'
  BY DEF IInv, TypeOK
<1>2. BackendsCarryStash'
  BY SessionConstants DEF IInv, TypeOK, BackendsCarryStash
<1>3. OneTransaction'
  BY SessionConstants DEF IInv, TypeOK, OneTransaction, On
<1>4. StashIsCaller' /\ Families'
  BY DEF IInv, StashIsCaller, Families
<1> QED
  BY <1>1, <1>2, <1>3, <1>4 DEF IInv

LEMMA Stashes ==
    ASSUME IInv, NEW s \in Sessions
    PROVE  session[s] \in SessionRecords /\ session[s].stash \in Callers \cup {None}
BY DEF IInv, TypeOK, SessionRecords

LEMMA BeginKeeps ==
    ASSUME IInv, NEW s \in Sessions, Begin(s)
    PROVE  IInv'
<1>1. PICK b \in Free :
          /\ open' = [open EXCEPT ![b] = s]
          /\ setting' = [setting EXCEPT ![b] = apply_rls_identity(clear_rls_identity(setting[b]), s)]
          /\ session' = session
  BY DEF Begin
<1> DEFINE cfg == apply_rls_identity(clear_rls_identity(setting[b]), s)
<1>2. b \in Backends /\ setting[b] \in Settings /\ setting[b].value = Nobody
  BY DEF Free, IInv, TypeOK, BackendsCarryStash
<1>3. cfg \in Settings /\ cfg.value = Nobody /\ cfg.saved = Nobody /\ cfg.local = session[s].stash
  BY <1>2, Stashes, Cleared, Applied
<1>4. session[s].at # "closed" /\ On(s) = {} /\ s # None
  BY SessionConstants DEF Begin, Wants
<1> QED
  BY <1>1, <1>2, <1>3, <1>4, BackendMove

LEMMA CommitKeeps ==
    ASSUME IInv, NEW s \in Sessions, Commit(s)
    PROVE  IInv'
<1>1. PICK b \in On(s) : /\ open' = [open EXCEPT ![b] = None]
                         /\ setting' = [setting EXCEPT ![b] = Committed(setting[b])]
                         /\ session' = session
  BY DEF Commit
<1>2. b \in Backends /\ setting[b] \in Settings /\ setting[b].value = Nobody
  BY DEF On, IInv, TypeOK, BackendsCarryStash
<1>3. /\ Committed(setting[b]) \in Settings /\ Committed(setting[b]).value = Nobody
      /\ Committed(setting[b]).saved = Nobody /\ Committed(setting[b]).local = None
  BY <1>2, Ended
<1> QED
  BY <1>1, <1>2, <1>3, BackendMove

LEMMA ReapplyKeeps ==
    ASSUME IInv, NEW s \in Sessions, Reapply(s)
    PROVE  IInv'
<1>1. PICK b \in On(s) : /\ setting' = [setting EXCEPT ![b].local = session[s].stash]
                         /\ open' = open /\ session' = session
  BY DEF Reapply
<1> DEFINE cfg == [setting[b] EXCEPT !.local = session[s].stash]
<1>2. b \in Backends /\ setting[b] \in Settings /\ open[b] = s /\ s # None
      /\ setting[b].value = Nobody /\ setting[b].saved = Nobody
  BY SessionConstants DEF On, IInv, TypeOK, BackendsCarryStash
<1>3. cfg \in Settings /\ cfg.value = Nobody /\ cfg.saved = Nobody /\ cfg.local = session[s].stash
  BY <1>2, Stashes, LocalSet
<1>4. setting' = [setting EXCEPT ![b] = cfg] /\ open' = [open EXCEPT ![b] = s]
  BY <1>1, <1>2 DEF IInv, TypeOK
<1>5. session[s].at # "closed" /\ On(s) \subseteq {b}
  BY <1>2 DEF IInv, OneTransaction, On
<1>6. session' = session
  BY <1>1
<1> HIDE DEF cfg
<1> QED
  BY <1>2, <1>3, <1>4, <1>5, <1>6, BackendMove

-----------------------------------------------------------------------------
(* Steps of one session. *)

\* What StashIsCaller says of one record.
Proper(r) ==
    /\ r.at # "closed" /\ r.user \in Callers
    /\ r.stash \in {None, r.user}
    /\ r.at \in {"bound", "registering"} => r.stash = r.user
    /\ r.at = "authenticated" => r.stash = None

LEMMA SessionMove ==
    ASSUME IInv, NEW s \in Sessions, NEW r \in SessionRecords, Proper(r),
           session' = [session EXCEPT ![s] = r], open' = open,
           session[s].at # "registering", r.parent \in {None, session[s].parent}
    PROVE  /\ session' \in [Sessions -> SessionRecords]
           /\ OneTransaction' /\ StashIsCaller' /\ Families'
<1>1. session' \in [Sessions -> SessionRecords]
  BY DEF IInv, TypeOK
<1>2. OneTransaction'
  BY DEF IInv, TypeOK, OneTransaction, Proper
<1>3. StashIsCaller'
  BY DEF IInv, TypeOK, StashIsCaller, Proper
<1>4. Families'
  BY DEF IInv, TypeOK, Families
<1> QED
  BY <1>1, <1>2, <1>3, <1>4

LEMMA OpenKeeps ==
    ASSUME IInv, NEW s \in Sessions, NEW r \in SessionRecords, Proper(r), r.parent = None,
           session[s] = Closed, session' = [session EXCEPT ![s] = r], UNCHANGED <<setting, open>>
    PROVE  IInv'
<1>1. session[s].at = "closed"
  BY ClosedRecord
<1>2. \A b \in Backends : open[b] # s
  BY <1>1 DEF IInv, OneTransaction
<1>3. BackendsCarryStash'
  BY <1>2 DEF IInv, TypeOK, BackendsCarryStash
<1>4. session' \in [Sessions -> SessionRecords] /\ OneTransaction' /\ StashIsCaller' /\ Families'
  BY <1>1, SessionMove
<1> QED
  BY <1>3, <1>4 DEF IInv, TypeOK

LEMMA OpenRequestKeeps ==
    ASSUME IInv, NEW s \in Sessions, OpenRequest(s)
    PROVE  IInv'
<1>1. PICK u \in Users : session' = [session EXCEPT ![s] = [Closed EXCEPT !.user = u, !.at = "opened"]]
  BY DEF OpenRequest
<1> DEFINE r == [Closed EXCEPT !.user = u, !.at = "opened"]
<1>2. r \in SessionRecords /\ r.parent = None /\ Proper(r)
  BY DEF Closed, SessionRecords, Proper, Callers
<1> HIDE DEF r
<1> QED
  BY <1>1, <1>2, OpenKeeps DEF OpenRequest, r

LEMMA OpenFixedKeeps ==
    ASSUME IInv, NEW s \in Sessions, OpenFixed(s)
    PROVE  IInv'
<1> DEFINE r == [Closed EXCEPT !.user = Service, !.stash = Service, !.at = "opened"]
<1>1. session' = [session EXCEPT ![s] = r] /\ session[s] = Closed /\ UNCHANGED <<setting, open>>
  BY DEF OpenFixed
<1>2. r \in SessionRecords /\ r.parent = None /\ Proper(r)
  BY DEF Closed, SessionRecords, Proper, Callers
<1> HIDE DEF r
<1> QED
  BY <1>1, <1>2, OpenKeeps

LEMMA AuthenticateKeeps ==
    ASSUME IInv, NEW s \in Sessions, Authenticate(s)
    PROVE  IInv'
<1> DEFINE r == [session[s] EXCEPT !.at = "authenticated"]
<1>1. session' = [session EXCEPT ![s] = r] /\ UNCHANGED <<setting, open>>
  BY DEF Authenticate, IInv, TypeOK
<1>2. session[s] \in SessionRecords /\ session[s].at = "opened" /\ session[s].stash = None
      /\ session[s].user \in Callers
  BY Stashes DEF Authenticate, IInv, StashIsCaller
<1>3. r \in SessionRecords /\ r.at = "authenticated" /\ r.user = session[s].user
      /\ r.stash = None /\ r.parent = session[s].parent
  BY <1>2 DEF SessionRecords
<1>4. Proper(r)
  BY <1>2, <1>3 DEF Proper
<1> HIDE DEF r
<1>5. BackendsCarryStash'
  BY <1>1, <1>2, <1>3 DEF IInv, TypeOK, BackendsCarryStash
<1>6. session' \in [Sessions -> SessionRecords] /\ OneTransaction' /\ StashIsCaller' /\ Families'
  BY <1>1, <1>2, <1>3, <1>4, SessionMove
<1> QED
  BY <1>1, <1>5, <1>6 DEF IInv, TypeOK

LEMMA SetContextKeeps ==
    ASSUME IInv, NEW s \in Sessions, SetContext(s)
    PROVE  IInv'
<1>1. PICK b \in On(s) : setting' = [setting EXCEPT ![b].local = session[s].user]
  BY DEF SetContext
<1> DEFINE r == [session[s] EXCEPT !.stash = session[s].user, !.at = "bound"]
           cfg == [setting[b] EXCEPT !.local = session[s].user]
<1>2. b \in Backends /\ setting[b] \in Settings /\ open[b] = s
      /\ setting[b].value = Nobody /\ setting[b].saved = Nobody
      /\ \A c \in Backends : open[c] = s => c = b
  BY SessionConstants DEF On, IInv, TypeOK, BackendsCarryStash, OneTransaction
<1>3. session[s] \in SessionRecords /\ session[s].at \in {"authenticated", "opened"}
      /\ session[s].user \in Callers
  BY Stashes DEF SetContext, IInv, StashIsCaller
<1>4. cfg \in Settings /\ cfg.value = Nobody /\ cfg.saved = Nobody /\ cfg.local = session[s].user
  BY <1>2, <1>3, LocalSet
<1>5. setting' = [setting EXCEPT ![b] = cfg]
  BY <1>1, <1>2 DEF IInv, TypeOK
<1>6. session' = [session EXCEPT ![s] = r] /\ open' = open
  <2>1. session' = [session EXCEPT ![s].stash = session[s].user, ![s].at = "bound"]
    BY DEF SetContext
  <2> QED
    BY <2>1 DEF SetContext, IInv, TypeOK
<1>7. r \in SessionRecords /\ r.at = "bound" /\ r.user = session[s].user
      /\ r.stash = session[s].user /\ r.parent = session[s].parent
  BY <1>3 DEF SessionRecords
<1>8. Proper(r)
  BY <1>3, <1>7 DEF Proper
<1> HIDE DEF r, cfg
<1>9. session' \in [Sessions -> SessionRecords] /\ OneTransaction' /\ StashIsCaller' /\ Families'
  BY <1>3, <1>6, <1>7, <1>8, SessionMove
<1>10. BackendsCarryStash'
  BY <1>2, <1>4, <1>5, <1>6, <1>7, SessionConstants DEF IInv, TypeOK, BackendsCarryStash
<1>11. setting' \in [Backends -> Settings] /\ open' \in [Backends -> Sessions \cup {None}]
  BY <1>2, <1>4, <1>5, <1>6 DEF IInv, TypeOK
<1> QED
  BY <1>9, <1>10, <1>11 DEF IInv, TypeOK

-----------------------------------------------------------------------------
(* Steps of a request and the registration it waits for. *)

LEMMA OpenRegistrationKeeps ==
    ASSUME IInv, NEW p \in Sessions, NEW s \in Sessions, OpenRegistration(p, s)
    PROVE  IInv'
<1> DEFINE rp == [session[p] EXCEPT !.at = "registering"]
           rs == [user |-> session[p].user, stash |-> session[p].user, at |-> "opened", parent |-> p]
<1>1. /\ session[p].at = "bound" /\ session[p].parent = None /\ session[s] = Closed
      /\ session[s].at = "closed" /\ p # s /\ UNCHANGED <<setting, open>>
  BY ClosedRecord DEF OpenRegistration
<1>2. /\ session[p] \in SessionRecords /\ session[p].user \in Callers
      /\ session[p].stash = session[p].user /\ p # None
  BY <1>1, Stashes, SessionConstants DEF IInv, StashIsCaller
<1>3. rp \in SessionRecords /\ rp.at = "registering" /\ rp.user = session[p].user
      /\ rp.stash = session[p].stash /\ rp.parent = None
  BY <1>1, <1>2 DEF SessionRecords
<1>4. rs \in SessionRecords /\ rs.at = "opened" /\ rs.user = session[p].user
      /\ rs.stash = session[p].user /\ rs.parent = p
  BY <1>1, <1>2 DEF SessionRecords
<1>5. Proper(rp) /\ Proper(rs)
  BY <1>2, <1>3, <1>4 DEF Proper
<1>6. session' = [session EXCEPT ![p] = rp, ![s] = rs]
  <2>1. session' = [session EXCEPT ![p].at = "registering", ![s] = rs]
    BY DEF OpenRegistration
  <2> QED
    BY <2>1 DEF IInv, TypeOK
<1> HIDE DEF rp, rs
<1>7. /\ session' \in [Sessions -> SessionRecords] /\ session'[p] = rp /\ session'[s] = rs
      /\ \A t \in Sessions \ {p, s} : session'[t] = session[t]
  BY <1>1, <1>3, <1>4, <1>6 DEF IInv, TypeOK
<1>8. \A b \in Backends : open[b] # s
  BY <1>1 DEF IInv, OneTransaction
<1>9. BackendsCarryStash'
  BY <1>1, <1>3, <1>7, <1>8 DEF IInv, BackendsCarryStash
<1>10. OneTransaction'
  BY <1>1, <1>3, <1>7, <1>8 DEF IInv, OneTransaction
<1>11. StashIsCaller'
  BY <1>5, <1>7 DEF IInv, StashIsCaller, Proper
<1>12. Families'
  <2> SUFFICES ASSUME NEW t \in Sessions, session'[t].parent # None
               PROVE  /\ session'[session'[t].parent].at = "registering"
                      /\ session'[session'[t].parent].parent = None
                      /\ \A u \in Sessions : session'[u].parent = session'[t].parent => u = t
    BY DEF Families
  <2>1. \A u \in Sessions : session[u].parent # p /\ session[u].parent # s
    BY <1>1, <1>2, SessionConstants DEF IInv, Families
  <2>2. CASE t = s
    BY <1>2, <1>3, <1>4, <1>7, <2>1, <2>2
  <2>3. CASE t # s
    <3>1. t # p /\ session'[t] = session[t]
      BY <1>3, <1>7, <2>3
    <3>2. session[t].parent \in Sessions \ {p, s}
      BY <2>1, <3>1 DEF IInv, TypeOK, SessionRecords
    <3> QED
      BY <1>3, <1>4, <1>7, <3>1, <3>2 DEF IInv, Families
  <2> QED
    BY <2>2, <2>3
<1> QED
  BY <1>1, <1>7, <1>9, <1>10, <1>11, <1>12 DEF IInv, TypeOK

\* Sessions that close release their backends, anonymous.
LEMMA ReleaseKeeps ==
    ASSUME IInv, NEW S \in SUBSET Sessions, Release(S),
           \A s \in Sessions \ S : session'[s].stash = session[s].stash
                                   /\ (session[s].at # "closed" => session'[s].at # "closed")
    PROVE  /\ setting' \in [Backends -> Settings] /\ open' \in [Backends -> Sessions \cup {None}]
           /\ BackendsCarryStash' /\ OneTransaction'
<1>1. None \notin S
  BY SessionConstants
<1>2. \A b \in Backends :
          /\ setting[b] \in Settings /\ open[b] \in Sessions \cup {None}
          /\ setting[b].value = Nobody /\ setting[b].saved = Nobody
  BY DEF IInv, TypeOK, BackendsCarryStash
<1>3. \A b \in Backends : open[b] \in S =>
          /\ open'[b] = None /\ setting'[b] \in Settings
          /\ setting'[b].value = Nobody /\ setting'[b].saved = Nobody /\ setting'[b].local = None
  BY <1>2, Ended DEF Release
<1>4. \A b \in Backends : open[b] \notin S => open'[b] = open[b] /\ setting'[b] = setting[b]
  BY DEF Release
<1>5. setting' \in [Backends -> Settings] /\ open' \in [Backends -> Sessions \cup {None}]
  <2>1. /\ \A b \in Backends : setting'[b] \in Settings /\ open'[b] \in Sessions \cup {None}
    BY <1>2, <1>3, <1>4
  <2>2. setting' = [b \in Backends |-> setting'[b]] /\ open' = [b \in Backends |-> open'[b]]
    BY DEF Release
  <2> QED
    BY <2>1, <2>2
<1>6. BackendsCarryStash'
  BY <1>1, <1>2, <1>3, <1>4, SessionConstants DEF IInv, BackendsCarryStash
<1>7. OneTransaction'
  BY <1>1, <1>2, <1>3, <1>4, SessionConstants DEF IInv, OneTransaction
<1> QED
  BY <1>5, <1>6, <1>7

LEMMA CloseKeeps ==
    ASSUME IInv, NEW s \in Sessions, Close(s)
    PROVE  IInv'
<1> DEFINE p == session[s].parent
           rp == [session[p] EXCEPT !.at = "bound"]
<1>1. session[s].at \in {"authenticated", "bound"} /\ Release({s})
  BY DEF Close
<1>2. \A t \in Sessions : session[t] \in SessionRecords
  BY DEF IInv, TypeOK
<1>3. p # None => /\ p \in Sessions \ {s} /\ session[p].at = "registering" /\ session[p].parent = None
                  /\ session[p].user \in Callers /\ session[p].stash = session[p].user
                  /\ \A t \in Sessions : session[t].parent = p => t = s
  BY <1>1, <1>2 DEF IInv, Families, SessionRecords, StashIsCaller
<1>4. p # None => /\ rp \in SessionRecords /\ rp.at = "bound" /\ rp.user = session[p].user
                  /\ rp.stash = session[p].stash /\ rp.parent = None
  BY <1>2, <1>3 DEF SessionRecords
<1>5. /\ session'[s] = Closed
      /\ p # None => session'[p] = rp
      /\ \A t \in Sessions \ {s, p} : session'[t] = session[t]
      /\ session' = [t \in Sessions |-> session'[t]]
  <2>1. session' = [t \in Sessions |-> IF t = s THEN Closed
                                       ELSE IF t = p THEN [session[t] EXCEPT !.at = "bound"]
                                       ELSE session[t]]
    BY DEF Close
  <2> QED
    BY <1>3, <2>1, SessionConstants
<1> HIDE DEF rp
<1>6. session' \in [Sessions -> SessionRecords]
  <2>1. \A t \in Sessions : session'[t] \in SessionRecords
    BY <1>2, <1>4, <1>5, ClosedRecord, SessionConstants
  <2> QED
    BY <1>5, <2>1
<1>7. /\ \A t \in Sessions \ {s} : /\ session'[t].stash = session[t].stash
                                   /\ session'[t].user = session[t].user
                                   /\ session'[t].parent = session[t].parent
                                   /\ (session[t].at # "closed" => session'[t].at # "closed")
  BY <1>3, <1>4, <1>5, SessionConstants
<1>8. StashIsCaller'
  BY <1>3, <1>4, <1>5, ClosedRecord, SessionConstants DEF IInv, StashIsCaller
<1>9. Families'
  <2> SUFFICES ASSUME NEW t \in Sessions, session'[t].parent # None
               PROVE  /\ session'[session'[t].parent].at = "registering"
                      /\ session'[session'[t].parent].parent = None
                      /\ \A u \in Sessions : session'[u].parent = session'[t].parent => u = t
    BY DEF Families
  <2>1. t # s /\ session'[t].parent = session[t].parent
    BY <1>5, <1>7, ClosedRecord
  <2>2. /\ session[session[t].parent].at = "registering" /\ session[session[t].parent].parent = None
        /\ \A u \in Sessions : session[u].parent = session[t].parent => u = t
        /\ session[t].parent \in Sessions
    BY <1>2, <2>1 DEF IInv, Families, SessionRecords
  <2>3. session[t].parent # s /\ session[t].parent # p
    BY <1>1, <1>3, <2>1, <2>2
  <2> QED
    BY <1>5, <1>7, <2>1, <2>2, <2>3, ClosedRecord
<1>10. BackendsCarryStash' /\ OneTransaction' /\ setting' \in [Backends -> Settings]
       /\ open' \in [Backends -> Sessions \cup {None}]
  BY <1>1, <1>7, ReleaseKeeps
<1> QED
  BY <1>6, <1>8, <1>9, <1>10 DEF IInv, TypeOK

LEMMA AbortKeeps ==
    ASSUME IInv, NEW s \in Sessions, Abort(s)
    PROVE  IInv'
<1> DEFINE S == Request(s)
<1>1. Release(S) /\ \A t \in Sessions : session'[t] = IF t \in S THEN Closed ELSE session[t]
  BY DEF Abort
<1>2. \A t \in Sessions : session[t] \in SessionRecords
  BY DEF IInv, TypeOK
<1>3. S \in SUBSET Sessions
  BY <1>2 DEF Request, SessionRecords
<1>4. session' \in [Sessions -> SessionRecords]
  BY <1>2, ClosedRecord DEF Abort
<1>5. StashIsCaller'
  BY <1>1, ClosedRecord DEF IInv, StashIsCaller
<1>6. Families'
  <2> SUFFICES ASSUME NEW t \in Sessions, session'[t].parent # None
               PROVE  /\ session'[session'[t].parent].at = "registering"
                      /\ session'[session'[t].parent].parent = None
                      /\ \A u \in Sessions : session'[u].parent = session'[t].parent => u = t
    BY DEF Families
  <2>1. t \notin S /\ session'[t] = session[t]
    BY <1>1, ClosedRecord
  <2>2. /\ session[session[t].parent].at = "registering" /\ session[session[t].parent].parent = None
        /\ \A u \in Sessions : session[u].parent = session[t].parent => u = t
        /\ session[t].parent \in Sessions
    BY <1>2, <2>1 DEF IInv, Families, SessionRecords
  <2>3. session[t].parent \notin S
    BY <2>1, <2>2, SessionConstants DEF Request
  <2> QED
    BY <1>1, <2>1, <2>2, <2>3, ClosedRecord
<1>7. BackendsCarryStash' /\ OneTransaction' /\ setting' \in [Backends -> Settings]
      /\ open' \in [Backends -> Sessions \cup {None}]
  BY <1>1, <1>3, ReleaseKeeps
<1> QED
  BY <1>4, <1>5, <1>6, <1>7 DEF IInv, TypeOK

-----------------------------------------------------------------------------
LEMMA NextKeeps == IInv /\ [Next]_vars => IInv'
<1> SUFFICES ASSUME IInv, [Next]_vars PROVE IInv'
  OBVIOUS
<1>1. ASSUME NEW s \in Sessions, OpenRequest(s) \/ OpenFixed(s)
      PROVE  IInv'
  BY <1>1, OpenRequestKeeps, OpenFixedKeeps
<1>2. ASSUME NEW s \in Sessions, NEW p \in Sessions, OpenRegistration(p, s)
      PROVE  IInv'
  BY <1>2, OpenRegistrationKeeps
<1>3. ASSUME NEW s \in Sessions, Step(s)
      PROVE  IInv'
  BY <1>3, BeginKeeps, AbortKeeps, AuthenticateKeeps, SetContextKeeps DEF Step, PoolTimeout
<1>4. ASSUME NEW s \in Sessions, Close(s) \/ Commit(s) \/ Reapply(s) \/ Fault(s)
      PROVE  IInv'
  BY <1>4, CloseKeeps, CommitKeeps, ReapplyKeeps, AbortKeeps DEF Fault
<1>5. CASE UNCHANGED vars
  BY <1>5 DEF vars, IInv, TypeOK, BackendsCarryStash, OneTransaction, StashIsCaller, Families
<1> QED
  BY <1>1, <1>2, <1>3, <1>4, <1>5 DEF Next

\* The inductive invariant holds in every reachable state.
THEOREM Invariant == Spec => []IInv
BY InitHolds, NextKeeps, PTL DEF Spec

\* Settings, transactions and sessions keep their types.
THEOREM TypeCorrect == Spec => []TypeOK
<1>1. IInv => TypeOK
  BY DEF IInv
<1> QED
  BY Invariant, <1>1, PTL

\* Every statement runs as the caller of its session, whichever backend, pool or
\* pooler its transaction is given, and a backend between two transactions carries
\* nobody's identity (core/db.py: the checkout and after_begin hooks).
THEOREM StatementsRunAsCaller == Spec => []RunsAsCaller
<1>1. IInv => RunsAsCaller
  <2> SUFFICES ASSUME IInv PROVE RunsAsCaller
    OBVIOUS
  <2>1. ASSUME NEW b \in Free PROVE Identity(b) = Nobody
    BY <2>1 DEF Free, Identity, IInv, BackendsCarryStash
  <2>2. ASSUME NEW s \in Sessions, NEW b \in On(s)
        PROVE  Identity(b) = IF session[s].at \in {"bound", "registering"} \/ session[s].stash # None
                             THEN session[s].user ELSE Nobody
    <3>1. setting[b].value = Nobody /\ setting[b].local = session[s].stash
      BY <2>2 DEF On, IInv, BackendsCarryStash
    <3>2. /\ session[s].at # "closed" /\ session[s].user # None
          /\ session[s].stash \in {None, session[s].user}
          /\ session[s].at \in {"bound", "registering"} => session[s].stash = session[s].user
      BY <2>2, Names DEF On, IInv, OneTransaction, StashIsCaller
    <3> QED
      BY <3>1, <3>2 DEF Identity
  <2> QED
    BY <2>1, <2>2 DEF RunsAsCaller
<1> QED
  BY Invariant, <1>1, PTL

-----------------------------------------------------------------------------
(***************************************************************************)
(* Accounts: the users whose identity the sessions above carry, for any    *)
(* number of accounts, addresses and requests.  The argument: whoever is   *)
(* about to write an address has been alone with it since the address was  *)
(* found free, or the address is marked raced; and a handler changes one   *)
(* field of a row, to a value made of what it read.                        *)
(***************************************************************************)

\* The inductive invariant of Accounts.
AccountsInv ==
    /\ AccountsTypeOK
    /\ AddressesUnambiguous
    /\ ClaimsAreChecked
    /\ PasswordsVerified

LEMMA AccountsStart == AccountsInit => AccountsInv
<1> SUFFICES ASSUME AccountsInit PROVE AccountsInv
  OBVIOUS
<1>1. Existing = {}
  BY DEF AccountsInit, Existing
<1>2. \A e \in Emails : Claiming(e) = {}
  BY DEF AccountsInit, Claiming, Idle
<1>3. AccountsTypeOK
  BY <1>1, AccountConstants DEF AccountsInit, AccountsTypeOK, RequestRecords, AccountsInv
<1>. QED
  BY <1>1, <1>2, <1>3 DEF AccountsInit, AccountsInv, AddressesUnambiguous, ClaimsAreChecked, PasswordsVerified, Is, Idle

\* What a request remembers, by its handler.
LEMMA Remembers ==
  ASSUME AccountsTypeOK, NEW r \in Requests
  PROVE  /\ request[r] \in RequestRecords
         /\ Is(r, "create") =>
               /\ request[r].user = 0
               /\ request[r].to \in [email : Emails, handle : Handles]
         /\ Is(r, "email") => request[r].user \in Subjects /\ request[r].to \in Emails
         /\ Is(r, "config") =>
               /\ request[r].user \in Subjects /\ request[r].read \in Configs
               /\ \A k \in DOMAIN request[r].to : request[r].to[k] \in Values \cup {Null}
         /\ Is(r, "password") =>
               /\ request[r].user \in Subjects /\ request[r].to \in Passwords
               /\ request[r].read \in [stored : Sent, sent : Sent]
         /\ Is(r, "role") => request[r].user \in Subjects /\ request[r].to \in Roles
         /\ Is(r, "delete") => request[r].user \in Subjects
<1>1. request[r] \in RequestRecords
  BY DEF AccountsTypeOK
<1>2. Is(r, "create") =>
      /\ request[r].user = 0
      /\ request[r].to \in [email : Emails, handle : Handles]
  BY <1>1 DEF RequestRecords, Is, Idle
<1>3. Is(r, "email") => request[r].user \in Subjects /\ request[r].to \in Emails
  BY <1>1 DEF RequestRecords, Is, Idle
<1>4. Is(r, "config") =>
      /\ request[r].user \in Subjects /\ request[r].read \in Configs
      /\ \A k \in DOMAIN request[r].to : request[r].to[k] \in Values \cup {Null}
  <2>1. Is(r, "config") => request[r].user \in Subjects /\ request[r].read \in Configs /\ request[r].to \in Patches
    BY <1>1 DEF RequestRecords, Is, Idle
  <2>2. ASSUME NEW patch \in Patches PROVE \A k \in DOMAIN patch : patch[k] \in Values \cup {Null}
    BY DEF Patches
  <2>. QED
    BY <2>1, <2>2
<1>5. Is(r, "password") =>
      /\ request[r].user \in Subjects /\ request[r].to \in Passwords
      /\ request[r].read \in [stored : Sent, sent : Sent]
  BY <1>1 DEF RequestRecords, Is, Idle
<1>6. Is(r, "role") => request[r].user \in Subjects /\ request[r].to \in Roles
  BY <1>1 DEF RequestRecords, Is, Idle
<1>7. Is(r, "delete") => request[r].user \in Subjects
  BY <1>1 DEF RequestRecords, Is, Idle
<1>. QED
  BY <1>1, <1>2, <1>3, <1>4, <1>5, <1>6, <1>7

\* The subject of a creation, 0, is no account.
LEMMA SubjectsAreIds == AccountsInv => Subjects \subseteq Ids /\ 0 \notin Ids
BY AccountConstants DEF AccountsTypeOK, Subjects, Ids, AccountsInv

\* Accounts are numbered in the order of their creation.
LEMMA ExistingSubjects ==
  ASSUME AccountsInv, NEW u \in Existing
  PROVE  u \in Ids /\ u \in Subjects /\ account[u] \in Account
BY AccountConstants DEF AccountsTypeOK, Existing, Ids, Subjects, AccountsInv

\* A request that begins without claiming an address.
LEMMA BeginsUnclaimed ==
  ASSUME AccountsInv, NEW r \in Requests, NEW q \in RequestRecords, q.op \notin {"create", "email"},
         request[r] = Idle, request' = [request EXCEPT ![r] = q],
         started' \in 0..MaxStarts, UNCHANGED <<account, created, raced>>,
         q.op = "password" => Verifies(q.read.stored, q.read.sent)
  PROVE  AccountsInv'
<1>1. AccountsTypeOK'
  BY DEF AccountsInv, AccountsTypeOK, Existing, RequestRecords, Subjects
<1>2. AddressesUnambiguous'
  BY DEF AccountsInv, AddressesUnambiguous, Existing
<1>3. \A e \in Emails : Claiming(e)' = Claiming(e)
  BY DEF AccountsInv, AccountsTypeOK, Claiming, Idle
<1>4. ClaimsAreChecked'
  <2> SUFFICES ASSUME NEW e \in Emails, NEW s \in Claiming(e)
               PROVE  Lower[e] \in raced \/ (Claiming(e) = {s} /\ ByEmail(e) \subseteq {request'[s].user})
    BY <1>3 DEF ClaimsAreChecked, ByEmail, Existing
  <2>1. request'[s] = request[s]
    BY DEF AccountsInv, AccountsTypeOK, Claiming, Idle
  <2>. QED
    BY <2>1 DEF AccountsInv, ClaimsAreChecked
<1>5. PasswordsVerified'
  BY DEF AccountsInv, AccountsTypeOK, PasswordsVerified, Is
<1>. QED
  BY <1>1, <1>2, <1>4, <1>5 DEF AccountsInv

\* A request that begins with the claim to an address that it has found free.
LEMMA BeginsClaiming ==
  ASSUME AccountsInv, NEW r \in Requests, NEW q \in RequestRecords, NEW e \in Emails,
         \/ q.op = "create" /\ q.to.email = e
         \/ q.op = "email" /\ q.to = e,
         request[r] = Idle, request' = [request EXCEPT ![r] = q],
         started' \in 0..MaxStarts, UNCHANGED <<account, created>>,
         ByEmail(e) \subseteq {q.user}, Claims(e)
  PROVE  AccountsInv'
<1>1. raced \subseteq raced' /\ raced' \subseteq Emails
  BY AccountConstants DEF Claims, AccountsInv, AccountsTypeOK
<1>2. AccountsTypeOK'
  BY <1>1 DEF AccountsInv, AccountsTypeOK, Existing, RequestRecords, Subjects
<1>3. AddressesUnambiguous'
  BY <1>1 DEF AccountsInv, AddressesUnambiguous, Existing
<1>4. \A f \in Emails :
         Claiming(f)' = IF Lower[f] = Lower[e] THEN Claiming(f) \cup {r} ELSE Claiming(f)
  BY DEF AccountsInv, AccountsTypeOK, Claiming, Idle
<1>5. r \notin Claiming(e)
  BY DEF Claiming, Idle
<1>6. ClaimsAreChecked'
  <2> SUFFICES ASSUME NEW f \in Emails, NEW s \in Claiming(f)', Lower[f] \notin raced'
               PROVE  Claiming(f)' = {s} /\ ByEmail(f) \subseteq {request'[s].user}
    BY DEF ClaimsAreChecked, ByEmail, Existing
  <2>1. CASE Lower[f] = Lower[e]
    <3>1. Claiming(e) = {}
      BY <2>1 DEF Claims
    <3>2. Claiming(f) = {} /\ ByEmail(f) = ByEmail(e)
      BY <3>1, <2>1 DEF Claiming, ByEmail
    <3>3. Claiming(f)' = {r} /\ s = r
      BY <3>2, <1>4, <2>1
    <3>. QED
      BY <3>2, <3>3 DEF AccountsInv, AccountsTypeOK
  <2>2. CASE Lower[f] # Lower[e]
    <3>1. s \in Claiming(f) /\ Claiming(f)' = Claiming(f)
      BY <1>4, <2>2
    <3>2. s # r
      BY <3>1 DEF Claiming, Idle
    <3>3. request'[s] = request[s]
      BY <3>2 DEF AccountsInv, AccountsTypeOK
    <3>. QED
      BY <3>1, <3>3, <1>1 DEF AccountsInv, ClaimsAreChecked
  <2>. QED
    BY <2>1, <2>2
<1>7. PasswordsVerified'
  BY DEF AccountsInv, AccountsTypeOK, PasswordsVerified, Is
<1>. QED
  BY <1>2, <1>3, <1>6, <1>7 DEF AccountsInv

\* What the end of a request leaves of the claims.
LEMMA EndOfClaims ==
  ASSUME AccountsInv, NEW r \in Requests, Ends(r)
  PROVE  /\ \A e \in Emails : Claiming(e)' = Claiming(e) \ {r}
         /\ \A s \in Requests \ {r} : request'[s] = request[s]
         /\ request'[r] = Idle
         /\ PasswordsVerified'
BY DEF AccountsInv, AccountsTypeOK, Ends, Claiming, Idle, PasswordsVerified, Is

\* A request that ends without a change of anybody's address.
LEMMA EndsElsewhere ==
  ASSUME AccountsInv, NEW r \in Requests, Ends(r), UNCHANGED <<created, raced>>,
         account' \in [Ids -> Account \cup {Absent}],
         \A u \in Existing' : u \in Existing /\ account'[u].email = account[u].email
  PROVE  AccountsInv'
<1>1. AccountsTypeOK'
  BY DEF AccountsInv, AccountsTypeOK, Ends, RequestRecords, Subjects
<1>2. AddressesUnambiguous'
  BY DEF AccountsInv, AddressesUnambiguous
<1>3. ClaimsAreChecked'
  <2> SUFFICES ASSUME NEW e \in Emails, NEW s \in Claiming(e)', Lower[e] \notin raced
               PROVE  Claiming(e)' = {s} /\ ByEmail(e)' \subseteq {request'[s].user}
    BY DEF ClaimsAreChecked
  <2>1. s \in Claiming(e) /\ s # r /\ s \in Requests
    BY EndOfClaims DEF Claiming
  <2>2. Claiming(e) = {s} /\ ByEmail(e) \subseteq {request[s].user}
    BY <2>1 DEF AccountsInv, ClaimsAreChecked
  <2>3. ByEmail(e)' \subseteq ByEmail(e)
    BY DEF ByEmail
  <2>. QED
    BY <2>1, <2>2, <2>3, EndOfClaims
<1>. QED
  BY <1>1, <1>2, <1>3, EndOfClaims DEF AccountsInv

\* A request that ends by giving the address it has claimed to an account: nobody else
\* claims it, and nobody else has it.
LEMMA EndsGiving ==
  ASSUME AccountsInv, NEW r \in Requests, Ends(r), UNCHANGED raced,
         NEW u \in Ids, NEW e \in Emails, NEW rec \in Account,
         r \in Claiming(e), request[r].user \in {0, u},
         rec.email = e, account' = [account EXCEPT ![u] = rec],
         created' \in created..MaxUsers, u <= created'
  PROVE  AccountsInv'
<1>0. account \in [Ids -> Account \cup {Absent}] /\ created \in Nat
  BY DEF AccountsInv, AccountsTypeOK
<1>1. \A v \in Existing' :
         \/ v = u
         \/ v # u /\ v \in Existing /\ account'[v] = account[v]
  BY <1>0 DEF Existing
<1>2. account'[u].email = e
  BY <1>0
<1>3. AccountsTypeOK'
  <2>1. account' \in [Ids -> Account \cup {Absent}]
    BY <1>0
  <2>2. \A v \in Existing' : v <= created'
    BY <1>0, <1>1, AccountConstants DEF AccountsInv, AccountsTypeOK, Existing, Ids
  <2>3. Subjects \subseteq Subjects'
    BY <1>0, AccountConstants DEF Subjects, AccountsInv
  <2>4. RequestRecords \subseteq RequestRecords'
    BY <2>3 DEF RequestRecords
  <2>5. request' \in [Requests -> RequestRecords']
    <3>1. Idle \in RequestRecords
      BY DEF RequestRecords
    <3>. QED
      BY <3>1, <2>4 DEF AccountsInv, AccountsTypeOK, Ends
  <2>. QED
    BY <1>0, <2>1, <2>2, <2>5, AccountConstants DEF AccountsInv, AccountsTypeOK, Ends
<1>4. Lower[e] \notin raced => Claiming(e) = {r} /\ ByEmail(e) \subseteq {u}
  <2>1. 0 \notin ByEmail(e)
    BY SubjectsAreIds DEF ByEmail, Existing, AccountsInv
  <2>. QED
    BY <2>1 DEF AccountsInv, ClaimsAreChecked
<1>5. AddressesUnambiguous'
  <2> SUFFICES ASSUME NEW v \in Existing', NEW w \in Existing', v # w,
                      Lower[account'[v].email] = Lower[account'[w].email],
                      Lower[account'[v].email] \notin raced
               PROVE  FALSE
    BY DEF AddressesUnambiguous
  <2>1. CASE v # u /\ w # u
    BY <1>1, <2>1 DEF AccountsInv, AddressesUnambiguous
  <2>2. CASE v = u
    BY <1>1, <1>2, <1>4, <2>2 DEF ByEmail
  <2>3. CASE w = u
    BY <1>1, <1>2, <1>4, <2>3 DEF ByEmail
  <2>. QED
    BY <2>1, <2>2, <2>3
<1>6. ClaimsAreChecked'
  <2> SUFFICES ASSUME NEW f \in Emails, NEW s \in Claiming(f)', Lower[f] \notin raced
               PROVE  Claiming(f)' = {s} /\ ByEmail(f)' \subseteq {request'[s].user}
    BY DEF ClaimsAreChecked
  <2>1. s \in Claiming(f) /\ s # r /\ s \in Requests
    BY EndOfClaims DEF Claiming
  <2>2. Claiming(f) = {s} /\ ByEmail(f) \subseteq {request[s].user}
    BY <2>1 DEF AccountsInv, ClaimsAreChecked
  <2>3. Lower[f] # Lower[e]
    BY <2>1, <2>2 DEF Claiming
  <2>4. ByEmail(f)' \subseteq ByEmail(f)
    BY <1>1, <1>2, <2>3 DEF ByEmail
  <2>. QED
    BY <2>1, <2>2, <2>4, EndOfClaims
<1>. QED
  BY <1>3, <1>5, <1>6, EndOfClaims DEF AccountsInv

-----------------------------------------------------------------------------
(* The actions. *)

LEMMA InvCheckNew == ASSUME AccountsInv, NEW r \in Requests, CheckNew(r) PROVE AccountsInv'
<1>1. PICK e \in Emails, h \in Handles :
         /\ ByEmail(e) = {}
         /\ Starts(r, "create", 0, [email |-> e, handle |-> h], Absent)
         /\ Claims(e)
         /\ UNCHANGED <<account, created>>
  BY DEF CheckNew
<1> DEFINE q == [op |-> "create", user |-> 0, to |-> [email |-> e, handle |-> h], read |-> Absent]
<1>2. q \in RequestRecords
  BY DEF RequestRecords
<1>3. started' \in 0..MaxStarts
  BY <1>1, AccountConstants DEF Starts, AccountsInv, AccountsTypeOK
<1>. QED
  BY <1>1, <1>2, <1>3, BeginsClaiming DEF Starts

LEMMA InvCheckEmail == ASSUME AccountsInv, NEW r \in Requests, CheckEmail(r) PROVE AccountsInv'
<1>1. PICK u \in Existing, e \in Emails :
         /\ ByEmail(e) \subseteq {u}
         /\ Starts(r, "email", u, e, account[u].email)
         /\ Claims(e)
         /\ UNCHANGED <<account, created>>
  BY DEF CheckEmail
<1> DEFINE q == [op |-> "email", user |-> u, to |-> e, read |-> account[u].email]
<1>2. u \in Subjects /\ account[u] \in Account
  BY ExistingSubjects DEF AccountsInv
<1>3. q \in RequestRecords
  BY <1>2 DEF RequestRecords, Account
<1>4. started' \in 0..MaxStarts
  BY <1>1, AccountConstants DEF Starts, AccountsInv, AccountsTypeOK
<1>. QED
  BY <1>1, <1>3, <1>4, BeginsClaiming DEF Starts

LEMMA InvReadConfig == ASSUME AccountsInv, NEW r \in Requests, ReadConfig(r) PROVE AccountsInv'
<1>1. PICK u \in Existing, k \in Keys, v \in Values \cup {Null} :
         /\ Starts(r, "config", u, [key \in {k} |-> v], account[u].config)
         /\ UNCHANGED <<account, created, raced>>
  BY DEF ReadConfig
<1> DEFINE q == [op |-> "config", user |-> u, to |-> [key \in {k} |-> v], read |-> account[u].config]
<1>2. u \in Subjects /\ account[u] \in Account
  BY ExistingSubjects DEF AccountsInv
<1>3. [key \in {k} |-> v] \in Patches
  BY DEF Patches
<1>4. q \in RequestRecords
  BY <1>2, <1>3 DEF RequestRecords, Account
<1>5. started' \in 0..MaxStarts
  BY <1>1, AccountConstants DEF Starts, AccountsInv, AccountsTypeOK
<1>. QED
  BY <1>1, <1>4, <1>5, BeginsUnclaimed DEF Starts

LEMMA InvReadPassword == ASSUME AccountsInv, NEW r \in Requests, ReadPassword(r) PROVE AccountsInv'
<1>1. PICK u \in Existing, current \in Passwords \cup {Absent}, new \in Passwords :
         /\ Verifies(account[u].password, current)
         /\ Starts(r, "password", u, new, [stored |-> account[u].password, sent |-> current])
         /\ UNCHANGED <<account, created, raced>>
  BY DEF ReadPassword
<1> DEFINE q == [op |-> "password", user |-> u, to |-> new,
                 read |-> [stored |-> account[u].password, sent |-> current]]
<1>2. u \in Subjects /\ account[u] \in Account
  BY ExistingSubjects DEF AccountsInv
<1>3. q \in RequestRecords
  BY <1>2 DEF RequestRecords, Account, Sent
<1>4. started' \in 0..MaxStarts
  BY <1>1, AccountConstants DEF Starts, AccountsInv, AccountsTypeOK
<1>. QED
  BY <1>1, <1>3, <1>4, BeginsUnclaimed DEF Starts

LEMMA InvFindForAdmin == ASSUME AccountsInv, NEW r \in Requests, FindForAdmin(r) PROVE AccountsInv'
<1>1. PICK e \in Emails, op \in {"role", "delete"}, role \in Roles, u \in Ids :
         /\ ByEmail(e) = {u}
         /\ Starts(r, op, u, role, account[u].role)
         /\ UNCHANGED <<account, created, raced>>
  BY DEF FindForAdmin
<1> DEFINE q == [op |-> op, user |-> u, to |-> role, read |-> account[u].role]
<1>2. u \in Subjects /\ account[u] \in Account
  BY <1>1, ExistingSubjects DEF AccountsInv, ByEmail
<1>3. q \in RequestRecords
  BY <1>2 DEF RequestRecords, Account
<1>4. started' \in 0..MaxStarts
  BY <1>1, AccountConstants DEF Starts, AccountsInv, AccountsTypeOK
<1>. QED
  BY <1>1, <1>3, <1>4, BeginsUnclaimed DEF Starts

LEMMA InvBootstrap == ASSUME AccountsInv, NEW r \in Requests, Bootstrap(r) PROVE AccountsInv'
<1> DEFINE new == request[r].to
           id == created + 1
           rec == [email |-> new.email, handle |-> new.handle, role |-> "user",
                   config |-> [k \in Keys |-> Absent], password |-> Absent]
<1>1. request[r].user = 0 /\ new.email \in Emails /\ new.handle \in Handles
  BY Remembers DEF AccountsInv, Bootstrap
<1>2. rec \in Account
  BY <1>1 DEF Account, Configs, Roles
<1>3. id \in Ids /\ created' \in created..MaxUsers /\ id <= created'
  BY AccountConstants DEF Bootstrap, AccountsInv, AccountsTypeOK, Ids
<1>4. r \in Claiming(new.email)
  BY DEF Bootstrap, Claiming, Is
<1>. QED
  BY <1>1, <1>2, <1>3, <1>4, EndsGiving DEF Bootstrap, Write

LEMMA InvSetEmail == ASSUME AccountsInv, NEW r \in Requests, SetEmail(r) PROVE AccountsInv'
<1> DEFINE u == request[r].user
           e == request[r].to
<1>1. u \in Existing /\ e \in Emails /\ u \in Ids /\ account[u] \in Account
  BY Remembers, ExistingSubjects DEF AccountsInv, SetEmail, Existing
<1>2. account \in [Ids -> Account \cup {Absent}]
  BY DEF AccountsInv, AccountsTypeOK
<1>3. CASE e = request[r].read
  <2>1. account' = [account EXCEPT ![u] = [account[u] EXCEPT !.email = @]]
    BY <1>3 DEF SetEmail, Write
  <2>2. [account[u] EXCEPT !.email = @] = account[u]
    BY <1>1 DEF Account
  <2>3. account' = account
    BY <2>1, <2>2, <1>2
  <2>. QED
    BY <2>3, <1>2, EndsElsewhere DEF SetEmail, Existing
<1>4. CASE e # request[r].read
  <2> DEFINE rec == [account[u] EXCEPT !.email = e]
  <2>1. rec \in Account /\ rec.email = e
    BY <1>1 DEF Account
  <2>2. account' = [account EXCEPT ![u] = rec]
    BY <1>4 DEF SetEmail, Write
  <2>3. r \in Claiming(e)
    BY DEF SetEmail, Claiming, Is
  <2>4. created' \in created..MaxUsers /\ u <= created'
    BY <1>1, AccountConstants DEF SetEmail, AccountsInv, AccountsTypeOK
  <2>. QED
    BY <1>1, <2>1, <2>2, <2>3, <2>4, EndsGiving DEF SetEmail
<1>. QED
  BY <1>3, <1>4

\* Writing a record that keeps the address.
LEMMA KeepsAddress ==
  ASSUME AccountsTypeOK, NEW u \in Existing, NEW rec \in Account,
         rec.email = account[u].email, account' = [account EXCEPT ![u] = rec]
  PROVE  /\ account' \in [Ids -> Account \cup {Absent}]
         /\ \A v \in Existing' : v \in Existing /\ account'[v].email = account[v].email
BY DEF AccountsTypeOK, Existing

LEMMA MergedConfig ==
  ASSUME NEW old \in Configs, NEW patch,
         \A k \in DOMAIN patch : patch[k] \in Values \cup {Null}
  PROVE  Merge(old, patch) \in Configs
BY DEF Merge, Configs

LEMMA InvPatchConfig == ASSUME AccountsInv, NEW r \in Requests, PatchConfig(r) PROVE AccountsInv'
<1> DEFINE u == request[r].user
           merged == Merge(request[r].read, request[r].to)
           rec == [account[u] EXCEPT !.config = IF merged = request[r].read THEN @ ELSE merged]
<1>1. u \in Existing /\ account[u] \in Account
  BY ExistingSubjects DEF AccountsInv, PatchConfig
<1>2. merged \in Configs
  BY Remembers, MergedConfig DEF AccountsInv, PatchConfig
<1>3. rec \in Account /\ rec.email = account[u].email
  BY <1>1, <1>2 DEF Account
<1>. QED
  BY <1>1, <1>3, KeepsAddress, EndsElsewhere DEF PatchConfig, Write, AccountsInv

LEMMA InvSetPassword == ASSUME AccountsInv, NEW r \in Requests, SetPassword(r) PROVE AccountsInv'
<1> DEFINE u == request[r].user
           rec == [account[u] EXCEPT !.password = request[r].to]
<1>1. u \in Existing /\ account[u] \in Account
  BY ExistingSubjects DEF AccountsInv, SetPassword
<1>2. request[r].to \in Passwords
  BY Remembers DEF AccountsInv, SetPassword
<1>3. rec \in Account /\ rec.email = account[u].email
  BY <1>1, <1>2 DEF Account
<1>. QED
  BY <1>1, <1>3, KeepsAddress, EndsElsewhere DEF SetPassword, Write, AccountsInv

LEMMA InvSetRole == ASSUME AccountsInv, NEW r \in Requests, SetRole(r) PROVE AccountsInv'
<1> DEFINE u == request[r].user
           rec == [account[u] EXCEPT !.role = IF request[r].to = request[r].read
                                              THEN @ ELSE request[r].to]
<1>1. u \in Existing /\ account[u] \in Account
  BY ExistingSubjects DEF AccountsInv, SetRole
<1>2. request[r].to \in Roles
  BY Remembers DEF AccountsInv, SetRole
<1>3. rec \in Account /\ rec.email = account[u].email
  BY <1>1, <1>2 DEF Account
<1>. QED
  BY <1>1, <1>3, KeepsAddress, EndsElsewhere DEF SetRole, Write, AccountsInv

LEMMA InvDelete == ASSUME AccountsInv, NEW r \in Requests, Delete(r) PROVE AccountsInv'
<1>1. /\ account' \in [Ids -> Account \cup {Absent}]
      /\ \A v \in Existing' : v \in Existing /\ account'[v].email = account[v].email
  BY DEF AccountsInv, AccountsTypeOK, Delete, Write, Existing
<1>. QED
  BY <1>1, EndsElsewhere DEF Delete

LEMMA InvFails == ASSUME AccountsInv, NEW r \in Requests, Fails(r) PROVE AccountsInv'
<1>1. /\ account' \in [Ids -> Account \cup {Absent}]
      /\ \A v \in Existing' : v \in Existing /\ account'[v].email = account[v].email
  BY DEF AccountsInv, AccountsTypeOK, Fails, Existing
<1>. QED
  BY <1>1, EndsElsewhere DEF Fails

LEMMA InvStep == AccountsInv /\ [AccountsNext]_accountsVars => AccountsInv'
<1>1. CASE AccountsNext
  BY <1>1, InvCheckNew, InvCheckEmail, InvReadConfig, InvReadPassword, InvFindForAdmin, InvBootstrap,
     InvSetEmail, InvPatchConfig, InvSetPassword, InvSetRole, InvDelete, InvFails DEF AccountsNext
<1>2. CASE UNCHANGED accountsVars
  BY <1>2 DEF accountsVars, AccountsInv, AccountsTypeOK, AddressesUnambiguous, ClaimsAreChecked, PasswordsVerified, Existing,
     RequestRecords, Subjects, Claiming, ByEmail, Is
<1>. QED
  BY <1>1, <1>2

\* The inductive invariant holds of every behaviour.
THEOREM AccountsInvariant == AccountsSpec => []AccountsInv
<1>1. AccountsInit => AccountsInv
  BY AccountsStart
<1>2. AccountsInv /\ [AccountsNext]_accountsVars => AccountsInv'
  BY InvStep
<1>. QED
  BY <1>1, <1>2, PTL DEF AccountsSpec

\* get_by_email finds at most one account, whatever administrators and users do at
\* the same time, unless two of their requests claimed the address together.
THEOREM AddressesFindOne == AccountsSpec => []AddressesUnambiguous
<1>1. AccountsInv => AddressesUnambiguous
  BY DEF AccountsInv
<1>. QED
  BY AccountsInvariant, <1>1, PTL

-----------------------------------------------------------------------------

\* An account's config or password changes only by the handler that is for it.
LEMMA FieldsKept ==
  ASSUME AccountsInv, NEW field \in {"config", "password"}, NEW u \in Ids, Changed(u, field), AccountsNext
  PROVE  \E r \in Requests :
            /\ Finished(r, field, u)
            /\ field = "config" => PatchConfig(r)
            /\ field = "password" => SetPassword(r)
<1>1. /\ u \in Existing /\ account'[u] # Absent /\ account'[u][field] # account[u][field]
      /\ account \in [Ids -> Account \cup {Absent}] /\ u <= created /\ account[u] \in Account
      /\ created \in Nat
  BY ExistingSubjects, AccountConstants DEF Changed, AccountsInv, AccountsTypeOK
<1>2. PICK r \in Requests :
         \/ CheckNew(r) \/ CheckEmail(r) \/ ReadConfig(r) \/ ReadPassword(r)
         \/ FindForAdmin(r) \/ Bootstrap(r) \/ SetEmail(r) \/ PatchConfig(r)
         \/ SetPassword(r) \/ SetRole(r) \/ Delete(r) \/ Fails(r)
  BY DEF AccountsNext
<1>3. account' # account
  BY <1>1
<1>4. /\ ~CheckNew(r) /\ ~CheckEmail(r) /\ ~ReadConfig(r)
      /\ ~ReadPassword(r) /\ ~FindForAdmin(r) /\ ~Fails(r)
  BY <1>3 DEF CheckNew, CheckEmail, ReadConfig, ReadPassword, FindForAdmin, Fails
<1>5. ~Bootstrap(r)
  BY <1>1 DEF Bootstrap, Write
<1>6. ~SetEmail(r)
  BY <1>1 DEF SetEmail, Write, Account
<1>7. ~SetRole(r)
  BY <1>1 DEF SetRole, Write, Account
<1>8. ~Delete(r)
  BY <1>1 DEF Delete, Write
<1>9. request[r].user = u /\ request'[r] = Idle
  BY <1>1, <1>2, <1>4, <1>5, <1>6, <1>7, <1>8, EndOfClaims DEF PatchConfig, SetPassword, Write
<1>10. CASE PatchConfig(r)
  BY <1>1, <1>9, <1>10 DEF PatchConfig, Write, Account, Finished
<1>11. CASE SetPassword(r)
  BY <1>1, <1>9, <1>11 DEF SetPassword, Write, Account, Finished
<1>. QED
  BY <1>2, <1>4, <1>5, <1>6, <1>7, <1>8, <1>10, <1>11

\* PATCH of the config puts back a key that it does not name only if the config has
\* changed since it was read.
THEOREM PatchesMerge == AccountsSpec => PatchesKeepOtherKeys
<1>1. ASSUME AccountsInv, [AccountsNext]_accountsVars, NEW u \in Ids, NEW k \in Keys,
             Changed(u, "config"), account'[u].config[k] # account[u].config[k]
      PROVE  \E r \in Requests :
                /\ Finished(r, "config", u)
                /\ \/ k \in DOMAIN request[r].to
                   \/ request[r].read # account[u].config
  <2>1. AccountsNext
    BY <1>1 DEF accountsVars, Changed
  <2>2. PICK r \in Requests : Finished(r, "config", u) /\ PatchConfig(r)
    BY <1>1, <2>1, FieldsKept
  <2> DEFINE merged == Merge(request[r].read, request[r].to)
  <2>3. account[u] \in Account /\ account \in [Ids -> Account \cup {Absent}] /\ request[r].user = u
    BY <1>1, <2>2, ExistingSubjects DEF Changed, AccountsInv, AccountsTypeOK, Finished
  <2>4. account'[u].config = IF merged = request[r].read THEN account[u].config ELSE merged
    BY <2>2, <2>3 DEF PatchConfig, Write, Account
  <2>5. k \notin DOMAIN request[r].to => merged[k] = request[r].read[k]
    BY DEF Merge
  <2>. QED
    BY <1>1, <2>2, <2>4, <2>5
<1>2. AccountsInv /\ [AccountsNext]_accountsVars => [OtherKeysKept]_accountsVars
  BY <1>1 DEF OtherKeysKept
<1>. QED
  BY AccountsInvariant, <1>2, PTL DEF PatchesKeepOtherKeys, AccountsSpec

\* Nobody replaces a password that he did not know, but for a race of first passwords.
THEOREM PasswordsNeedTheOld == AccountsSpec => PasswordsChangeKnowingly
<1>1. ASSUME AccountsInv, [AccountsNext]_accountsVars, NEW u \in Ids, Changed(u, "password"), account[u].password # Absent
      PROVE  \E r \in Requests :
                /\ Finished(r, "password", u)
                /\ \/ request[r].read.sent = account[u].password
                   \/ request[r].read.stored # account[u].password
  <2>1. AccountsNext
    BY <1>1 DEF accountsVars, Changed
  <2>2. PICK r \in Requests : Finished(r, "password", u) /\ SetPassword(r)
    BY <1>1, <2>1, FieldsKept
  <2>3. Verifies(request[r].read.stored, request[r].read.sent)
    BY <1>1, <2>2 DEF AccountsInv, PasswordsVerified, Finished
  <2>. QED
    BY <1>1, <2>2, <2>3 DEF Verifies
<1>2. AccountsInv /\ [AccountsNext]_accountsVars => [OldPasswordsKnown]_accountsVars
  BY <1>1 DEF OldPasswordsKnown
<1>. QED
  BY AccountsInvariant, <1>2, PTL DEF PasswordsChangeKnowingly, AccountsSpec

=============================================================================
