----------------------- MODULE WorkspaceMembersProofs -----------------------
(***************************************************************************)
(* Proofs about WorkspaceMembers, for any number of users and requests.    *)
(* The argument for OneAtATime: a request that is alone is an owner until  *)
(* the statement that takes its own ownership away, so that its statements *)
(* have, one action after another, the effect that the level asks for; the *)
(* only halves that row-level security lets it leave are levels too.       *)
(***************************************************************************)
EXTENDS WorkspaceMembers, FiniteSetTheorems, TLAPS

\* The actions whose statement has been run.
Handled(rec) ==
    IF rec.pc = "commit" THEN Actions
    ELSE IF rec.op = "remove"
         THEN {a \in Actions : (a = "owner" /\ rec.n > 1) \/ (a = "read" /\ rec.n > 2)}
         ELSE {a \in Actions : (a = "read" /\ rec.n > 1) \/ (a = "write" /\ rec.n > 2)}

\* What the transaction makes of the roster G.
Made(rec, G) == (G \cup rec.ins) \ rec.del

\* Does the target have the action once its statement has been run? An owner
\* who removes himself cannot delete what comes after the ownership.
Given(rec, a, G) ==
    IF rec.op = "remove" THEN rec.caller = rec.target /\ a # "owner" /\ <<rec.target, a>> \in G
    ELSE a \in Ceiling(rec.level)

\* The statements so far have done what they should, and nothing else.
Effect(rec, G) ==
    /\ \A u \in Users, a \in Actions :
         <<u, a>> \in Made(rec, G) <=>
             IF u = rec.target /\ a \in Handled(rec) THEN Given(rec, a, G) ELSE <<u, a>> \in G
    /\ \A a \in Actions \ Handled(rec) : <<rec.target, a>> \notin rec.ins \cup rec.del

\* A request that is alone.
AtWork(rec, G) ==
    /\ rec.pc # "wait"
    /\ <<rec.caller, "owner">> \in G
    /\ rec.pc # "commit" /\ rec.pc # "run" => rec.ins = {} /\ rec.del = {} /\ rec.n = 1
    /\ rec.pc \in {"run", "commit"} =>
        /\ Effect(rec, G)
        /\ rec.op = "remove" => \A a \in Actions :
               <<rec.target, a>> \in G => <<rec.target, a>> \in rec.picked

Closed(G) ==
    \A u \in Users : {a \in Actions : <<u, a>> \in G} \in {{}} \cup {Ceiling(a) : a \in Actions}

Alone ==
    /\ Closed(grants)
    /\ \A r, s \in Requests : req[r].pc # "idle" /\ req[s].pc # "idle" => r = s
    /\ \A r \in Requests : req[r].pc # "idle" => AtWork(req[r], grants)

IInv ==
    /\ TypeOK
    /\ \A r \in Requests : req[r].pc = "idle" => req[r] = Idle
    /\ ~overlapped => Alone
-----------------------------------------------------------------------------
(* Records and levels. *)

LEMMA IdleRecord ==
    /\ Idle \in RequestRecords /\ Idle.pc = "idle" /\ Idle.n = 1
    /\ Idle.ins = {} /\ Idle.del = {}
BY MembersAssumption DEF Idle, RequestRecords, Actions, Rows

LEMMA Ceilings ==
    /\ Ceiling("read") = {"read"} /\ Ceiling("write") = {"read", "write"}
    /\ Ceiling("owner") = Actions
BY DEF Ceiling

\* The statements of a request go through the actions one by one.
LEMMA RowOf ==
    ASSUME NEW r \in Requests, req[r] \in RequestRecords, req[r].pc = "run"
    PROVE  \E a \in Actions :
             /\ Row(r) = <<req[r].target, a>>
             /\ a \notin Handled(req[r])
             /\ (req[r].op = "remove" /\ req[r].n = 1) <=> (req[r].op = "remove" /\ a = "owner")
             /\ a # "owner" /\ req[r].op = "remove" => "owner" \in Handled(req[r])
             /\ req[r].op # "remove" => "owner" \notin Handled(req[r])
             /\ \A rec : rec.op = req[r].op =>
                  /\ IsLast(r) /\ rec.pc = "commit" => Handled(rec) = Handled(req[r]) \cup {a}
                  /\ ~IsLast(r) /\ rec.pc = "run" /\ rec.n = req[r].n + 1 =>
                         Handled(rec) = Handled(req[r]) \cup {a}
<1>1. req[r].n \in 1..3 /\ req[r].op \in {"add", "update", "remove", "delete"}
  BY DEF RequestRecords
<1>2. CASE req[r].op = "remove" /\ req[r].n = 1
  <2>1. Row(r) = <<req[r].target, "owner">>
    BY <1>2 DEF Row
  <2> QED
    BY <1>2, <2>1 DEF Handled, IsLast, Actions
<1>3. CASE req[r].op = "remove" /\ req[r].n = 2
  <2>1. Row(r) = <<req[r].target, "read">>
    BY <1>3 DEF Row
  <2> QED
    BY <1>3, <2>1 DEF Handled, IsLast, Actions
<1>4. CASE req[r].op = "remove" /\ req[r].n = 3
  <2>1. Row(r) = <<req[r].target, "write">>
    BY <1>4 DEF Row
  <2> QED
    BY <1>4, <2>1 DEF Handled, IsLast, Actions
<1>5. CASE req[r].op # "remove" /\ req[r].n = 1
  <2>1. Row(r) = <<req[r].target, "read">>
    BY <1>5 DEF Row
  <2> QED
    BY <1>5, <2>1 DEF Handled, IsLast, Actions
<1>6. CASE req[r].op # "remove" /\ req[r].n = 2
  <2>1. Row(r) = <<req[r].target, "write">>
    BY <1>6 DEF Row
  <2> QED
    BY <1>6, <2>1 DEF Handled, IsLast, Actions
<1>7. CASE req[r].op # "remove" /\ req[r].n = 3
  <2>1. Row(r) = <<req[r].target, "owner">>
    BY <1>7 DEF Row
  <2> QED
    BY <1>7, <2>1 DEF Handled, IsLast, Actions
<1> QED
  BY <1>1, <1>2, <1>3, <1>4, <1>5, <1>6, <1>7

\* One more statement.
LEMMA EffectGrows ==
    ASSUME NEW G, NEW x, NEW rec, NEW a \in Actions, Effect(x, G),
           rec.op = x.op, rec.caller = x.caller, rec.target = x.target, rec.level = x.level,
           Handled(rec) = Handled(x) \cup {a}, a \notin Handled(x),
           \A g : g # <<x.target, a>> =>
               (g \in rec.ins <=> g \in x.ins) /\ (g \in rec.del <=> g \in x.del),
           <<x.target, a>> \in Made(rec, G) <=> Given(rec, a, G)
    PROVE  Effect(rec, G)
<1>1. ASSUME NEW u \in Users, NEW b \in Actions, <<u, b>> # <<x.target, a>>
      PROVE  /\ <<u, b>> \in Made(rec, G) <=> <<u, b>> \in Made(x, G)
             /\ u = rec.target /\ b \in Handled(rec) <=> u = x.target /\ b \in Handled(x)
             /\ Given(rec, b, G) <=> Given(x, b, G)
  BY <1>1 DEF Made, Given
<1>2. ASSUME NEW u \in Users, NEW b \in Actions
      PROVE  <<u, b>> \in Made(rec, G) <=>
               IF u = rec.target /\ b \in Handled(rec) THEN Given(rec, b, G) ELSE <<u, b>> \in G
  <2>1. CASE <<u, b>> # <<x.target, a>>
    BY <1>1, <2>1 DEF Effect
  <2>2. CASE <<u, b>> = <<x.target, a>>
    BY <2>2
  <2> QED
    BY <2>1, <2>2
<1>3. \A b \in Actions \ Handled(rec) : <<rec.target, b>> \notin rec.ins \cup rec.del
  BY DEF Effect
<1> QED
  BY <1>2, <1>3 DEF Effect

\* What a request that was alone commits.
LEMMA ClosedAfter ==
    ASSUME NEW G, Closed(G), NEW x \in RequestRecords, x.pc = "commit", AtWork(x, G)
    PROVE  Closed(Made(x, G))
<1>1. Effect(x, G) /\ Handled(x) = Actions /\ <<x.caller, "owner">> \in G
  BY DEF AtWork, Handled
<1>2. ASSUME NEW u \in Users, u # x.target
      PROVE  {a \in Actions : <<u, a>> \in Made(x, G)} = {a \in Actions : <<u, a>> \in G}
  BY <1>1, <1>2 DEF Effect
<1>3. \A a \in Actions : <<x.target, a>> \in Made(x, G) <=> Given(x, a, G)
  BY <1>1 DEF Effect, RequestRecords
<1>4. CASE x.op # "remove"
  <2>1. {a \in Actions : <<x.target, a>> \in Made(x, G)} = Ceiling(x.level)
    <3>1. \A a \in Actions : <<x.target, a>> \in Made(x, G) <=> a \in Ceiling(x.level)
      BY <1>3, <1>4 DEF Given
    <3>2. Ceiling(x.level) \subseteq Actions
      BY Ceilings DEF RequestRecords, Actions
    <3> QED
      BY <3>1, <3>2
  <2> QED
    BY <1>2, <2>1 DEF Closed, RequestRecords
<1>5. CASE x.op = "remove" /\ x.caller # x.target
  <2>1. {a \in Actions : <<x.target, a>> \in Made(x, G)} = {}
    BY <1>3, <1>5 DEF Given
  <2> QED
    BY <1>2, <2>1 DEF Closed
<1>6. CASE x.op = "remove" /\ x.caller = x.target
  <2>1. {a \in Actions : <<x.target, a>> \in G} = Actions
    <3>1. /\ {a \in Actions : <<x.target, a>> \in G} \in {{}} \cup {Ceiling(a) : a \in Actions}
          /\ "owner" \in {a \in Actions : <<x.target, a>> \in G}
      BY <1>1, <1>6 DEF Closed, RequestRecords, Actions
    <3> QED
      BY <3>1, Ceilings DEF Actions
  <2>2. {a \in Actions : <<x.target, a>> \in Made(x, G)} = {"read", "write"}
    BY <1>3, <1>6, <2>1 DEF Given, Actions
  <2>3. {"read", "write"} \in {Ceiling(a) : a \in Actions}
    BY Ceilings DEF Actions
  <2> QED
    BY <1>2, <2>2, <2>3 DEF Closed
<1> QED
  BY <1>4, <1>5, <1>6

-----------------------------------------------------------------------------
(* The actions. *)

\* A request takes its next step and commits nothing.
LEMMA RequestMove ==
    ASSUME IInv, NEW r \in Requests, req[r].pc # "idle",
           NEW rec \in RequestRecords, req' = [req EXCEPT ![r] = rec],
           rec.pc = "idle" => rec = Idle,
           Alone => rec.pc = "idle" \/ AtWork(rec, grants),
           exists' \in BOOLEAN, faults' \in 0..MaxFaults,
           UNCHANGED <<grants, overlapped, contested, started>>
    PROVE  IInv'
<1>1. req' \in [Requests -> RequestRecords] /\ req'[r] = rec
      /\ \A q \in Requests \ {r} : req'[q] = req[q]
  BY DEF IInv, TypeOK
<1>2. TypeOK'
  BY <1>1 DEF IInv, TypeOK
<1>3. (\A q \in Requests : req[q].pc = "idle" => req[q] = Idle)'
  BY <1>1 DEF IInv
<1>4. ASSUME Alone PROVE Alone'
  <2>1. Closed(grants)'
    BY <1>4 DEF Alone, Closed
  <2>2. \A q \in Requests : req'[q].pc # "idle" => req[q].pc # "idle" /\ AtWork(req'[q], grants)
    BY <1>1, <1>4 DEF Alone
  <2>3. \A q \in Requests : (req[q].pc # "idle" => AtWork(req[q], grants))'
    BY <2>2 DEF AtWork, Effect, Made, Given, Handled
  <2> QED
    BY <1>4, <2>1, <2>2, <2>3 DEF Alone
<1> QED
  BY <1>2, <1>3, <1>4 DEF IInv

\* A request ends without a trace.
LEMMA EndMove ==
    ASSUME IInv, NEW r \in Requests, req[r].pc # "idle", End(r), faults' \in 0..MaxFaults,
           UNCHANGED <<exists, grants, overlapped, contested, started>>
    PROVE  IInv'
<1>1. exists' \in BOOLEAN /\ req' = [req EXCEPT ![r] = Idle]
  BY DEF IInv, TypeOK, End
<1> QED
  BY <1>1, IdleRecord, RequestMove

\* A request goes to another place.
LEMMA PlaceMove ==
    ASSUME IInv, NEW r \in Requests, req[r].pc # "idle",
           NEW pc \in {"count", "select", "run", "wait", "cascade"}, Move(r, pc),
           Alone => AtWork([req[r] EXCEPT !.pc = pc], grants),
           UNCHANGED <<exists, grants, overlapped, contested, started, faults>>
    PROVE  IInv'
<1>1. req[r] \in RequestRecords /\ exists' \in BOOLEAN /\ faults' \in 0..MaxFaults
  BY DEF IInv, TypeOK
<1>2. PICK rec : rec = [req[r] EXCEPT !.pc = pc]
  OBVIOUS
<1>3. rec \in RequestRecords /\ rec.pc # "idle"
  BY <1>1, <1>2 DEF RequestRecords
<1>4. req' = [req EXCEPT ![r] = rec]
  BY <1>2 DEF Move
<1>5. Alone => AtWork(rec, grants)
  BY <1>2
<1> QED
  BY <1>1, <1>3, <1>4, <1>5, RequestMove

\* Questions leave the record as it is but for its place.
LEMMA Asks ==
    ASSUME NEW G, NEW x \in RequestRecords, AtWork(x, G),
           x.pc \in {"lookup", "count", "select"},
           NEW pc \in {"count", "select", "run"}, pc = "run" => x.op # "remove"
    PROVE  AtWork([x EXCEPT !.pc = pc], G)
<1>1. PICK rec : rec = [x EXCEPT !.pc = pc]
  OBVIOUS
<1>2. /\ rec.pc = pc /\ rec.op = x.op /\ rec.n = x.n /\ rec.ins = x.ins /\ rec.del = x.del
      /\ rec.caller = x.caller /\ rec.target = x.target
  BY <1>1 DEF RequestRecords
<1>3. rec.ins = {} /\ rec.del = {} /\ rec.n = 1 /\ <<rec.caller, "owner">> \in G
  BY <1>2 DEF AtWork
<1>4. pc = "run" => Handled(rec) = {}
  BY <1>2, <1>3 DEF Handled
<1>5. pc = "run" => Effect(rec, G)
  BY <1>3, <1>4 DEF Effect, Made
<1> QED
  BY <1>1, <1>2, <1>3, <1>5 DEF AtWork

LEMMA Typed == ASSUME IInv, NEW r \in Requests PROVE req[r] \in RequestRecords
BY DEF IInv, TypeOK

LEMMA LookUpKeeps == ASSUME IInv, NEW r \in Requests, LookUp(r) PROVE IInv'
<1>1. /\ req[r].pc = "lookup" /\ faults' \in 0..MaxFaults
      /\ UNCHANGED <<exists, grants, overlapped, contested, started, faults>>
  BY DEF LookUp, IInv, TypeOK
<1>2. CASE End(r)
  BY <1>1, <1>2, EndMove
<1>3. CASE \E pc \in {"count", "select", "run"} : Move(r, pc) /\ (pc = "run" => req[r].op # "remove")
  <2>1. PICK pc \in {"count", "select", "run"} : Move(r, pc) /\ (pc = "run" => req[r].op # "remove")
    BY <1>3
  <2>2. Alone => AtWork([req[r] EXCEPT !.pc = pc], grants)
    BY <1>1, <2>1, Typed, Asks DEF Alone
  <2> QED
    BY <1>1, <2>1, <2>2, PlaceMove
<1> QED
  BY <1>2, <1>3 DEF LookUp

LEMMA CountKeeps == ASSUME IInv, NEW r \in Requests, Count(r) PROVE IInv'
<1>1. /\ req[r].pc = "count" /\ faults' \in 0..MaxFaults
      /\ UNCHANGED <<exists, grants, overlapped, contested, started, faults>>
  BY DEF Count, IInv, TypeOK
<1>2. CASE End(r)
  BY <1>1, <1>2, EndMove
<1>3. CASE \E pc \in {"select", "run"} : Move(r, pc) /\ (pc = "run" => req[r].op # "remove")
  <2>1. PICK pc \in {"select", "run"} : Move(r, pc) /\ (pc = "run" => req[r].op # "remove")
    BY <1>3
  <2>2. Alone => AtWork([req[r] EXCEPT !.pc = pc], grants)
    BY <1>1, <2>1, Typed, Asks DEF Alone
  <2> QED
    BY <1>1, <2>1, <2>2, PlaceMove
<1> QED
  BY <1>2, <1>3 DEF Count

LEMMA SelectKeeps == ASSUME IInv, NEW r \in Requests, Select(r) PROVE IInv'
<1>1. /\ req[r].pc = "select" /\ faults' \in 0..MaxFaults /\ exists' \in BOOLEAN
      /\ UNCHANGED <<exists, grants, overlapped, contested, started, faults>>
  BY DEF Select, IInv, TypeOK
<1>2. PICK rows : rows = {g \in Roster(r) : g[1] = req[r].target}
  OBVIOUS
<1>3. CASE End(r)
  BY <1>1, <1>3, EndMove
<1>4. CASE req' = [req EXCEPT ![r].pc = "run", ![r].picked = rows]
  <2>1. PICK rec : rec = [req[r] EXCEPT !.pc = "run", !.picked = rows]
    OBVIOUS
  <2>2. req' = [req EXCEPT ![r] = rec]
    BY <1>4, <2>1
  <2>3. rows \in SUBSET Rows
    BY <1>2, Typed DEF Roster, Seen, IInv, TypeOK, RequestRecords
  <2>4. rec \in RequestRecords /\ rec.pc = "run" /\ rec.picked = rows
        /\ rec.op = req[r].op /\ rec.n = req[r].n
        /\ rec.ins = req[r].ins /\ rec.del = req[r].del
        /\ rec.caller = req[r].caller /\ rec.target = req[r].target
    BY <2>1, <2>3, Typed DEF RequestRecords
  <2>5. ASSUME Alone PROVE AtWork(rec, grants)
    <3>1. AtWork(req[r], grants)
      BY <1>1, <2>5 DEF Alone
    <3>2. /\ rec.ins = {} /\ rec.del = {} /\ rec.n = 1
          /\ <<rec.caller, "owner">> \in grants
      BY <1>1, <2>4, <3>1 DEF AtWork
    <3>3. Seen(r) = grants
      BY <2>4, <3>2 DEF Seen
    <3>4. rows = {g \in grants : g[1] = rec.target}
      BY <1>2, <2>4, <3>2, <3>3 DEF Roster, IsOwner
    <3>5. Handled(rec) = {}
      BY <2>4, <3>2 DEF Handled
    <3>6. Effect(rec, grants)
      BY <3>2, <3>5 DEF Effect, Made
    <3> QED
      BY <2>4, <3>2, <3>4, <3>6 DEF AtWork
  <2> QED
    BY <1>1, <2>2, <2>4, <2>5, RequestMove
<1> QED
  BY <1>2, <1>3, <1>4 DEF Select

\* A request that is alone has nobody to wait for.
LEMMA WaitKeeps == ASSUME IInv, NEW r \in Requests, Wait(r) PROVE IInv'
<1>1. /\ req[r].pc = "run" /\ Blocked(r) /\ Move(r, "wait")
      /\ UNCHANGED <<exists, grants, overlapped, contested, started, faults>>
  BY DEF Wait
<1>2. ~Alone
  <2>1. PICK s \in Requests : s # r /\ req[s].ins \cup req[s].del # {}
    BY <1>1 DEF Blocked, Blocks
  <2>2. req[s].pc # "idle"
    BY <2>1, IdleRecord DEF IInv
  <2> QED
    BY <1>1, <2>1, <2>2 DEF Alone
<1> QED
  BY <1>1, <1>2, PlaceMove

\* What a writing statement leaves in the record.
Ran(rec, r) ==
    /\ rec.op = req[r].op /\ rec.caller = req[r].caller /\ rec.target = req[r].target
    /\ rec.level = req[r].level /\ rec.picked = req[r].picked
    /\ rec.ins = IF Inserts(r) /\ Row(r) \notin Seen(r) THEN req[r].ins \cup {Row(r)} ELSE req[r].ins
    /\ rec.del = IF Deletes(r) THEN req[r].del \cup {Row(r)} ELSE req[r].del
    /\ IF IsLast(r) THEN rec.pc = "commit" ELSE rec.pc = "run" /\ rec.n = req[r].n + 1

LEMMA RunsAlone ==
    ASSUME NEW r \in Requests, req[r] \in RequestRecords, req[r].pc = "run",
           AtWork(req[r], grants), NEW rec \in RequestRecords, Ran(rec, r),
           Inserts(r) => Allowed(r)
    PROVE  AtWork(rec, grants)
<1>1. PICK x : x = req[r]
  OBVIOUS
<1>2. Effect(x, grants) /\ x \in RequestRecords /\ <<x.caller, "owner">> \in grants
      /\ (x.op = "remove" => \A b \in Actions :
             <<x.target, b>> \in grants => <<x.target, b>> \in x.picked)
  BY <1>1 DEF AtWork
<1>3. PICK a \in Actions :
        /\ Row(r) = <<x.target, a>>
        /\ a \notin Handled(x)
        /\ a # "owner" /\ x.op = "remove" => "owner" \in Handled(x)
        /\ x.op # "remove" => "owner" \notin Handled(x)
        /\ (x.op = "remove" /\ a = "owner") => "owner" \notin Handled(x)
        /\ Handled(rec) = Handled(x) \cup {a}
  BY <1>1, RowOf DEF Ran
<1>4. Row(r) \notin x.ins \cup x.del /\ x.target \in Users /\ x.caller \in Users
  BY <1>2, <1>3 DEF Effect, RequestRecords
<1>5. Seen(r) = Made(x, grants)
  BY <1>1 DEF Seen, Made
<1>6. Row(r) \in Seen(r) <=> Row(r) \in grants
  BY <1>2, <1>3, <1>4, <1>5 DEF Effect
<1>7. Allowed(r) <=> x.op # "remove" \/ a = "owner" \/ x.caller # x.target
  <2>1. Allowed(r) <=> <<x.caller, "owner">> \in Made(x, grants)
    BY <1>1, <1>5 DEF Allowed, IsOwner
  <2>2. <<x.caller, "owner">> \in Made(x, grants) <=>
          IF x.caller = x.target /\ "owner" \in Handled(x) THEN Given(x, "owner", grants) ELSE TRUE
    BY <1>2, <1>4 DEF Effect, Actions
  <2> QED
    BY <1>3, <2>1, <2>2 DEF Given
<1>8. Inserts(r) <=> x.op # "remove" /\ a \in Ceiling(x.level)
  BY <1>1, <1>3 DEF Inserts
<1>9. Deletes(r) <=> ~Inserts(r) /\ Allowed(r) /\ Row(r) \in grants
  BY <1>1, <1>2, <1>3, <1>6 DEF Deletes
<1>10. /\ rec.op = x.op /\ rec.caller = x.caller /\ rec.target = x.target /\ rec.level = x.level
       /\ rec.picked = x.picked /\ rec.pc \in {"run", "commit"}
       /\ rec.ins = IF Inserts(r) /\ Row(r) \notin Seen(r) THEN x.ins \cup {Row(r)} ELSE x.ins
       /\ rec.del = IF Deletes(r) THEN x.del \cup {Row(r)} ELSE x.del
  BY <1>1 DEF Ran
<1>11. Row(r) \in Made(rec, grants) <=> Inserts(r) \/ (Row(r) \in grants /\ ~Deletes(r))
  BY <1>4, <1>6, <1>9, <1>10 DEF Made
<1>12. Row(r) \in Made(rec, grants) <=> Given(rec, a, grants)
  BY <1>3, <1>7, <1>8, <1>9, <1>10, <1>11 DEF Given
<1>13. \A g : g # <<x.target, a>> =>
         (g \in rec.ins <=> g \in x.ins) /\ (g \in rec.del <=> g \in x.del)
  BY <1>3, <1>10
<1>14. Effect(rec, grants)
  BY <1>2, <1>3, <1>10, <1>12, <1>13, EffectGrows
<1> QED
  BY <1>2, <1>10, <1>14 DEF AtWork

LEMMA StatementKeeps == ASSUME IInv, NEW r \in Requests, Statement(r) PROVE IInv'
<1>1. /\ req[r].pc \in {"run", "wait"} /\ Apply(r) /\ faults' \in 0..MaxFaults
      /\ exists' \in BOOLEAN
      /\ UNCHANGED <<exists, grants, overlapped, contested, started, faults>>
  BY DEF Statement, IInv, TypeOK
<1>2. CASE Inserts(r) /\ ~(Allowed(r) /\ exists)
  BY <1>1, <1>2, EndMove DEF Apply
<1>3. CASE ~(Inserts(r) /\ ~(Allowed(r) /\ exists))
  <2>1. PICK rec : rec = [req[r] EXCEPT
             !.ins = IF Inserts(r) /\ Row(r) \notin Seen(r) THEN @ \cup {Row(r)} ELSE @,
             !.del = IF Deletes(r) THEN @ \cup {Row(r)} ELSE @,
             !.n = IF IsLast(r) THEN @ ELSE @ + 1,
             !.pc = IF IsLast(r) THEN "commit" ELSE "run"]
    OBVIOUS
  <2>2. req' = [req EXCEPT ![r] = rec]
    BY <1>1, <1>3, <2>1 DEF Apply
  <2>3. req[r] \in RequestRecords
    BY Typed
  <2>4. Row(r) \in Rows
    <3>1. req[r].n \in 1..3 /\ req[r].target \in Users
      BY <2>3 DEF RequestRecords
    <3> QED
      BY <3>1 DEF Row, Rows, Actions
  <2>5. Ran(rec, r)
    BY <2>1, <2>3 DEF Ran, RequestRecords, IsLast
  <2>6. rec \in RequestRecords /\ rec.pc # "idle"
    <3>1. IsLast(r) \/ req[r].n + 1 \in 1..3
      BY <2>3 DEF IsLast, RequestRecords
    <3> QED
      BY <2>1, <2>3, <2>4, <3>1 DEF RequestRecords, IsLast
  <2>7. ASSUME Alone PROVE AtWork(rec, grants)
    <3>1. AtWork(req[r], grants) /\ req[r].pc = "run"
      BY <1>1, <2>7 DEF Alone, AtWork
    <3> QED
      BY <1>3, <2>3, <2>5, <2>6, <3>1, RunsAlone
  <2> QED
    BY <1>1, <2>2, <2>6, <2>7, RequestMove
<1> QED
  BY <1>2, <1>3

\* A request that has been alone publishes and ends.
LEMMA PublishMove ==
    ASSUME IInv, NEW r \in Requests, req[r].pc # "idle", End(r),
           grants' \in SUBSET Rows, exists' \in BOOLEAN, Alone => Closed(grants)',
           UNCHANGED <<overlapped, contested, started, faults>>
    PROVE  IInv'
<1>1. req' \in [Requests -> RequestRecords] /\ req'[r] = Idle
      /\ \A q \in Requests \ {r} : req'[q] = req[q]
  BY IdleRecord DEF IInv, TypeOK, End
<1>2. TypeOK'
  BY <1>1 DEF IInv, TypeOK
<1>3. (\A q \in Requests : req[q].pc = "idle" => req[q] = Idle)'
  BY <1>1 DEF IInv
<1>4. ASSUME Alone PROVE Alone'
  <2>1. \A q \in Requests : req'[q].pc = "idle"
    BY <1>1, <1>4, IdleRecord DEF Alone
  <2> QED
    BY <1>4, <2>1 DEF Alone
<1> QED
  BY <1>2, <1>3, <1>4 DEF IInv

LEMMA CommitKeeps == ASSUME IInv, NEW r \in Requests, Commit(r) PROVE IInv'
<1>1. /\ req[r].pc = "commit" /\ grants' = Made(req[r], grants) /\ End(r)
      /\ UNCHANGED <<exists, overlapped, contested, started, faults>>
  BY DEF Commit, Seen, Made
<1>2. req[r] \in RequestRecords
  BY Typed
<1>3. grants' \in SUBSET Rows /\ exists' \in BOOLEAN
  BY <1>1, <1>2 DEF Made, IInv, TypeOK, RequestRecords
<1>4. Alone => Closed(Made(req[r], grants))
  BY <1>1, <1>2, ClosedAfter DEF Alone
<1>5. Alone => Closed(grants)'
  BY <1>1, <1>4 DEF Closed
<1> QED
  BY <1>1, <1>3, <1>5, PublishMove

LEMMA StartDropKeeps == ASSUME IInv, NEW r \in Requests, StartDrop(r) PROVE IInv'
<1>1. /\ req[r].pc = "drop" /\ (Move(r, "cascade") \/ End(r))
      /\ UNCHANGED <<exists, grants, overlapped, contested, started, faults>>
  BY DEF StartDrop
<1>2. CASE Move(r, "cascade")
  <2>1. PICK rec : rec = [req[r] EXCEPT !.pc = "cascade"]
    OBVIOUS
  <2>2. /\ rec \in RequestRecords /\ rec.pc = "cascade" /\ rec.op = req[r].op /\ rec.n = req[r].n
        /\ rec.caller = req[r].caller /\ rec.target = req[r].target
        /\ rec.ins = req[r].ins /\ rec.del = req[r].del
    BY <2>1, Typed DEF RequestRecords
  <2>3. Alone => AtWork(req[r], grants)
    BY <1>1 DEF Alone
  <2>4. Alone => AtWork(rec, grants)
    BY <1>1, <2>2, <2>3 DEF AtWork
  <2>5. Alone => AtWork([req[r] EXCEPT !.pc = "cascade"], grants)
    BY <2>1, <2>4
  <2> QED
    BY <1>1, <1>2, <2>5, PlaceMove
<1>3. CASE End(r)
  <2>1. faults' \in 0..MaxFaults
    BY <1>1 DEF IInv, TypeOK
  <2> QED
    BY <1>1, <1>3, <2>1, EndMove
<1> QED
  BY <1>1, <1>2, <1>3

LEMMA DropKeeps == ASSUME IInv, NEW r \in Requests, Drop(r) PROVE IInv'
<1>1. /\ req[r].pc = "cascade" /\ grants' = {} /\ End(r)
      /\ UNCHANGED <<overlapped, contested, started, faults>>
  BY DEF Drop
<1>2. exists' \in BOOLEAN
  BY DEF Drop
<1>3. grants' \in SUBSET Rows
  BY <1>1
<1>4. Alone => Closed(grants)'
  BY <1>1 DEF Alone, Closed
<1> QED
  BY <1>1, <1>2, <1>3, <1>4, PublishMove

LEMMA StopKeeps ==
    ASSUME IInv, NEW r \in Requests, DeadlockVictim(r) \/ Abort(r)
    PROVE  IInv'
<1>1. /\ req[r].pc # "idle" /\ End(r) /\ faults' \in 0..MaxFaults
      /\ UNCHANGED <<exists, grants, overlapped, contested, started>>
  <2>1. CASE DeadlockVictim(r)
    BY <2>1 DEF DeadlockVictim, Deadlocked, IInv, TypeOK
  <2>2. CASE Abort(r)
    BY <2>2, MembersAssumption DEF Abort, IInv, TypeOK
  <2> QED
    BY <2>1, <2>2
<1> QED
  BY <1>1, EndMove

LEMMA BeginKeeps ==
    ASSUME IInv, NEW r \in Requests, NEW op \in {"add", "update", "remove", "delete"},
           NEW caller \in Users, NEW target \in Users, NEW level \in Actions,
           Begin(r, op, caller, target, level)
    PROVE  IInv'
<1>1. PICK rec : rec = [Idle EXCEPT !.pc = IF op = "delete" THEN "drop" ELSE "lookup",
                            !.op = op, !.caller = caller, !.target = target, !.level = level]
  OBVIOUS
<1>2. /\ rec \in RequestRecords /\ rec.pc \in {"drop", "lookup"} /\ rec.caller = caller
      /\ rec.ins = {} /\ rec.del = {} /\ rec.n = 1
  BY <1>1, IdleRecord DEF Idle, RequestRecords
<1>3. req' = [req EXCEPT ![r] = rec] /\ <<caller, "owner">> \in grants
      /\ UNCHANGED <<exists, grants, faults>>
      /\ req[r].pc = "idle" /\ started < MaxRequests /\ started' = started + 1
  BY <1>1 DEF Begin
<1>4. req' \in [Requests -> RequestRecords] /\ req'[r] = rec
      /\ \A q \in Requests \ {r} : req'[q] = req[q]
  BY <1>2, <1>3 DEF IInv, TypeOK
<1>5. /\ overlapped' = (overlapped \/ \E s \in Requests : req[s].pc # "idle")
      /\ overlapped' \in BOOLEAN /\ contested' \in BOOLEAN
  BY Zenon DEF Begin, IInv, TypeOK
<1>6. TypeOK'
  BY <1>3, <1>4, <1>5, MembersAssumption DEF IInv, TypeOK
<1>7. (\A q \in Requests : req[q].pc = "idle" => req[q] = Idle)'
  BY <1>2, <1>4 DEF IInv
<1>8. ASSUME ~overlapped' PROVE Alone'
  <2>1. ~overlapped /\ \A q \in Requests : req[q].pc = "idle"
    BY <1>5, <1>8
  <2>2. Closed(grants)'
    BY <1>3, <2>1 DEF IInv, Alone, Closed
  <2>3. AtWork(rec, grants)
    BY <1>2, <1>3 DEF AtWork
  <2>4. \A q \in Requests : req'[q].pc # "idle" => q = r /\ AtWork(req'[q], grants)
    BY <1>4, <2>1, <2>3
  <2>5. \A q \in Requests : (req[q].pc # "idle" => AtWork(req[q], grants))'
    BY <1>3, <2>4 DEF AtWork, Effect, Made, Given, Handled
  <2> QED
    BY <2>2, <2>4, <2>5 DEF Alone
<1> QED
  BY <1>6, <1>7, <1>8 DEF IInv

-----------------------------------------------------------------------------
(* The specification. *)

LEMMA InitHolds == Init => IInv
<1> SUFFICES ASSUME Init PROVE IInv
  OBVIOUS
<1>1. \A r \in Requests : req[r] = Idle
  BY DEF Init
<1>2. TypeOK
  <2>1. req \in [Requests -> RequestRecords]
    BY IdleRecord DEF Init
  <2>2. grants \in SUBSET Rows
    BY MembersAssumption DEF Init, Rows
  <2>3. exists \in BOOLEAN /\ overlapped \in BOOLEAN /\ contested \in BOOLEAN
    BY Zenon DEF Init
  <2>4. started \in 0..MaxRequests /\ faults \in 0..MaxFaults
    BY MembersAssumption DEF Init
  <2> QED
    BY <2>1, <2>2, <2>3, <2>4 DEF TypeOK
<1>3. Closed(grants)
  <2>1. {a \in Actions : <<Founder, a>> \in grants} = Ceiling("owner")
    BY Ceilings, MembersAssumption DEF Init
  <2>2. \A u \in Users \ {Founder} : {a \in Actions : <<u, a>> \in grants} = {}
    BY DEF Init
  <2> QED
    BY <2>1, <2>2 DEF Closed, Actions
<1> QED
  BY <1>1, <1>2, <1>3, IdleRecord DEF IInv, Alone

LEMMA StutterKeeps == ASSUME IInv, UNCHANGED vars PROVE IInv'
<1>1. UNCHANGED <<exists, grants, req, overlapped, contested, started, faults>>
  BY DEF vars
<1>2. TypeOK' /\ (\A q \in Requests : req[q].pc = "idle" => req[q] = Idle)'
  BY <1>1 DEF IInv, TypeOK
<1>3. Alone => Alone'
  BY <1>1 DEF Alone, Closed, AtWork, Effect, Made, Given, Handled
<1> QED
  BY <1>1, <1>2, <1>3 DEF IInv

LEMMA NextKeeps == IInv /\ [Next]_vars => IInv'
<1> SUFFICES ASSUME IInv, [Next]_vars PROVE IInv'
  OBVIOUS
<1>1. ASSUME NEW r \in Requests, Step(r) PROVE IInv'
  BY <1>1, LookUpKeeps, CountKeeps, SelectKeeps, StatementKeeps, WaitKeeps, StopKeeps,
     CommitKeeps, StartDropKeeps, DropKeeps DEF Step
<1>2. ASSUME NEW r \in Requests, Abort(r) PROVE IInv'
  BY <1>2, StopKeeps
<1>3. ASSUME NEW r \in Requests,
             \/ \E caller, target \in Users, level \in Actions, op \in {"add", "update"} :
                    Begin(r, op, caller, target, level)
             \/ \E caller, target \in Users : Begin(r, "remove", caller, target, "read")
             \/ \E caller \in Users : Begin(r, "delete", caller, caller, "read")
      PROVE  IInv'
  <2>1. PICK op \in {"add", "update", "remove", "delete"}, caller \in Users,
             target \in Users, level \in Actions : Begin(r, op, caller, target, level)
    BY <1>3 DEF Actions
  <2> QED
    BY <2>1, BeginKeeps
<1> QED
  BY <1>1, <1>2, <1>3, StutterKeeps DEF Next

\* The inductive invariant of the roster and of a request that is alone.
THEOREM Invariant == Spec => []IInv
BY InitHolds, NextKeeps, PTL DEF Spec

\* Types, for any users and requests.
THEOREM TypeCorrect == Spec => []TypeOK
<1>1. IInv => TypeOK
  BY DEF IInv
<1> QED
  BY <1>1, Invariant, PTL

\* Requests that do not overlap keep the levels closed downwards, also when they
\* are cancelled or when row-level security skips half of one.
THEOREM LevelsStayClosed == Spec => []OneAtATime
<1>1. IInv => OneAtATime
  BY DEF IInv, Alone, Closed, OneAtATime, LevelsClosed, Held
<1> QED
  BY <1>1, Invariant, PTL

-----------------------------------------------------------------------------
(* The last owner: only a request that may take ownership away deletes rows, *)
(* and while no two of them overlap, what one of them has found holds until  *)
(* it commits: somebody besides its target is an owner.                      *)

Taker(rec) == MayTake(rec.op, rec.level)

OwnerBeside(rec, G) == \E u \in Users \ {rec.target} : <<u, "owner">> \in G

Clean(rec) ==
    /\ rec.pc \in {"lookup", "count", "select"} => rec.ins = {} /\ rec.del = {}
    /\ ~Taker(rec) => rec.del = {}
    /\ \A g \in rec.del : g[1] = rec.target
    /\ rec.pc \in {"drop", "cascade"} <=> rec.op = "delete"

Guarded(rec, G) ==
    IF rec.pc \in {"lookup", "count"} THEN <<rec.caller, "owner">> \in G ELSE OwnerBeside(rec, G)

SingleTaker ==
    /\ exists => \E u \in Users : <<u, "owner">> \in grants
    /\ \A r, s \in Requests :
         req[r].pc # "idle" /\ Taker(req[r]) /\ req[s].pc # "idle" /\ Taker(req[s]) => r = s
    /\ \A r \in Requests : req[r].pc # "idle" =>
         Clean(req[r]) /\ (exists /\ Taker(req[r]) => Guarded(req[r], grants))

OInv == ~contested => SingleTaker

\* A request takes its next step, or ends, and commits nothing.
LEMMA TakerMove ==
    ASSUME IInv, OInv, NEW r \in Requests, req[r].pc # "idle",
           NEW rec \in RequestRecords, req' = [req EXCEPT ![r] = rec],
           rec.pc # "idle" => (Taker(rec) <=> Taker(req[r])),
           SingleTaker /\ rec.pc # "idle" =>
               Clean(rec) /\ (exists /\ Taker(rec) => Guarded(rec, grants)),
           UNCHANGED <<exists, grants, contested>>
    PROVE  OInv'
<1>1. req'[r] = rec /\ \A q \in Requests \ {r} : req'[q] = req[q]
  BY DEF IInv, TypeOK
<1>2. ASSUME SingleTaker PROVE SingleTaker'
  <2>1. (exists => \E u \in Users : <<u, "owner">> \in grants)'
    BY <1>2 DEF SingleTaker
  <2>2. \A q \in Requests : req'[q].pc # "idle" =>
          /\ req[q].pc # "idle" /\ (Taker(req'[q]) <=> Taker(req[q]))
          /\ Clean(req'[q]) /\ (exists /\ Taker(req'[q]) => Guarded(req'[q], grants))
    BY <1>1, <1>2 DEF SingleTaker
  <2>3. \A q \in Requests : Taker(req[q])' <=> Taker(req'[q])
    BY DEF Taker, MayTake
  <2>4. \A q \in Requests : (req[q].pc # "idle" =>
          Clean(req[q]) /\ (exists /\ Taker(req[q]) => Guarded(req[q], grants)))'
    BY <2>2 DEF Clean, Guarded, OwnerBeside, Taker, MayTake
  <2>5. (\A q, s \in Requests :
          req[q].pc # "idle" /\ Taker(req[q]) /\ req[s].pc # "idle" /\ Taker(req[s]) => q = s)'
    BY <1>2, <2>2, <2>3 DEF SingleTaker
  <2> QED
    BY <2>1, <2>4, <2>5 DEF SingleTaker
<1> QED
  BY <1>2 DEF OInv

LEMMA TakerEnds ==
    ASSUME IInv, OInv, NEW r \in Requests, req[r].pc # "idle", End(r),
           UNCHANGED <<exists, grants, contested>>
    PROVE  OInv'
BY IdleRecord, TakerMove DEF End

\* It goes to another place.
LEMMA TakerPlace ==
    ASSUME IInv, OInv, NEW r \in Requests, req[r].pc \in {"lookup", "count", "run"},
           NEW pc \in {"count", "select", "run", "wait"}, Move(r, pc),
           pc = "wait" <=> req[r].pc = "run",
           SingleTaker /\ exists /\ Taker(req[r]) =>
               IF pc = "count" THEN Guarded(req[r], grants) /\ req[r].pc = "lookup"
               ELSE OwnerBeside(req[r], grants),
           UNCHANGED <<exists, grants, contested>>
    PROVE  OInv'
<1>1. req[r] \in RequestRecords
  BY Typed
<1>2. PICK rec : rec = [req[r] EXCEPT !.pc = pc]
  OBVIOUS
<1>3. /\ rec \in RequestRecords /\ rec.pc = pc /\ rec.op = req[r].op /\ rec.level = req[r].level
      /\ rec.target = req[r].target /\ rec.caller = req[r].caller
      /\ rec.ins = req[r].ins /\ rec.del = req[r].del
  BY <1>1, <1>2 DEF RequestRecords
<1>4. req' = [req EXCEPT ![r] = rec]
  BY <1>2 DEF Move
<1>5. Taker(rec) <=> Taker(req[r])
  BY <1>3 DEF Taker
<1>6. SingleTaker => Clean(rec)
  BY <1>3, <1>5 DEF SingleTaker, Clean
<1>7. SingleTaker /\ exists /\ Taker(rec) => Guarded(rec, grants)
  BY <1>3, <1>5 DEF Guarded, OwnerBeside
<1> QED
  BY <1>3, <1>4, <1>5, <1>6, <1>7, TakerMove

\* What a taker sees while it asks: the roster.
LEMMA SeesAll ==
    ASSUME IInv, NEW r \in Requests, req[r].pc \in {"lookup", "count"},
           SingleTaker, exists, Taker(req[r])
    PROVE  Roster(r) = grants /\ <<req[r].caller, "owner">> \in grants
           /\ req[r].caller \in Users /\ req[r].target \in Users
<1>1. req[r].ins = {} /\ req[r].del = {} /\ <<req[r].caller, "owner">> \in grants
  BY DEF SingleTaker, Clean, Guarded
<1>2. Seen(r) = grants
  BY <1>1 DEF Seen
<1> QED
  BY <1>1, <1>2, Typed DEF Roster, IsOwner, RequestRecords

LEMMA LookUpGuards == ASSUME IInv, OInv, NEW r \in Requests, LookUp(r) PROVE OInv'
<1>1. /\ req[r].pc = "lookup"
      /\ UNCHANGED <<exists, grants, overlapped, contested, started, faults>>
  BY DEF LookUp
<1>2. CASE End(r)
  BY <1>1, <1>2, TakerEnds
<1>3. CASE TakesOwnership(r) /\ Move(r, "count")
  <2>1. SingleTaker /\ exists /\ Taker(req[r]) => Guarded(req[r], grants)
    BY <1>1 DEF SingleTaker
  <2> QED
    BY <1>1, <1>3, <2>1, TakerPlace
<1>4. CASE /\ ~TakesOwnership(r)
           /\ (LevelsOf(r, req[r].target) = {}) = (req[r].op = "add")
           /\ \E pc \in {"select", "run"} : Move(r, pc)
  <2>1. ASSUME SingleTaker, exists, Taker(req[r]) PROVE OwnerBeside(req[r], grants)
    <3>1. "owner" \notin LevelsOf(r, req[r].target)
      BY <1>4, <2>1 DEF TakesOwnership, Taker, MayTake
    <3>2. <<req[r].target, "owner">> \notin grants
      BY <1>1, <2>1, <3>1, SeesAll DEF LevelsOf, Actions
    <3> QED
      BY <1>1, <2>1, <3>2, SeesAll DEF OwnerBeside
  <2>2. PICK pc \in {"select", "run"} : Move(r, pc)
    BY <1>4
  <2> QED
    BY <1>1, <2>1, <2>2, TakerPlace
<1> QED
  BY <1>2, <1>3, <1>4 DEF LookUp

\* Who counts two owners has one besides the target.
LEMMA CountGuards == ASSUME IInv, OInv, NEW r \in Requests, Count(r) PROVE OInv'
<1>1. /\ req[r].pc = "count"
      /\ UNCHANGED <<exists, grants, overlapped, contested, started, faults>>
  BY DEF Count
<1>2. CASE End(r)
  BY <1>1, <1>2, TakerEnds
<1>3. CASE ~(CountOwners(r) <= 1) /\ \E pc \in {"select", "run"} : Move(r, pc)
  <2>1. ASSUME SingleTaker, exists, Taker(req[r]) PROVE OwnerBeside(req[r], grants)
    <3>1. PICK t : t = req[r].target
      OBVIOUS
    <3>2. PICK S : S = {u \in Users : "owner" \in LevelsOf(r, u)}
      OBVIOUS
    <3>3. ~(S \subseteq {t})
      <4>1. ASSUME S \subseteq {t} PROVE Cardinality(S) <= 1
        <5>1. IsFiniteSet({t}) /\ Cardinality({t}) = 1
          BY FS_Singleton
        <5> QED
          BY <4>1, <5>1, FS_Subset
      <4>2. ~(Cardinality(S) <= 1)
        BY <1>3, <3>2 DEF CountOwners
      <4> QED
        BY <4>1, <4>2
    <3>4. PICK u \in Users : "owner" \in LevelsOf(r, u) /\ u # t
      BY <3>2, <3>3
    <3>5. <<u, "owner">> \in grants
      BY <1>1, <2>1, <3>4, SeesAll DEF LevelsOf
    <3> QED
      BY <3>1, <3>4, <3>5 DEF OwnerBeside
  <2>2. PICK pc \in {"select", "run"} : Move(r, pc)
    BY <1>3
  <2> QED
    BY <1>1, <2>1, <2>2, TakerPlace
<1> QED
  BY <1>2, <1>3 DEF Count

LEMMA WaitGuards == ASSUME IInv, OInv, NEW r \in Requests, Wait(r) PROVE OInv'
<1>1. /\ req[r].pc = "run" /\ Move(r, "wait")
      /\ UNCHANGED <<exists, grants, overlapped, contested, started, faults>>
  BY DEF Wait
<1>2. SingleTaker /\ exists /\ Taker(req[r]) => OwnerBeside(req[r], grants)
  BY <1>1 DEF SingleTaker, Guarded
<1> QED
  BY <1>1, <1>2, TakerPlace

LEMMA SelectGuards == ASSUME IInv, OInv, NEW r \in Requests, Select(r) PROVE OInv'
<1>1. /\ req[r].pc = "select"
      /\ UNCHANGED <<exists, grants, overlapped, contested, started, faults>>
  BY DEF Select
<1>2. PICK rows : rows = {g \in Roster(r) : g[1] = req[r].target}
  OBVIOUS
<1>3. CASE End(r)
  BY <1>1, <1>3, TakerEnds
<1>4. CASE req' = [req EXCEPT ![r].pc = "run", ![r].picked = rows]
  <2>1. PICK rec : rec = [req[r] EXCEPT !.pc = "run", !.picked = rows]
    OBVIOUS
  <2>2. req' = [req EXCEPT ![r] = rec]
    BY <1>4, <2>1
  <2>3. rows \in SUBSET Rows
    BY <1>2, Typed DEF Roster, Seen, IInv, TypeOK, RequestRecords
  <2>4. rec \in RequestRecords /\ rec.pc = "run" /\ rec.op = req[r].op
        /\ rec.level = req[r].level /\ rec.target = req[r].target
        /\ rec.ins = req[r].ins /\ rec.del = req[r].del
    BY <2>1, <2>3, Typed DEF RequestRecords
  <2>5. Taker(rec) <=> Taker(req[r])
    BY <2>4 DEF Taker
  <2>6. ASSUME SingleTaker PROVE Clean(rec) /\ (exists /\ Taker(rec) => Guarded(rec, grants))
    BY <1>1, <2>4, <2>5, <2>6 DEF SingleTaker, Clean, Guarded, OwnerBeside
  <2> QED
    BY <1>1, <2>2, <2>4, <2>5, <2>6, TakerMove
<1> QED
  BY <1>2, <1>3, <1>4 DEF Select

\* A request that gives ownership deletes nothing.
LEMMA OnlyTakersDelete ==
    ASSUME NEW r \in Requests, req[r] \in RequestRecords, Row(r) \in Rows,
           req[r].pc \in {"run", "wait"}, Clean(req[r]), Deletes(r)
    PROVE  Taker(req[r])
<1> SUFFICES ASSUME ~Taker(req[r]) PROVE FALSE
  OBVIOUS
<1>1. req[r].op \in {"add", "update"} /\ req[r].level = "owner"
  BY DEF Clean, RequestRecords, Taker, MayTake
<1>2. Row(r)[2] \in Ceiling(req[r].level)
  BY <1>1, Ceilings DEF Rows
<1> QED
  BY <1>1, <1>2 DEF Deletes, Inserts

LEMMA StatementGuards == ASSUME IInv, OInv, NEW r \in Requests, Statement(r) PROVE OInv'
<1>1. /\ req[r].pc \in {"run", "wait"} /\ Apply(r)
      /\ UNCHANGED <<exists, grants, overlapped, contested, started, faults>>
  BY DEF Statement
<1>2. CASE Inserts(r) /\ ~(Allowed(r) /\ exists)
  BY <1>1, <1>2, TakerEnds DEF Apply
<1>3. CASE ~(Inserts(r) /\ ~(Allowed(r) /\ exists))
  <2>1. PICK rec : rec = [req[r] EXCEPT
             !.ins = IF Inserts(r) /\ Row(r) \notin Seen(r) THEN @ \cup {Row(r)} ELSE @,
             !.del = IF Deletes(r) THEN @ \cup {Row(r)} ELSE @,
             !.n = IF IsLast(r) THEN @ ELSE @ + 1,
             !.pc = IF IsLast(r) THEN "commit" ELSE "run"]
    OBVIOUS
  <2>2. req' = [req EXCEPT ![r] = rec]
    BY <1>1, <1>3, <2>1 DEF Apply
  <2>3. req[r] \in RequestRecords
    BY Typed
  <2>4. Row(r) \in Rows /\ Row(r)[1] = req[r].target
    <3>1. req[r].n \in 1..3 /\ req[r].target \in Users
      BY <2>3 DEF RequestRecords
    <3> QED
      BY <3>1 DEF Row, Rows, Actions
  <2>5. /\ rec.op = req[r].op /\ rec.level = req[r].level /\ rec.target = req[r].target
        /\ rec.del = IF Deletes(r) THEN req[r].del \cup {Row(r)} ELSE req[r].del
        /\ rec.pc \in {"run", "commit"}
    BY <2>1, <2>3 DEF RequestRecords
  <2>6. rec \in RequestRecords
    <3>1. IsLast(r) \/ req[r].n + 1 \in 1..3
      BY <2>3 DEF IsLast, RequestRecords
    <3> QED
      BY <2>1, <2>3, <2>4, <3>1 DEF RequestRecords, IsLast
  <2>7. Taker(rec) <=> Taker(req[r])
    BY <2>5 DEF Taker
  <2>8. ASSUME SingleTaker PROVE Clean(rec) /\ (exists /\ Taker(rec) => Guarded(rec, grants))
    <3>1. Clean(req[r]) /\ (exists /\ Taker(req[r]) => OwnerBeside(req[r], grants))
      BY <1>1, <2>8 DEF SingleTaker, Guarded
    <3>2. Deletes(r) => Taker(req[r])
      BY <1>1, <2>3, <2>4, <3>1, OnlyTakersDelete
    <3>3. Clean(rec)
      BY <1>1, <2>4, <2>5, <2>7, <3>1, <3>2 DEF Clean
    <3> QED
      BY <2>5, <2>7, <3>1, <3>3 DEF Guarded, OwnerBeside
  <2> QED
    BY <1>1, <2>2, <2>6, <2>7, <2>8, TakerMove
<1> QED
  BY <1>2, <1>3

\* A commit leaves an owner: the one besides a taker's target, or all there were.
LEMMA CommitGuards == ASSUME IInv, OInv, NEW r \in Requests, Commit(r) PROVE OInv'
<1>1. /\ req[r].pc = "commit" /\ grants' = (grants \cup req[r].ins) \ req[r].del /\ End(r)
      /\ UNCHANGED <<exists, overlapped, contested, started, faults>>
  BY DEF Commit, Seen
<1>2. req'[r] = Idle /\ \A q \in Requests \ {r} : req'[q] = req[q]
  BY <1>1 DEF End, IInv, TypeOK
<1>3. ASSUME SingleTaker PROVE SingleTaker'
  <2>1. Clean(req[r]) /\ (exists /\ Taker(req[r]) => OwnerBeside(req[r], grants))
    BY <1>1, <1>3 DEF SingleTaker, Guarded
  <2>2. \A q \in Requests : req'[q].pc # "idle" => q # r /\ req'[q] = req[q] /\ req[q].pc # "idle"
    BY <1>2, IdleRecord
  <2>3. ASSUME exists PROVE \E u \in Users : <<u, "owner">> \in grants'
    <3>1. CASE Taker(req[r])
      <4>1. PICK u \in Users \ {req[r].target} : <<u, "owner">> \in grants
        BY <2>1, <2>3, <3>1 DEF OwnerBeside
      <4>2. <<u, "owner">> \notin req[r].del
        BY <2>1, <4>1 DEF Clean
      <4> QED
        BY <1>1, <4>1, <4>2
    <3>2. CASE ~Taker(req[r])
      BY <1>1, <1>3, <2>1, <2>3, <3>2 DEF Clean, SingleTaker
    <3> QED
      BY <3>1, <3>2
  <2>4. ASSUME NEW q \in Requests, req'[q].pc # "idle", exists, Taker(req[q])
        PROVE  Guarded(req[q], grants')
    <3>1. req[r].del = {}
      BY <1>1, <1>3, <2>1, <2>2, <2>4 DEF SingleTaker, Clean
    <3>2. grants \subseteq grants'
      BY <1>1, <3>1
    <3>3. Guarded(req[q], grants)
      BY <1>3, <2>2, <2>4 DEF SingleTaker
    <3> QED
      BY <3>2, <3>3 DEF Guarded, OwnerBeside
  <2>5. (\A q \in Requests : req[q].pc # "idle" =>
            Clean(req[q]) /\ (exists /\ Taker(req[q]) => Guarded(req[q], grants)))'
    <3>1. \A q \in Requests : req'[q].pc # "idle" =>
            Clean(req'[q]) /\ (exists /\ Taker(req'[q]) => Guarded(req'[q], grants'))
      BY <1>3, <2>2, <2>4 DEF SingleTaker
    <3> QED
      BY <1>1, <3>1 DEF Clean, Taker, MayTake, Guarded, OwnerBeside
  <2>6. (\A q, s \in Requests :
            req[q].pc # "idle" /\ Taker(req[q]) /\ req[s].pc # "idle" /\ Taker(req[s]) => q = s)'
    BY <1>3, <2>2 DEF SingleTaker, Taker, MayTake
  <2> QED
    BY <1>1, <2>3, <2>5, <2>6 DEF SingleTaker
<1> QED
  BY <1>1, <1>3 DEF OInv

LEMMA StartDropGuards == ASSUME IInv, OInv, NEW r \in Requests, StartDrop(r) PROVE OInv'
<1>1. /\ req[r].pc = "drop" /\ (Move(r, "cascade") \/ End(r))
      /\ UNCHANGED <<exists, grants, overlapped, contested, started, faults>>
  BY DEF StartDrop
<1>2. CASE Move(r, "cascade")
  <2>1. PICK rec : rec = [req[r] EXCEPT !.pc = "cascade"]
    OBVIOUS
  <2>2. /\ rec \in RequestRecords /\ rec.pc = "cascade" /\ rec.op = req[r].op
        /\ rec.level = req[r].level /\ rec.target = req[r].target
        /\ rec.ins = req[r].ins /\ rec.del = req[r].del
    BY <2>1, Typed DEF RequestRecords
  <2>3. req' = [req EXCEPT ![r] = rec]
    BY <1>2, <2>1 DEF Move
  <2>4. Taker(rec) <=> Taker(req[r])
    BY <2>2 DEF Taker
  <2>5. SingleTaker => Clean(rec)
    BY <1>1, <2>2, <2>4 DEF SingleTaker, Clean
  <2>6. SingleTaker /\ exists /\ Taker(rec) => Guarded(rec, grants)
    <3>1. SingleTaker => req[r].op = "delete"
      BY <1>1 DEF SingleTaker, Clean
    <3>2. SingleTaker => ~Taker(rec)
      BY <2>2, <3>1 DEF Taker, MayTake
    <3> QED
      BY <3>2
  <2> QED
    BY <1>1, <2>2, <2>3, <2>4, <2>5, <2>6, TakerMove
<1>3. CASE End(r)
  BY <1>1, <1>3, TakerEnds
<1> QED
  BY <1>1, <1>2, <1>3

LEMMA DropGuards == ASSUME IInv, OInv, NEW r \in Requests, Drop(r) PROVE OInv'
<1>1. req[r].pc = "cascade" /\ End(r) /\ ~exists' /\ contested' = contested
  BY DEF Drop
<1>2. req'[r] = Idle /\ \A q \in Requests \ {r} : req'[q] = req[q]
  BY <1>1 DEF End, IInv, TypeOK
<1>3. \A q \in Requests : req'[q].pc # "idle" => req'[q] = req[q] /\ req[q].pc # "idle"
  BY <1>2, IdleRecord
<1>4. SingleTaker => SingleTaker'
  BY <1>1, <1>3 DEF SingleTaker, Clean, Taker, MayTake
<1> QED
  BY <1>1, <1>4 DEF OInv

LEMMA StopGuards ==
    ASSUME IInv, OInv, NEW r \in Requests, DeadlockVictim(r) \/ Abort(r)
    PROVE  OInv'
<1>1. req[r].pc # "idle" /\ End(r) /\ UNCHANGED <<exists, grants, contested>>
  BY DEF DeadlockVictim, Deadlocked, Abort
<1> QED
  BY <1>1, TakerEnds

LEMMA BeginGuards ==
    ASSUME IInv, OInv, NEW r \in Requests, NEW op \in {"add", "update", "remove", "delete"},
           NEW caller \in Users, NEW target \in Users, NEW level \in Actions,
           Begin(r, op, caller, target, level)
    PROVE  OInv'
<1>1. PICK rec : rec = [Idle EXCEPT !.pc = IF op = "delete" THEN "drop" ELSE "lookup",
                            !.op = op, !.caller = caller, !.target = target, !.level = level]
  OBVIOUS
<1>2. /\ rec.pc = (IF op = "delete" THEN "drop" ELSE "lookup") /\ rec.caller = caller
      /\ rec.op = op /\ rec.level = level /\ rec.ins = {} /\ rec.del = {}
  BY <1>1 DEF Idle
<1>3. req' = [req EXCEPT ![r] = rec] /\ <<caller, "owner">> \in grants
      /\ UNCHANGED <<exists, grants, faults>> /\ req[r].pc = "idle"
  BY <1>1 DEF Begin
<1>4. req'[r] = rec /\ \A q \in Requests \ {r} : req'[q] = req[q]
  BY <1>3 DEF IInv, TypeOK
<1>5. contested' = (contested \/ (MayTake(op, level) /\ \E s \in Requests :
                        req[s].pc # "idle" /\ MayTake(req[s].op, req[s].level)))
  BY DEF Begin
<1>6. Taker(rec) <=> MayTake(op, level)
  BY <1>2 DEF Taker
<1>7. ASSUME ~contested' PROVE SingleTaker'
  <2>1. /\ SingleTaker
        /\ Taker(rec) => \A s \in Requests : req[s].pc # "idle" => ~Taker(req[s])
    BY <1>5, <1>6, <1>7 DEF OInv, Taker
  <2>2. Clean(rec) /\ (Taker(rec) => Guarded(rec, grants))
    BY <1>2, <1>3, <1>6 DEF Clean, Guarded, MayTake
  <2>3. (\A q \in Requests : req[q].pc # "idle" =>
            Clean(req[q]) /\ (exists /\ Taker(req[q]) => Guarded(req[q], grants)))'
    <3>1. \A q \in Requests : req'[q].pc # "idle" =>
            Clean(req'[q]) /\ (exists /\ Taker(req'[q]) => Guarded(req'[q], grants))
      BY <1>4, <2>1, <2>2 DEF SingleTaker
    <3> QED
      BY <1>3, <3>1 DEF Clean, Taker, MayTake, Guarded, OwnerBeside
  <2>4. (\A q, s \in Requests :
            req[q].pc # "idle" /\ Taker(req[q]) /\ req[s].pc # "idle" /\ Taker(req[s]) => q = s)'
    <3>1. \A q \in Requests \ {r} : req'[q].pc # "idle" /\ Taker(req'[q]) =>
              req[q].pc # "idle" /\ Taker(req[q])
      BY <1>4
    <3>2. \A q, s \in Requests :
            req'[q].pc # "idle" /\ Taker(req'[q]) /\ req'[s].pc # "idle" /\ Taker(req'[s]) => q = s
      BY <1>4, <2>1, <3>1 DEF SingleTaker
    <3> QED
      BY <3>2 DEF Taker, MayTake
  <2>5. (exists => \E u \in Users : <<u, "owner">> \in grants)'
    BY <1>3, <2>1 DEF SingleTaker
  <2> QED
    BY <2>3, <2>4, <2>5 DEF SingleTaker
<1> QED
  BY <1>7 DEF OInv

LEMMA OwnerNext == IInv /\ OInv /\ [Next]_vars => OInv'
<1> SUFFICES ASSUME IInv, OInv, [Next]_vars PROVE OInv'
  OBVIOUS
<1>1. ASSUME NEW r \in Requests, Step(r) PROVE OInv'
  BY <1>1, LookUpGuards, CountGuards, SelectGuards, StatementGuards, WaitGuards, StopGuards,
     CommitGuards, StartDropGuards, DropGuards DEF Step
<1>2. ASSUME NEW r \in Requests, Abort(r) PROVE OInv'
  BY <1>2, StopGuards
<1>3. ASSUME NEW r \in Requests,
             \/ \E caller, target \in Users, level \in Actions, op \in {"add", "update"} :
                    Begin(r, op, caller, target, level)
             \/ \E caller, target \in Users : Begin(r, "remove", caller, target, "read")
             \/ \E caller \in Users : Begin(r, "delete", caller, caller, "read")
      PROVE  OInv'
  <2>1. PICK op \in {"add", "update", "remove", "delete"}, caller \in Users,
             target \in Users, level \in Actions : Begin(r, op, caller, target, level)
    BY <1>3 DEF Actions
  <2> QED
    BY <2>1, BeginGuards
<1>4. ASSUME UNCHANGED vars PROVE OInv'
  BY <1>4 DEF vars, OInv, SingleTaker, Clean, Taker, MayTake, Guarded, OwnerBeside
<1> QED
  BY <1>1, <1>2, <1>3, <1>4 DEF Next

LEMMA OwnerInit == Init => OInv
<1> SUFFICES ASSUME Init PROVE OInv
  OBVIOUS
<1>1. \A r \in Requests : req[r].pc = "idle"
  BY IdleRecord DEF Init
<1>2. <<Founder, "owner">> \in grants /\ Founder \in Users
  BY MembersAssumption DEF Init, Actions
<1> QED
  BY <1>1, <1>2 DEF OInv, SingleTaker

\* The last owner remains while no two requests that may take ownership away
\* overlap, whatever else goes on.
THEOREM LastOwnerRemains == Spec => []OwnerRemainsUncontested
<1>1. OInv => OwnerRemainsUncontested
  BY DEF OInv, SingleTaker, OwnerRemainsUncontested, OwnerRemains, Held, Actions
<1> QED
  BY <1>1, OwnerInit, OwnerNext, Invariant, PTL DEF Spec
=============================================================================
