-------------------------- MODULE TableColumnsProofs --------------------------
(***************************************************************************)
(* Proofs about TableColumns: its columns keep distinct names and distinct *)
(* ids for any number of editors, columns and requests.  And about         *)
(* TableViews: pages that take turns keep the views of a table, their      *)
(* order and the default in agreement, and no write touches a key of a     *)
(* config that it was not sent for.                                        *)
(***************************************************************************)
EXTENDS TableColumns, TableViews, TLAPS, NaturalsInduction, WellFoundedInduction

-----------------------------------------------------------------------------
(* The columns of a table (TableColumns). *)

\* The array a caller computes by patching one column keeps the ids.
LEMMA PatchedKeepsIds ==
    ASSUME columns \in SUBSET Columns, IdsAreUnique(columns),
           NEW id \in ColumnIds, NEW name \in Names
    PROVE  /\ Patched(id, name) \in SUBSET Columns
           /\ IdsAreUnique(Patched(id, name))
           /\ IdsOf(Patched(id, name)) = IdsOf(columns)
<1> DEFINE P(c) == IF c.id = id THEN [c EXCEPT !.name = name] ELSE c
<1>1. \A c \in columns : P(c) \in Columns /\ P(c).id = c.id
  BY DEF Columns
<1>2. Patched(id, name) = {P(c) : c \in columns}
  BY DEF Patched
<1>3. \A c, d \in columns : P(c).id = P(d).id => P(c) = P(d)
  BY <1>1 DEF IdsAreUnique
<1> HIDE DEF P
<1> QED
  BY <1>1, <1>2, <1>3 DEF IdsAreUnique, IdsOf

\* A subset of an array with distinct ids has distinct ids.
LEMMA SubsetKeepsIds ==
    ASSUME NEW S, NEW T \in SUBSET S, IdsAreUnique(S)
    PROVE  IdsAreUnique(T) /\ IdsOf(T) \subseteq IdsOf(S)
BY DEF IdsAreUnique, IdsOf

LEMMA IdsInType ==
    ASSUME NEW S \in SUBSET Columns
    PROVE  IdsOf(S) \in SUBSET ColumnIds
BY DEF IdsOf, Columns

LEMMA InitInvariant == Init => IInv
<1> SUFFICES ASSUME Init PROVE IInv
  OBVIOUS
<1> USE ColumnsAssumption DEF Init
<1>1. TypeOK
  BY DEF TypeOK, Idle, RequestRecords, IdsOf, Columns
<1>2. \A e \in Editors : req[e] = Idle
  OBVIOUS
<1>3. \A e \in Editors : IdsAreUnique(req[e].new) /\ IdsOf(req[e].new) \subseteq drawn /\ ~Owed(e)
  BY <1>2 DEF Idle, IdsAreUnique, IdsOf, Owed
<1> QED
  BY <1>1, <1>3 DEF IInv, NamesDistinct, IdsDistinct

\* A request that starts by reading the array keeps the invariant: what it
\* computed has ids of the array, once each.
LEMMA StartReplace ==
    ASSUME IInv, NEW e \in Editors, CanStart(e),
           NEW op \in {"update", "delete", "order"}, NEW ids \in SUBSET ColumnIds,
           NEW new \in SUBSET Columns, IdsAreUnique(new), IdsOf(new) \subseteq IdsOf(columns),
           Starts(e, "replace", op, ids, new), UNCHANGED drawn
    PROVE  IInv'
<1> DEFINE rec == [pc |-> "replace", op |-> op, ids |-> ids, new |-> new, read |-> IdsOf(columns)]
<1>1. rec \in RequestRecords /\ req' = [req EXCEPT ![e] = rec]
  BY IdsInType DEF IInv, TypeOK, Starts, RequestRecords
<1>2. started' \in 0 .. MaxRequests
  BY ColumnsAssumption DEF Starts, CanStart, IInv, TypeOK
<1>3. TypeOK'
  BY <1>1, <1>2 DEF Starts, IInv, TypeOK
<1>4. req'[e] = rec /\ \A f \in Editors \ {e} : req'[f] = req[f]
  BY <1>1 DEF IInv, TypeOK
<1>5. \A f \in Editors : IdsAreUnique(req'[f].new) /\ IdsOf(req'[f].new) \subseteq drawn'
  BY <1>4 DEF IInv
<1>6. ASSUME NEW f \in Editors, Owed(f)'
      PROVE  /\ f # e /\ Owed(f)
  BY <1>4, <1>6 DEF Owed
<1>7. ASSUME NEW f \in Editors, Owed(f)'
      PROVE  /\ \E c \in Columns : req'[f].new = {c}
             /\ IdsOf(req'[f].new) \cap IdsOf(columns') = {}
             /\ \A g \in Editors \ {f} : IdsOf(req'[f].new) \cap IdsOf(req'[g].new) = {}
  <2>1. f # e /\ Owed(f) /\ req'[f] = req[f] /\ columns' = columns
    BY <1>4, <1>6, <1>7 DEF Starts
  <2>2. IdsOf(req[f].new) \cap IdsOf(rec.new) = {}
    BY <2>1 DEF IInv
  <2> QED
    BY <1>4, <2>1, <2>2 DEF IInv
<1>8. columns' = columns /\ drawn' = drawn
  BY DEF Starts
<1>9. NamesDistinct' /\ IdsDistinct' /\ (IdsOf(columns) \subseteq drawn)'
  BY <1>8 DEF IInv, NamesDistinct, IdsDistinct, NamesAreUnique, IdsAreUnique, IdsOf
<1> QED
  BY <1>3, <1>5, <1>7, <1>9 DEF IInv, IdsAreUnique, IdsOf

\* add_column generates an id that is in no array yet.
LEMMA StartAdd ==
    ASSUME IInv, NEW e \in Editors, NEW id \in ColumnIds, NEW name \in Names,
           ReadForAdd(e, id, name)
    PROVE  IInv'
<1> DEFINE c == [id |-> id, name |-> name]
           rec == [pc |-> "append", op |-> "add", ids |-> {id}, new |-> {c},
                   read |-> IdsOf(columns)]
<1>1. c \in Columns /\ rec \in RequestRecords /\ IdsOf({c}) = {id} /\ IdsAreUnique({c})
  <2>1. c \in Columns /\ IdsOf(columns) \in SUBSET ColumnIds
    BY IdsInType DEF IInv, TypeOK, Columns
  <2> QED
    BY <2>1 DEF RequestRecords, IdsOf, IdsAreUnique
<1>2. /\ req' = [req EXCEPT ![e] = rec] /\ drawn' = drawn \cup {id} /\ id \notin drawn
      /\ columns' = columns /\ shown' = shown /\ faults' = faults
  BY DEF ReadForAdd, Starts
<1>3. started' \in 0 .. MaxRequests
  BY ColumnsAssumption DEF ReadForAdd, Starts, CanStart, IInv, TypeOK
<1> HIDE DEF c
<1>4. TypeOK'
  BY <1>1, <1>2, <1>3 DEF IInv, TypeOK
<1>5. req'[e] = rec /\ \A f \in Editors \ {e} : req'[f] = req[f]
  BY <1>2 DEF IInv, TypeOK
<1>6. \A f \in Editors : IdsAreUnique(req'[f].new) /\ IdsOf(req'[f].new) \subseteq drawn'
  <2>1. IdsAreUnique(req'[e].new) /\ IdsOf(req'[e].new) \subseteq drawn'
    <3>1. req'[e].new = {c}
      BY <1>5
    <3> QED
      BY <1>1, <1>2, <3>1
  <2>2. \A f \in Editors \ {e} : IdsAreUnique(req[f].new) /\ IdsOf(req[f].new) \subseteq drawn
    BY DEF IInv
  <2> QED
    BY <1>2, <1>5, <2>1, <2>2
<1>7. \A f \in Editors \ {e} : IdsOf(req[f].new) \subseteq drawn
  BY DEF IInv
<1>8. ASSUME NEW f \in Editors, Owed(f)'
      PROVE  /\ \E d \in Columns : req'[f].new = {d}
             /\ IdsOf(req'[f].new) \cap IdsOf(columns') = {}
             /\ \A g \in Editors \ {f} : IdsOf(req'[f].new) \cap IdsOf(req'[g].new) = {}
  <2>1. CASE f = e
    <3>1. req'[f].new = {c} /\ IdsOf(req'[f].new) = {id}
      BY <1>1, <1>5, <2>1
    <3>2. id \notin IdsOf(columns) /\ \A g \in Editors \ {e} : id \notin IdsOf(req'[g].new)
      BY <1>2, <1>5, <1>7 DEF IInv
    <3> QED
      BY <1>1, <1>2, <3>1, <3>2, <2>1
  <2>2. CASE f # e
    <3>1. Owed(f) /\ req'[f] = req[f]
      BY <1>5, <1>8, <2>2 DEF Owed
    <3>2. IdsOf(req'[f].new) \cap IdsOf(req'[e].new) = {}
      <4>1. IdsOf(req'[e].new) = {id}
        BY <1>1, <1>5
      <4> QED
        BY <1>2, <1>7, <2>2, <3>1, <4>1
    <3>3. \A g \in Editors \ {f, e} : IdsOf(req'[f].new) \cap IdsOf(req'[g].new) = {}
      BY <1>5, <3>1 DEF IInv
    <3> QED
      BY <1>2, <3>1, <3>2, <3>3 DEF IInv
  <2> QED
    BY <2>1, <2>2
<1>9. NamesDistinct' /\ IdsDistinct' /\ (IdsOf(columns) \subseteq drawn)'
  BY <1>2 DEF IInv, NamesDistinct, IdsDistinct, NamesAreUnique, IdsAreUnique, IdsOf
<1> QED
  BY <1>4, <1>6, <1>8, <1>9 DEF IInv, IdsAreUnique, IdsOf

\* A write that the trigger accepts; a refused one changes only the request.
LEMMA WriteStep ==
    ASSUME IInv, NEW e \in Editors, NEW S \in SUBSET Columns, IdsAreUnique(S),
           IdsOf(S) \subseteq drawn, req[e].pc \in {"append", "replace"},
           \A f \in Editors \ {e} : Owed(f) => IdsOf(req[f].new) \cap IdsOf(S) = {},
           Writes(e, S)
    PROVE  IInv'
<1>1. /\ columns' = IF TriggerAccepts(S) THEN S ELSE columns
      /\ UNCHANGED <<drawn, shown, started, faults>>
  BY DEF Writes
<1>2. /\ req'[e].pc \in {"reply", "idle"} /\ req'[e].new = req[e].new
      /\ \A f \in Editors \ {e} : req'[f] = req[f]
      /\ req' \in [Editors -> RequestRecords]
  BY DEF Writes, IInv, TypeOK, RequestRecords
<1>3. TypeOK'
  BY <1>1, <1>2 DEF IInv, TypeOK
<1>4. /\ NamesDistinct' /\ IdsDistinct' /\ IdsOf(columns') \subseteq drawn
      /\ \A f \in Editors \ {e} : Owed(f) => IdsOf(req[f].new) \cap IdsOf(columns') = {}
  <2>1. CASE TriggerAccepts(S)
    BY <1>1, <2>1 DEF TriggerAccepts, NamesDistinct, IdsDistinct, NamesAreUnique, IdsAreUnique
  <2>2. CASE ~TriggerAccepts(S)
    BY <1>1, <2>2 DEF IInv, NamesDistinct, IdsDistinct, NamesAreUnique, IdsAreUnique
  <2> QED
    BY <2>1, <2>2
<1>5. \A f \in Editors : req'[f].new = req[f].new
  BY <1>2
<1>6. \A f \in Editors : Owed(f)' => f # e /\ Owed(f)
  BY <1>2 DEF Owed
<1>7. (IdsOf(columns) \subseteq drawn)'
  BY <1>1, <1>4 DEF IdsOf
<1>8. \A f \in Editors : IdsAreUnique(req'[f].new) /\ IdsOf(req'[f].new) \subseteq drawn'
  BY <1>1, <1>5 DEF IInv
<1>9. \A f \in Editors : Owed(f)' =>
          /\ \E c \in Columns : req'[f].new = {c}
          /\ IdsOf(req'[f].new) \cap IdsOf(columns') = {}
          /\ \A g \in Editors \ {f} : IdsOf(req'[f].new) \cap IdsOf(req'[g].new) = {}
  BY <1>4, <1>5, <1>6 DEF IInv
<1> QED
  BY <1>3, <1>4, <1>7, <1>8, <1>9 DEF IInv, IdsAreUnique, IdsOf

LEMMA AppendStep ==
    ASSUME IInv, NEW e \in Editors, AppendColumn(e)
    PROVE  IInv'
<1>1. PICK c \in Columns : req[e].new = {c}
  BY DEF AppendColumn, IInv, Owed
<1>2. Owed(e) /\ Writes(e, columns \cup {c})
  BY <1>1 DEF AppendColumn, Owed
<1>3. /\ IdsOf({c}) = {c.id}
      /\ IdsOf(columns \cup {c}) = IdsOf(columns) \cup {c.id}
  BY DEF IdsOf
<1>4. c.id \in drawn /\ c.id \notin IdsOf(columns)
  BY <1>1, <1>2, <1>3 DEF IInv
<1>5. IdsAreUnique(columns \cup {c})
  BY <1>4 DEF IInv, IdsDistinct, IdsAreUnique, IdsOf
<1>6. \A f \in Editors \ {e} : Owed(f) => IdsOf(req[f].new) \cap IdsOf(columns \cup {c}) = {}
  BY <1>1, <1>3 DEF IInv
<1>7. columns \cup {c} \in SUBSET Columns /\ IdsOf(columns \cup {c}) \subseteq drawn
  BY <1>3, <1>4 DEF IInv, TypeOK
<1> QED
  BY <1>2, <1>5, <1>6, <1>7, WriteStep DEF Owed

LEMMA ReplaceStep ==
    ASSUME IInv, NEW e \in Editors, ReplaceColumns(e)
    PROVE  IInv'
<1>1. req[e].new \in SUBSET Columns
  BY DEF IInv, TypeOK, RequestRecords
<1>2. /\ IdsAreUnique(req[e].new) /\ IdsOf(req[e].new) \subseteq drawn
      /\ \A f \in Editors \ {e} : Owed(f) => IdsOf(req[f].new) \cap IdsOf(req[e].new) = {}
  BY DEF IInv
<1> QED
  BY <1>1, <1>2, WriteStep DEF ReplaceColumns

\* Ending a request, with or without its reply.
LEMMA EndStep ==
    ASSUME IInv, NEW e \in Editors, Reply(e) \/ Fault(e)
    PROVE  IInv'
<1>1. columns' = columns /\ drawn' = drawn /\ req' = [req EXCEPT ![e] = Idle]
  BY DEF Reply, Fault
<1>2. Idle \in RequestRecords /\ Idle.pc = "idle" /\ Idle.new = {}
  BY DEF Idle, RequestRecords
<1>3. /\ req'[e] = Idle /\ \A f \in Editors \ {e} : req'[f] = req[f]
      /\ req' \in [Editors -> RequestRecords]
  BY <1>1, <1>2 DEF IInv, TypeOK
<1>4. TypeOK'
  BY <1>1, <1>3, ColumnsAssumption DEF Reply, Fault, IInv, TypeOK
<1>5. IdsAreUnique({}) /\ IdsOf({}) = {}
  BY DEF IdsAreUnique, IdsOf
<1>6. \A f \in Editors : IdsAreUnique(req'[f].new) /\ IdsOf(req'[f].new) \subseteq drawn
  BY <1>2, <1>3, <1>5 DEF IInv
<1>7. \A f \in Editors : Owed(f)' => f # e /\ Owed(f) /\ req'[f] = req[f]
  BY <1>2, <1>3 DEF Owed
<1>8. \A f \in Editors : Owed(f)' =>
          /\ \E c \in Columns : req'[f].new = {c}
          /\ IdsOf(req'[f].new) \cap IdsOf(columns') = {}
          /\ \A g \in Editors \ {f} : IdsOf(req'[f].new) \cap IdsOf(req'[g].new) = {}
  BY <1>1, <1>2, <1>3, <1>5, <1>7 DEF IInv
<1>9. NamesDistinct' /\ IdsDistinct' /\ (IdsOf(columns) \subseteq drawn)'
  BY <1>1 DEF IInv, NamesDistinct, IdsDistinct, NamesAreUnique, IdsAreUnique, IdsOf
<1> QED
  BY <1>1, <1>4, <1>6, <1>8, <1>9 DEF IInv, IdsAreUnique, IdsOf

LEMMA StepInvariant == IInv /\ [Next]_vars => IInv'
<1> SUFFICES ASSUME IInv, [Next]_vars PROVE IInv'
  OBVIOUS
<1>1. columns \in SUBSET Columns /\ IdsAreUnique(columns)
  BY DEF IInv, TypeOK, IdsDistinct
<1>2. ASSUME NEW e \in Editors, NEW id \in ColumnIds, NEW name \in Names,
             ReadForUpdate(e, id, name)
      PROVE  IInv'
  BY <1>1, <1>2, PatchedKeepsIds, StartReplace DEF ReadForUpdate
<1>3. ASSUME NEW e \in Editors, NEW id \in ColumnIds, ReadForDelete(e, id)
      PROVE  IInv'
  <2> DEFINE S == {c \in columns : c.id # id}
  <2>1. S \in SUBSET Columns /\ IdsAreUnique(S) /\ IdsOf(S) \subseteq IdsOf(columns)
    BY <1>1, SubsetKeepsIds
  <2>2. CanStart(e) /\ Starts(e, "replace", "delete", {id}, S) /\ UNCHANGED drawn
    BY <1>3 DEF ReadForDelete
  <2> HIDE DEF S
  <2> QED
    BY <2>1, <2>2, StartReplace
<1>4. ASSUME NEW e \in Editors, ReadForOrder(e)
      PROVE  IInv'
  <2> DEFINE S == {c \in columns : c.id \in IdsOf(shown[e])}
  <2>1. S \in SUBSET Columns /\ IdsAreUnique(S) /\ IdsOf(S) \subseteq IdsOf(columns)
    BY <1>1, SubsetKeepsIds
  <2>2. CanStart(e) /\ Starts(e, "replace", "order", IdsOf(shown[e]), S) /\ UNCHANGED drawn
    BY <1>4 DEF ReadForOrder
  <2>3. shown[e] \in SUBSET Columns
    BY DEF IInv, TypeOK
  <2>4. IdsOf(shown[e]) \in SUBSET ColumnIds
    BY <2>3 DEF IdsOf, Columns
  <2> HIDE DEF S
  <2> QED
    BY <2>1, <2>2, <2>4, StartReplace
<1>5. CASE UNCHANGED vars
  BY <1>5 DEF vars, IInv, TypeOK, NamesDistinct, IdsDistinct, NamesAreUnique, IdsAreUnique,
              IdsOf, Owed
<1>6. CASE Next
  BY <1>2, <1>3, <1>4, <1>6, StartAdd, AppendStep, ReplaceStep, EndStep DEF Next
<1> QED
  BY <1>5, <1>6

\* The invariant of the column functions holds in every reachable state.
THEOREM Invariant == Spec => []IInv
BY InitInvariant, StepInvariant, PTL DEF Spec

\* Type correctness.
THEOREM TypeCorrect == Spec => []TypeOK
<1>1. IInv => TypeOK
  BY DEF IInv
<1> QED
  BY <1>1, Invariant, PTL

\* Whatever add_column, update_column, delete_column and update_col_order read
\* before either wrote, a table's column names stay distinct.
THEOREM NamesStayDistinct == Spec => []NamesDistinct
<1>1. IInv => NamesDistinct
  BY DEF IInv
<1> QED
  BY <1>1, Invariant, PTL

\* Late overwrites included, no column id ever names two columns of a table.
THEOREM IdsStayDistinct == Spec => []IdsDistinct
<1>1. IInv => IdsDistinct
  BY DEF IInv
<1> QED
  BY <1>1, Invariant, PTL

\* What a request that starts computes, it computes from the array it reads.
LEMMA StartKeeps ==
    ASSUME IInv, KeepsWhatItRead, NEW e \in Editors, NEW pc, NEW op, NEW ids, NEW new,
           Starts(e, pc, op, ids, new),
           pc = "replace" => \A id \in IdsOf(columns) \ IdsOf(new) :
                                 \/ op = "delete" /\ ids = {id}
                                 \/ op = "order" /\ id \notin ids
    PROVE  KeepsWhatItRead'
<1>1. \A f \in Editors : req'[f] = IF f = e THEN [pc |-> pc, op |-> op, ids |-> ids, new |-> new,
                                                  read |-> IdsOf(columns)]
                                   ELSE req[f]
  BY DEF Starts, IInv, TypeOK
<1>2. \A f \in Editors : IdsOf(req[f].new)' = IdsOf(req'[f].new)
  BY DEF IdsOf
<1> SUFFICES ASSUME NEW f \in Editors, req'[f].pc = "replace",
                    NEW id \in req'[f].read \ IdsOf(req'[f].new)
             PROVE  \/ req'[f].op = "delete" /\ req'[f].ids = {id}
                    \/ req'[f].op = "order" /\ id \notin req'[f].ids
  BY <1>2 DEF KeepsWhatItRead, TakesOut
<1>3. CASE f = e
  BY <1>1, <1>3
<1>4. CASE f # e
  BY <1>1, <1>4 DEF KeepsWhatItRead, TakesOut
<1> QED
  BY <1>3, <1>4

\* A write and the end of a request leave the others' arrays as they are.
LEMMA GoesOnKeeps ==
    ASSUME IInv, KeepsWhatItRead, NEW e \in Editors, NEW r,
           req' = [req EXCEPT ![e] = r], r.pc # "replace"
    PROVE  KeepsWhatItRead'
<1>1. \A f \in Editors : req'[f] = IF f = e THEN r ELSE req[f]
  BY DEF IInv, TypeOK
<1>2. \A f \in Editors : IdsOf(req[f].new)' = IdsOf(req'[f].new)
  BY DEF IdsOf
<1> QED
  BY <1>1, <1>2 DEF KeepsWhatItRead, TakesOut

LEMMA KeepsNext == IInv /\ KeepsWhatItRead /\ [Next]_vars => KeepsWhatItRead'
<1> SUFFICES ASSUME IInv, KeepsWhatItRead, [Next]_vars PROVE KeepsWhatItRead'
  OBVIOUS
<1>1. columns \in SUBSET Columns /\ IdsAreUnique(columns) /\ req \in [Editors -> RequestRecords]
  BY DEF IInv, TypeOK, IdsDistinct
<1>2. ASSUME NEW e \in Editors, NEW id \in ColumnIds, NEW name \in Names,
             ReadForAdd(e, id, name) \/ ReadForUpdate(e, id, name)
      PROVE  KeepsWhatItRead'
  BY <1>1, <1>2, PatchedKeepsIds, StartKeeps DEF ReadForAdd, ReadForUpdate
<1>3. ASSUME NEW e \in Editors, NEW id \in ColumnIds, ReadForDelete(e, id)
      PROVE  KeepsWhatItRead'
  <2>1. \A j \in IdsOf(columns) \ IdsOf({c \in columns : c.id # id}) : {id} = {j}
    BY DEF IdsOf
  <2> QED
    BY <1>3, <2>1, StartKeeps DEF ReadForDelete
<1>4. ASSUME NEW e \in Editors, ReadForOrder(e)
      PROVE  KeepsWhatItRead'
  <2>1. \A j \in IdsOf(columns) \ IdsOf({c \in columns : c.id \in IdsOf(shown[e])}) : j \notin IdsOf(shown[e])
    BY DEF IdsOf
  <2> QED
    BY <1>4, <2>1, StartKeeps DEF ReadForOrder
<1>5. ASSUME NEW e \in Editors, AppendColumn(e) \/ ReplaceColumns(e)
      PROVE  KeepsWhatItRead'
  <2>1. PICK pc \in {"reply", "idle"} : req' = [req EXCEPT ![e].pc = pc]
    BY <1>5 DEF AppendColumn, ReplaceColumns, Writes
  <2> DEFINE r == [req[e] EXCEPT !.pc = pc]
  <2>2. req' = [req EXCEPT ![e] = r] /\ r.pc = pc
    BY <1>1, <2>1 DEF RequestRecords
  <2> HIDE DEF r
  <2> QED
    BY <2>1, <2>2, GoesOnKeeps
<1>6. ASSUME NEW e \in Editors, Reply(e) \/ Fault(e)
      PROVE  KeepsWhatItRead'
  <2>1. req' = [req EXCEPT ![e] = Idle] /\ Idle.pc = "idle"
    BY <1>6 DEF Reply, Fault, Idle
  <2> QED
    BY <2>1, GoesOnKeeps
<1>7. CASE UNCHANGED vars
  BY <1>7 DEF vars, KeepsWhatItRead, TakesOut, IdsOf
<1> QED
  BY <1>2, <1>3, <1>4, <1>5, <1>6, <1>7 DEF Next

\* update_column, delete_column and update_col_order overwrite the array: what that
\* costs is what the writer has not seen, and nothing else but what it takes out.
THEOREM LosesOnlyUnseen == Spec => OnlyUnseenColumnsLost
<1>1. Init => KeepsWhatItRead
  BY DEF Init, KeepsWhatItRead, Idle
<1>2. ASSUME IInv, KeepsWhatItRead, [Next]_vars, NEW id \in IdsOf(columns) \ IdsOf(columns')
      PROVE  \E e \in Editors : /\ req[e].pc = "replace" /\ req'[e].pc = "reply"
                                /\ TakesOut(e, id) \/ id \notin req[e].read
  <2>1. columns' # columns
    BY <1>2 DEF IdsOf
  <2>2. PICK e \in Editors : AppendColumn(e) \/ ReplaceColumns(e)
    BY <1>2, <2>1 DEF Next, vars, ReadForAdd, ReadForUpdate, ReadForDelete, ReadForOrder, Starts, Reply, Fault
  <2>3. ~AppendColumn(e)
    <3>1. ASSUME AppendColumn(e) PROVE columns \subseteq columns'
      BY <3>1 DEF AppendColumn, Writes
    <3> QED
      BY <1>2, <3>1 DEF IdsOf
  <2>4. ReplaceColumns(e) /\ TriggerAccepts(req[e].new)
    BY <2>1, <2>2, <2>3 DEF ReplaceColumns, Writes
  <2>5. columns' = req[e].new /\ req[e].pc = "replace" /\ req'[e].pc = "reply"
    BY <1>2, <2>4 DEF ReplaceColumns, Writes, IInv, TypeOK, RequestRecords
  <2>6. id \notin IdsOf(req[e].new)
    BY <1>2, <2>5
  <2> QED
    BY <1>2, <2>5, <2>6 DEF KeepsWhatItRead
<1>3. (IInv /\ KeepsWhatItRead) /\ [Next]_vars =>
          [\A id \in IdsOf(columns) \ IdsOf(columns') :
              \E e \in Editors : /\ req[e].pc = "replace" /\ req'[e].pc = "reply"
                                 /\ TakesOut(e, id) \/ id \notin req[e].read]_vars
  BY <1>2
<1> QED
  BY Invariant, <1>1, KeepsNext, <1>3, PTL DEF Spec, OnlyUnseenColumnsLost

-----------------------------------------------------------------------------
(* The views of a table (TableViews).  First, lists. *)

\* A nonempty set of natural numbers has a least element.
LEMMA Least == ASSUME NEW T \in SUBSET Nat, T # {} PROVE \E x \in T : \A y \in T : x <= y
<1>1. IsWellFoundedOn(OpToRel(<, Nat), Nat)
  BY NatLessThanWellFounded
<1>2. PICK x \in T : \A y \in T : ~(<<y, x>> \in OpToRel(<, Nat))
  BY <1>1, WFMin
<1>3. \A y \in T : ~(y < x)
  BY <1>2 DEF OpToRel
<1>. QED
  BY <1>3

\* What Kept computes after n elements of a list.
KeptAfter(k, list, S, n) ==
    IF n = 0 THEN <<>>
    ELSE IF list[n] \in S THEN Append(k[n - 1], list[n]) ELSE k[n - 1]

\* The recursion of Kept has a solution.
LEMMA KeptExists ==
    ASSUME NEW D, NEW list \in Seq(D), NEW S
    PROVE  \E k : k = [n \in 0 .. Len(list) |-> KeptAfter(k, list, S, n)]
<1> DEFINE Up(k, m) == \A n \in 0 .. m : k[n] = KeptAfter(k, list, S, n)
           Good(k, m) == DOMAIN k = 0 .. Len(list) /\ k = [n \in DOMAIN k |-> k[n]] /\ Up(k, m)
           T == {m \in 0 .. Len(list) : ~ \E k : Good(k, m)}
<1>1. T = {}
  <2> SUFFICES ASSUME T # {} PROVE FALSE
    OBVIOUS
  <2>1. PICK m \in T : \A y \in T : m <= y
    <3>1. T \in SUBSET Nat
      OBVIOUS
    <3> HIDE DEF T
    <3> QED
      BY <3>1, Least
  <2>2. CASE m = 0
    <3>1. Good([n \in 0 .. Len(list) |-> <<>>], 0)
      BY DEF KeptAfter
    <3> QED
      BY <2>1, <2>2, <3>1
  <2>3. CASE m # 0
    <3>1. m - 1 \in 0 .. Len(list) /\ m \in 0 .. Len(list) /\ m - 1 \notin T /\ m - 1 >= 0
      BY <2>1, <2>3
    <3>2. PICK k : Good(k, m - 1)
      BY <3>1
    <3> DEFINE l == [n \in 0 .. Len(list) |-> IF n = m THEN KeptAfter(k, list, S, m) ELSE k[n]]
    <3>3. \A n \in 0 .. m : l[n] = KeptAfter(l, list, S, n)
      <4> TAKE n \in 0 .. m
      <4>1. CASE n = m
        BY <3>1, <4>1, <2>3 DEF KeptAfter
      <4>2. CASE n # m
        <5>1. n \in 0 .. m - 1 /\ n \in 0 .. Len(list)
          BY <3>1, <4>2
        <5>2. k[n] = KeptAfter(k, list, S, n)
          BY <3>2, <5>1
        <5>3. l[n] = k[n] /\ (n # 0 => l[n - 1] = k[n - 1])
          BY <3>1, <4>2, <5>1
        <5> HIDE DEF l
        <5> QED
          BY <5>2, <5>3 DEF KeptAfter
      <4> QED
        BY <4>1, <4>2
    <3>4. Good(l, m)
      BY <3>3
    <3> QED
      BY <3>4, <2>1
  <2> QED
    BY <2>2, <2>3
<1>2. Len(list) \in 0 .. Len(list)
  OBVIOUS
<1>3. PICK k : Good(k, Len(list))
  BY <1>1, <1>2
<1> QED
  BY <1>3

\* Kept is the last value of that recursion.
LEMMA KeptIs ==
    ASSUME NEW D, NEW list \in Seq(D), NEW S
    PROVE  \E k : /\ Kept(list, S) = k[Len(list)]
                  /\ \A n \in 0 .. Len(list) : k[n] = KeptAfter(k, list, S, n)
<1> DEFINE P(k) == k = [n \in 0 .. Len(list) |-> KeptAfter(k, list, S, n)]
           K == CHOOSE k : P(k)
<1>1. \E k : P(k)
  BY KeptExists
<1> HIDE DEF P
<1>2. P(K)
  BY <1>1
<1>3. Kept(list, S) = K[Len(list)]
  BY DEF Kept, P, KeptAfter
<1>4. \A n \in 0 .. Len(list) : K[n] = KeptAfter(K, list, S, n)
  BY <1>2 DEF P
<1> HIDE DEF K
<1> QED
  BY <1>3, <1>4

LEMMA AppendFacts ==
    ASSUME NEW D, NEW s \in Seq(D), NEW x \in D
    PROVE  /\ Append(s, x) \in Seq(D)
           /\ Range(Append(s, x)) = Range(s) \cup {x}
           /\ IsInjective(s) /\ x \notin Range(s) => IsInjective(Append(s, x))
<1> DEFINE t == Append(s, x)
<1>1. t \in Seq(D) /\ DOMAIN s = 1 .. Len(s) /\ DOMAIN t = 1 .. Len(s) + 1 /\ Len(s) \in Nat
  OBVIOUS
<1>2. (\A i \in 1 .. Len(s) : t[i] = s[i]) /\ t[Len(s) + 1] = x
  OBVIOUS
<1> HIDE DEF t
<1>3. \A i \in DOMAIN t : i = Len(s) + 1 \/ i \in DOMAIN s
  BY <1>1
<1>4. Range(t) = Range(s) \cup {x}
  <2>1. \A y \in Range(t) : y \in Range(s) \cup {x}
    BY <1>1, <1>2, <1>3 DEF Range
  <2>2. \A y \in Range(s) \cup {x} : \E i \in DOMAIN t : y = t[i]
    <3> TAKE y \in Range(s) \cup {x}
    <3>1. CASE y = x
      BY <1>1, <1>2, <3>1
    <3>2. CASE y \in Range(s)
      <4>1. PICK i \in DOMAIN s : y = s[i]
        BY <3>2 DEF Range
      <4>2. i \in DOMAIN t /\ y = t[i]
        BY <1>1, <1>2, <4>1
      <4> QED
        BY <4>2
    <3> QED
      BY <3>1, <3>2
  <2> QED
    BY <2>1, <2>2 DEF Range
<1>5. ASSUME IsInjective(s), x \notin Range(s) PROVE IsInjective(t)
  <2> SUFFICES ASSUME NEW i \in DOMAIN t, NEW j \in DOMAIN t, t[i] = t[j] PROVE i = j
    BY DEF IsInjective
  <2>1. \A m \in DOMAIN s : t[m] # x
    BY <1>1, <1>2, <1>5 DEF Range
  <2>2. CASE i \in DOMAIN s /\ j \in DOMAIN s
    BY <1>1, <1>2, <1>5, <2>2 DEF IsInjective
  <2> QED
    BY <1>1, <1>2, <1>3, <2>1, <2>2
<1> QED
  BY <1>1, <1>4, <1>5 DEF t

\* Kept keeps, of a list, exactly the elements of the set, and repeats none.
LEMMA KeptFacts ==
    ASSUME NEW D, NEW list \in Seq(D), NEW S
    PROVE  /\ Kept(list, S) \in Seq(D)
           /\ Range(Kept(list, S)) = Range(list) \cap S
           /\ IsInjective(list) => IsInjective(Kept(list, S))
           /\ Range(list) \subseteq S => Kept(list, S) = list
<1>1. PICK k : /\ Kept(list, S) = k[Len(list)]
               /\ \A n \in 0 .. Len(list) : k[n] = KeptAfter(k, list, S, n)
  BY KeptIs
<1>0. Len(list) \in Nat /\ DOMAIN list = 1 .. Len(list) /\ \A i \in 1 .. Len(list) : list[i] \in D
  OBVIOUS
<1> DEFINE First(n) == {list[i] : i \in 1 .. n}
           Right(n) ==
               /\ k[n] \in Seq(D)
               /\ Range(k[n]) = First(n) \cap S
               /\ IsInjective(list) => IsInjective(k[n])
               /\ Range(list) \subseteq S => Len(k[n]) = n /\ \A i \in 1 .. n : k[n][i] = list[i]
           T == {n \in 0 .. Len(list) : ~Right(n)}
<1>2. T = {}
  <2> SUFFICES ASSUME T # {} PROVE FALSE
    OBVIOUS
  <2>1. PICK n \in T : \A y \in T : n <= y
    <3>1. T \in SUBSET Nat
      OBVIOUS
    <3> HIDE DEF T
    <3> QED
      BY <3>1, Least
  <2>2. CASE n = 0
    <3>1. k[0] = <<>>
      BY <1>1, <1>0 DEF KeptAfter
    <3>2. First(0) = {} /\ Range(<<>>) = {} /\ IsInjective(<<>>)
      BY DEF Range, IsInjective
    <3>3. Right(0)
      BY <3>1, <3>2
    <3> QED
      BY <2>1, <2>2, <3>3
  <2>3. CASE n # 0
    <3>1. n \in 1 .. Len(list) /\ n - 1 \in 0 .. Len(list) /\ n - 1 \notin T
      <4> HIDE DEF Right
      <4> QED
        BY <1>0, <2>1, <2>3
    <3>2. Right(n - 1)
      BY <3>1
    <3>3. k[n] = IF list[n] \in S THEN Append(k[n - 1], list[n]) ELSE k[n - 1]
      BY <1>1, <3>1 DEF KeptAfter
    <3>4. First(n) = First(n - 1) \cup {list[n]}
      <4>1. \A i \in 1 .. n : i = n \/ i \in 1 .. n - 1
        BY <3>1
      <4>2. \A i \in 1 .. n - 1 : i \in 1 .. n
        BY <3>1
      <4>3. n \in 1 .. n
        BY <3>1
      <4> QED
        BY <4>1, <4>2, <4>3
    <3>5. CASE list[n] \notin S
      <4>1. k[n] = k[n - 1] /\ First(n) \cap S = First(n - 1) \cap S
        BY <3>3, <3>4, <3>5
      <4>2. ~(Range(list) \subseteq S)
        BY <3>1, <3>5, <1>0 DEF Range
      <4>3. Right(n)
        BY <3>2, <4>1, <4>2
      <4> QED
        BY <2>1, <4>3
    <3>6. CASE list[n] \in S
      <4>1. list[n] \in D
        BY <3>1, <1>0
      <4>2. /\ k[n] = Append(k[n - 1], list[n])
            /\ First(n) \cap S = (First(n - 1) \cap S) \cup {list[n]}
        BY <3>3, <3>4, <3>6
      <4>3. k[n] \in Seq(D) /\ Range(k[n]) = First(n) \cap S
        BY <3>2, <4>1, <4>2, AppendFacts
      <4>4. IsInjective(list) => list[n] \notin First(n - 1)
        <5>1. \A i \in 1 .. n - 1 : i \in DOMAIN list /\ i # n
          BY <1>0, <3>1
        <5> QED
          BY <5>1, <3>1, <1>0 DEF IsInjective
      <4>5. IsInjective(list) => IsInjective(k[n])
        BY <3>2, <4>1, <4>2, <4>4, AppendFacts
      <4>6. ASSUME Range(list) \subseteq S
            PROVE  Len(k[n]) = n /\ \A i \in 1 .. n : k[n][i] = list[i]
        <5>1. k[n - 1] \in Seq(D) /\ Len(k[n - 1]) = n - 1 /\ \A i \in 1 .. n - 1 :
                k[n - 1][i] = list[i]
          BY <3>2, <4>6
        <5> HIDE DEF Right, First
        <5>2. Len(k[n]) = n
          BY <5>1, <4>1, <4>2, <3>1
        <5>3. ASSUME NEW i \in 1 .. n PROVE k[n][i] = list[i]
          BY <5>1, <4>1, <4>2, <3>1
        <5> QED
          BY <5>2, <5>3
      <4>7. Right(n)
        BY <4>3, <4>5, <4>6
      <4> QED
        BY <2>1, <4>7
    <3> QED
      BY <3>5, <3>6
  <2> QED
    BY <2>2, <2>3
<1>3. Right(Len(list))
  <2> HIDE DEF Right
  <2> QED
    BY <1>2, <1>0
<1>4. First(Len(list)) = Range(list)
  BY <1>0 DEF Range
<1>5. ASSUME Range(list) \subseteq S PROVE k[Len(list)] = list
  <2>1. k[Len(list)] \in Seq(D) /\ Len(k[Len(list)]) = Len(list)
        /\ \A i \in 1 .. Len(list) : k[Len(list)][i] = list[i]
    BY <1>3, <1>5
  <2> HIDE DEF Right, First
  <2> QED
    BY <2>1
<1> QED
  BY <1>1, <1>3, <1>4, <1>5

\* A list without elements is empty.
LEMMA NoElements == ASSUME NEW D, NEW list \in Seq(D), Range(list) = {} PROVE list = <<>>
<1>1. DOMAIN list = 1 .. Len(list) /\ Len(list) \in Nat
  OBVIOUS
<1>2. DOMAIN list = {}
  BY DEF Range
<1>3. Len(list) = 0
  BY <1>1, <1>2
<1> QED
  BY <1>3

\* A drag puts the views of a list into another order.
LEMMA DraggedFacts ==
    ASSUME NEW D, NEW list \in Seq(D), NEW i \in DOMAIN list, NEW j \in DOMAIN list
    PROVE  /\ Dragged(list, i, j) \in Seq(D)
           /\ Range(Dragged(list, i, j)) = Range(list)
           /\ IsInjective(list) => IsInjective(Dragged(list, i, j))
<1> DEFINE N == Len(list)
           r == RemoveAt(list, i)
           d == Dragged(list, i, j)
           Skip(m) == IF m < i THEN m ELSE m + 1
           From(m) == IF m = j THEN i ELSE IF m < j THEN Skip(m) ELSE Skip(m - 1)
<1>1. N \in Nat /\ DOMAIN list = 1 .. N /\ i \in 1 .. N /\ j \in 1 .. N /\ list[i] \in D
  OBVIOUS
<1>2. r \in Seq(D) /\ Len(r) = N - 1 /\ \A m \in 1 .. N - 1 : r[m] = list[Skip(m)]
  <2> DEFINE a == SubSeq(list, 1, i - 1)
             b == SubSeq(list, i + 1, Len(list))
  <2>1. a \in Seq(D) /\ Len(a) = i - 1 /\ \A m \in 1 .. i - 1 : a[m] = list[m]
    BY <1>1
  <2>2. b \in Seq(D) /\ Len(b) = N - i /\ \A m \in 1 .. N - i : b[m] = list[m + i]
    BY <1>1
  <2>3. r = a \o b
    BY DEF RemoveAt
  <2> HIDE DEF a, b, r
  <2> HIDE DEF N, Skip
  <2>0. /\ r \in Seq(D) /\ Len(r) = Len(a) + Len(b)
        /\ \A m \in 1 .. Len(a) : r[m] = a[m]
        /\ \A m \in 1 .. Len(b) : r[Len(a) + m] = b[m]
    <3>1. a \in Seq(D) /\ b \in Seq(D)
      BY <2>1, <2>2
    <3>2. /\ a \o b \in Seq(D) /\ Len(a \o b) = Len(a) + Len(b)
          /\ \A m \in 1 .. Len(a) : (a \o b)[m] = a[m]
          /\ \A m \in 1 .. Len(b) : (a \o b)[Len(a) + m] = b[m]
      BY <3>1
    <3> QED
      BY <3>2, <2>3, Zenon
  <2>4. r \in Seq(D) /\ Len(r) = N - 1
    BY <2>0, <2>1, <2>2, <1>1
  <2>5. ASSUME NEW m \in 1 .. N - 1 PROVE r[m] = list[Skip(m)]
    <3>1. CASE m < i
      <4>1. m \in 1 .. i - 1 /\ m \in 1 .. Len(a) /\ Skip(m) = m
        BY <2>1, <1>1, <3>1 DEF Skip
      <4> QED
        BY <2>0, <2>1, <4>1
    <3>2. CASE m >= i
      <4>1. m - (i - 1) \in 1 .. N - i /\ (i - 1) + (m - (i - 1)) = m /\ (m - (i - 1)) + i = m + 1
        BY <1>1, <3>2
      <4>2. r[m] = b[m - (i - 1)]
        <5>1. m - (i - 1) \in 1 .. Len(b) /\ Len(a) + (m - (i - 1)) = m
          BY <2>1, <2>2, <4>1
        <5> QED
          BY <2>0, <5>1
      <4>3. Skip(m) = m + 1
        BY <3>2, <1>1 DEF Skip
      <4> QED
        BY <2>2, <4>1, <4>2, <4>3
    <3> QED
      BY <3>1, <3>2, <1>1
  <2> QED
    BY <2>4, <2>5
<1>3. d \in Seq(D) /\ Len(d) = N /\ \A m \in 1 .. N : d[m] = list[From(m)]
  <2> DEFINE a == SubSeq(r, 1, j - 1)
             b == SubSeq(r, j, Len(r))
             c == a \o <<list[i]>>
  <2> HIDE DEF r
  <2>1. a \in Seq(D) /\ Len(a) = j - 1 /\ \A m \in 1 .. j - 1 : a[m] = r[m]
    BY <1>1, <1>2
  <2>2. b \in Seq(D) /\ Len(b) = N - j /\ \A m \in 1 .. N - j : b[m] = r[m + j - 1]
    BY <1>1, <1>2
  <2>3. d = c \o b
    BY DEF Dragged, InsertAt, r
  <2> HIDE DEF a, b
  <2>4. c \in Seq(D) /\ Len(c) = j /\ c[j] = list[i] /\ \A m \in 1 .. j - 1 : c[m] = a[m]
    BY <2>1, <1>1
  <2> HIDE DEF c, d
  <2> HIDE DEF N
  <2>0. /\ d \in Seq(D) /\ Len(d) = Len(c) + Len(b)
        /\ \A m \in 1 .. Len(c) : d[m] = c[m]
        /\ \A m \in 1 .. Len(b) : d[Len(c) + m] = b[m]
    <3>1. c \in Seq(D) /\ b \in Seq(D)
      BY <2>2, <2>4
    <3>2. /\ c \o b \in Seq(D) /\ Len(c \o b) = Len(c) + Len(b)
          /\ \A m \in 1 .. Len(c) : (c \o b)[m] = c[m]
          /\ \A m \in 1 .. Len(b) : (c \o b)[Len(c) + m] = b[m]
      BY <3>1
    <3> QED
      BY <3>2, <2>3, Zenon
  <2>5. d \in Seq(D) /\ Len(d) = N
    BY <2>0, <2>2, <2>4, <1>1
  <2>6. ASSUME NEW m \in 1 .. N PROVE d[m] = list[From(m)]
    <3> HIDE DEF Skip
    <3>1. CASE m = j
      BY <2>0, <2>4, <1>1, <3>1
    <3>2. CASE m < j
      <4>1. m \in 1 .. j - 1 /\ m \in 1 .. N - 1
        BY <1>1, <3>2
      <4>2. d[m] = c[m]
        BY <2>0, <2>4, <1>1, <4>1
      <4> QED
        BY <2>1, <2>4, <1>2, <4>1, <4>2, <3>2
    <3>3. CASE m > j
      <4>1. /\ m - j \in 1 .. N - j /\ m - 1 \in 1 .. N - 1
            /\ j + (m - j) = m /\ (m - j) + j - 1 = m - 1
        BY <1>1, <3>3
      <4>2. d[m] = b[m - j]
        BY <2>0, <2>2, <2>4, <4>1
      <4>3. b[m - j] = r[m - 1]
        BY <2>2, <4>1, <1>1
      <4> QED
        BY <1>1, <1>2, <4>1, <4>2, <4>3, <3>3
    <3> QED
      BY <3>1, <3>2, <3>3, <1>1
  <2> QED
    BY <2>5, <2>6
<1> HIDE DEF d
<1>4. \A m \in 1 .. N : From(m) \in 1 .. N
  BY <1>1
<1>5. \A m, n \in 1 .. N : From(m) = From(n) => m = n
  BY <1>1
<1>6. \A n \in 1 .. N : \E m \in 1 .. N : From(m) = n
  <2> TAKE n \in 1 .. N
  <2> DEFINE k == IF n < i THEN n ELSE n - 1
  <2>1. CASE n = i
    BY <2>1, <1>1
  <2>2. CASE n # i
    <3>1. k \in 1 .. N - 1 /\ Skip(k) = n
      BY <1>1, <2>2
    <3> HIDE DEF Skip, k
    <3>2. CASE k < j
      <4>1. From(k) = n /\ k \in 1 .. N
        BY <1>1, <3>1, <3>2
      <4> QED
        BY <4>1
    <3>3. CASE k >= j
      <4>1. From(k + 1) = n /\ k + 1 \in 1 .. N
        BY <1>1, <3>1, <3>3
      <4> QED
        BY <4>1
    <3> QED
      BY <3>2, <3>3, <3>1, <1>1
  <2> QED
    BY <2>1, <2>2
<1> HIDE DEF From
<1>7. DOMAIN d = 1 .. N
  BY <1>3, <1>1
<1>8. Range(d) = Range(list)
  <2>1. \A m \in DOMAIN d : d[m] \in Range(list)
    BY <1>1, <1>3, <1>4, <1>7 DEF Range
  <2>2. \A n \in DOMAIN list : list[n] \in Range(d)
    BY <1>1, <1>3, <1>6, <1>7 DEF Range
  <2> QED
    BY <2>1, <2>2 DEF Range
<1>9. ASSUME IsInjective(list) PROVE IsInjective(d)
  <2> SUFFICES ASSUME NEW m \in 1 .. N, NEW n \in 1 .. N, d[m] = d[n] PROVE m = n
    BY <1>7 DEF IsInjective
  <2>1. list[From(m)] = list[From(n)] /\ From(m) \in DOMAIN list /\ From(n) \in DOMAIN list
    BY <1>1, <1>3, <1>4
  <2>2. From(m) = From(n)
    BY <2>1, <1>9 DEF IsInjective
  <2> QED
    BY <2>2, <1>5
<1> QED
  BY <1>3, <1>8, <1>9 DEF d

-----------------------------------------------------------------------------
(* Configs and schemas. *)

LEMMA ConfigFacts ==
    /\ NoView \notin Configs /\ NoView \in Patches
    /\ Configs \subseteq Patches
    /\ NoKeys \in Configs
<1>1. NoView \notin Configs
  BY ViewsAssumption DEF NoView, Configs
<1>2. {} \in SUBSET Fields /\ NoView \in [{} -> Values \cup {Absent}]
  BY DEF NoView
<1>3. NoView \in Patches
  BY <1>2 DEF Patches
<1>4. Configs \subseteq Patches
  BY DEF Configs, Patches
<1>5. NoKeys \in Configs
  BY DEF NoKeys, Configs
<1> QED
  BY <1>1, <1>3, <1>4, <1>5

\* A patch has some of the keys.
LEMMA PatchFacts ==
    ASSUME NEW p \in Patches
    PROVE  DOMAIN p \subseteq Fields /\ \A f \in DOMAIN p : p[f] \in Values \cup {Absent}
<1>1. PICK F \in SUBSET Fields : p \in [F -> Values \cup {Absent}]
  BY DEF Patches
<1> QED
  BY <1>1

LEMMA MergeFacts ==
    ASSUME NEW c \in Configs, NEW p \in Patches
    PROVE  Merge(c, p) \in Configs /\ Sent(c) \in Patches /\ Sent(Merge(c, p)) \in Patches
<1>1. Merge(c, p) \in Configs
  BY PatchFacts DEF Merge, Configs
<1>2. ASSUME NEW d \in Configs PROVE Sent(d) \in Patches
  <2> DEFINE F == {g \in DOMAIN d : d[g] # Absent}
  <2>1. F \in SUBSET Fields /\ Sent(d) \in [F -> Values \cup {Absent}]
    BY DEF Configs, Sent
  <2> QED
    BY <2>1 DEF Patches
<1> QED
  BY <1>1, <1>2

\* A change of one key of a whole config adds up to a patch of that key.
LEMMA WholeConfigMerges ==
    ASSUME NEW c \in Configs, NEW p \in Patches
    PROVE  Merge(c, Sent(Merge(c, p))) = Merge(c, Sent(p))
<1> DEFINE m == Merge(c, p)
<1>1. \A f \in Fields : m[f] = IF f \in DOMAIN p THEN p[f] ELSE c[f]
  BY DEF Merge
<1>2. DOMAIN m = Fields
  BY DEF Merge
<1>3. DOMAIN p \subseteq Fields
  BY PatchFacts
<1> HIDE DEF m
<1>4. ASSUME NEW f \in Fields
      PROVE  Merge(c, Sent(m))[f] = Merge(c, Sent(p))[f]
  <2>1. DOMAIN Sent(m) = {g \in Fields : m[g] # Absent}
          /\ DOMAIN Sent(p) = {g \in DOMAIN p : p[g] # Absent}
    BY <1>2 DEF Sent
  <2>2. (f \in DOMAIN Sent(m) => Sent(m)[f] = m[f]) /\ (f \in DOMAIN Sent(p) => Sent(p)[f] = p[f])
    BY DEF Sent
  <2>3. /\ Merge(c, Sent(m))[f] = IF f \in DOMAIN Sent(m) THEN Sent(m)[f] ELSE c[f]
        /\ Merge(c, Sent(p))[f] = IF f \in DOMAIN Sent(p) THEN Sent(p)[f] ELSE c[f]
    BY DEF Merge
  <2> QED
    BY <1>1, <2>1, <2>2, <2>3
<1>5. ASSUME NEW q, NEW r, \A f \in Fields : Merge(c, q)[f] = Merge(c, r)[f]
      PROVE  Merge(c, q) = Merge(c, r)
  BY <1>5 DEF Merge
<1> QED
  BY <1>4, <1>5 DEF m

\* trg_set_view_id_fn gives out an id without a view.
LEMMA FreshView ==
    ASSUME NextView \in Views
    PROVE  NextView \notin Existing
<1> SUFFICES ASSUME NextView \in Existing PROVE FALSE
  OBVIOUS
<1> DEFINE T == {MaxView - x : x \in Existing}
<1>1. T \in SUBSET Nat /\ T # {} /\ Existing \subseteq Nat
  BY ViewsAssumption DEF Existing, Views
<1>2. PICK d \in T : \A y \in T : d <= y
  <2> HIDE DEF T
  <2> QED
    BY <1>1, Least
<1>3. PICK m \in Existing : d = MaxView - m
  OBVIOUS
<1>4. \A x \in Existing : m >= x
  <2> TAKE x \in Existing
  <2>1. MaxView - m <= MaxView - x
    BY <1>2, <1>3
  <2> QED
    BY <2>1, <1>1, ViewsAssumption
<1>5. Max(Existing) \in Existing /\ \A x \in Existing : Max(Existing) >= x
  BY <1>4 DEF Max
<1>6. NextView = 1 + Max(Existing)
  BY DEF NextView
<1>7. Max(Existing) \in Nat
  BY <1>1, <1>5
<1>8. Max(Existing) >= NextView
  BY <1>5
<1> HIDE DEF T
<1> QED
  BY <1>6, <1>7, <1>8

LEMMA WithoutFacts ==
    ASSUME NEW list \in Seq(Views), NEW v
    PROVE  /\ Without(list, v) \in Seq(Views)
           /\ Range(Without(list, v)) = Range(list) \ {v}
           /\ IsInjective(list) => IsInjective(Without(list, v))
<1>1. Range(list) \subseteq Views
  BY DEF Range
<1> QED
  BY <1>1, KeptFacts DEF Without

\* A schema lists the views that exist, in the order of view_order if that has all.
LEMMA SchemaViewsFacts ==
    ASSUME NEW list \in Seq(Views)
    PROVE  /\ SchemaViews(list) \in Seq(Views)
           /\ Range(SchemaViews(list)) = Existing
           /\ Range(list) = Existing => SchemaViews(list) = list
<1> DEFINE all == [v \in Views |-> v]
           s == Kept(list, Existing)
           t == Kept(all, Existing \ Range(list))
<1>1. all \in Seq(Views) /\ Range(all) = Views
  <2>1. MaxView \in Nat
    BY ViewsAssumption
  <2> QED
    BY <2>1 DEF Views, Range
<1>2. Range(list) \subseteq Views /\ Existing \subseteq Views
  BY DEF Range, Existing
<1>3. s \in Seq(Views) /\ Range(s) = Range(list) \cap Existing
        /\ (Range(list) = Existing => s = list)
  BY KeptFacts
<1>4. t \in Seq(Views) /\ Range(t) = Existing \ Range(list)
  <2> HIDE DEF all
  <2> QED
    BY <1>1, <1>2, KeptFacts
<1>5. SchemaViews(list) = s \o t
  BY DEF SchemaViews
<1> HIDE DEF s, t, all
<1>6. s \o t \in Seq(Views) /\ Range(s \o t) = Range(s) \cup Range(t)
  <2>0. s \in Seq(Views) /\ t \in Seq(Views)
    BY <1>3, <1>4
  <2>1. /\ s \o t \in Seq(Views) /\ Len(s \o t) = Len(s) + Len(t)
        /\ \A m \in 1 .. Len(s) : (s \o t)[m] = s[m]
        /\ \A m \in 1 .. Len(t) : (s \o t)[Len(s) + m] = t[m]
    BY <2>0
  <2>2. /\ DOMAIN (s \o t) = 1 .. Len(s) + Len(t) /\ DOMAIN s = 1 .. Len(s)
             /\ DOMAIN t = 1 .. Len(t)
        /\ Len(s) \in Nat /\ Len(t) \in Nat
    BY <2>0, <2>1
  <2>3. \A m \in DOMAIN (s \o t) : (s \o t)[m] \in Range(s) \cup Range(t)
    <3> TAKE m \in DOMAIN (s \o t)
    <3>1. CASE m <= Len(s)
      <4>1. m \in DOMAIN s /\ (s \o t)[m] = s[m]
        BY <2>1, <2>2, <3>1
      <4> QED
        BY <4>1 DEF Range
    <3>2. CASE m > Len(s)
      <4>1. m - Len(s) \in DOMAIN t /\ Len(s) + (m - Len(s)) = m
        BY <2>2, <3>2
      <4>2. (s \o t)[m] = t[m - Len(s)]
        BY <2>1, <2>2, <4>1
      <4> QED
        BY <4>1, <4>2 DEF Range
    <3> QED
      BY <3>1, <3>2, <2>2
  <2>4. \A m \in DOMAIN s : s[m] \in Range(s \o t)
    BY <2>1, <2>2 DEF Range
  <2>5. \A m \in DOMAIN t : t[m] \in Range(s \o t)
    <3> TAKE m \in DOMAIN t
    <3>1. Len(s) + m \in DOMAIN (s \o t) /\ (s \o t)[Len(s) + m] = t[m]
      BY <2>1, <2>2
    <3> QED
      BY <3>1 DEF Range
  <2> QED
    BY <2>1, <2>3, <2>4, <2>5 DEF Range
<1>7. ASSUME Range(list) = Existing PROVE s \o t = list
  <2>1. t = <<>>
    BY <1>4, <1>7, NoElements
  <2> QED
    BY <2>1, <1>3, <1>7
<1> QED
  BY <1>2, <1>3, <1>4, <1>5, <1>6, <1>7

-----------------------------------------------------------------------------
(* The locks, the phases and what is listed hold whoever interferes. *)

Base == ViewsTypeOK /\ Locked /\ Phases /\ Listed
Holding == {"append", "read", "strip", "merge"}

LEMMA RequestTypes ==
    /\ NoRequest \in ViewRequests /\ NoRequest.pc = "idle"
    /\ Replying \in ViewRequests /\ Replying.pc = "readConfig"
<1>1. NoViews \in [Views -> Configs \cup {NoView}] /\ <<>> \in Lists /\ 0 \in 0 .. MaxView
  BY ViewsAssumption DEF NoViews, Lists
<1> QED
  BY <1>1, ConfigFacts DEF NoRequest, Replying, ViewRequests

\* One line goes on, or asks, with a new record.
LEMMA LineMoves ==
    ASSUME Base, NEW e \in Lines, NEW r \in ViewRequests,
           request' = [request EXCEPT ![e] = r],
           InPhase(e, r),
           r.pc \in Holding => ~Held(e, r.view),
           r.pc = "append" => views'[r.view] = NoView,
           r.pc = "merge" => views'[r.view] # NoView /\ r.row = views'[r.view],
           r.pc = "reply" => ListsItsViews(r.order, r.read),
           \A o \in Lines \ {e} : \A v \in Views : Holds(o, v) => views'[v] = views[v],
           ViewsTypeOK',
           \A p \in Pages : ListsItsViews(schema'[p].list, schema'[p].config)
    PROVE  Base'
<1>1. request'[e] = r /\ \A o \in Lines \ {e} : request'[o] = request[o]
  BY DEF Base, ViewsTypeOK
<1>2. Phases'
  <2> SUFFICES ASSUME NEW o \in Lines PROVE InPhase(o, request'[o])
    BY DEF Phases, InPhase
  <2> QED
    BY <1>1 DEF Base, Phases
<1>3. Listed'
  <2> SUFFICES ASSUME NEW o \in Lines, request'[o].pc = "reply"
               PROVE  ListsItsViews(request'[o].order, request'[o].read)
    BY DEF Listed, ListsItsViews
  <2> QED
    BY <1>1 DEF Base, Listed
<1>4. ASSUME NEW o \in Lines, NEW v PROVE Holds(o, v)' <=> request'[o].view = v
               /\ request'[o].pc \in Holding
  BY DEF Holds, Holding
<1>5. ASSUME NEW o \in Lines, NEW v PROVE Holds(o, v) <=> request[o].view = v
               /\ request[o].pc \in Holding
  BY DEF Holds, Holding
<1>6. ASSUME NEW d \in Lines, NEW o \in Lines, request'[d].pc \in Holding,
               request'[o].pc \in Holding,
             request'[d].view = request'[o].view
      PROVE  d = o
  <2>1. CASE d # e /\ o # e
    BY <1>1, <1>5, <1>6, <2>1 DEF Base, Locked
  <2>2. CASE d = e /\ o # e
    BY <1>1, <1>5, <1>6, <2>2 DEF Held
  <2>3. CASE d # e /\ o = e
    BY <1>1, <1>5, <1>6, <2>3 DEF Held
  <2> QED
    BY <2>1, <2>2, <2>3
<1>7. ASSUME NEW o \in Lines
      PROVE  /\ request'[o].pc = "append" => views'[request'[o].view] = NoView
             /\ request'[o].pc = "merge" => /\ views'[request'[o].view] # NoView
                                            /\ request'[o].row = views'[request'[o].view]
  <2>1. CASE o = e
    BY <1>1, <2>1
  <2>2. CASE o # e
    <3>1. request'[o] = request[o]
      BY <1>1, <2>2
    <3>2. request[o].pc \in {"append", "merge"} => request[o].view \in Views
      BY DEF Base, Phases, InPhase
    <3>3. request[o].pc \in {"append", "merge"} => views'[request[o].view] = views[request[o].view]
      BY <3>2, <1>5, <2>2 DEF Holding
    <3> QED
      BY <3>1, <3>3 DEF Base, Locked, Exists
  <2> QED
    BY <2>1, <2>2
<1>8. Locked'
  BY <1>4, <1>6, <1>7 DEF Locked, Exists
<1> QED
  BY <1>2, <1>3, <1>8 DEF Base

\* A statement that writes nothing.
LEMMA ReadsBase ==
    ASSUME Base, NEW e \in Lines, NEW r \in ViewRequests, Reads(e, r),
           InPhase(e, r),
           r.pc \in Holding => ~Held(e, r.view),
           r.pc = "append" => views[r.view] = NoView,
           r.pc = "merge" => views[r.view] # NoView /\ r.row = views[r.view],
           r.pc = "reply" => ListsItsViews(r.order, r.read)
    PROVE  Base'
<1>1. ViewsTypeOK'
  BY DEF Reads, Base, ViewsTypeOK
<1>2. \A p \in Pages : ListsItsViews(schema'[p].list, schema'[p].config)
  BY DEF Reads, Base, Listed
<1>3. views' = views /\ request' = [request EXCEPT ![e] = r]
  BY DEF Reads
<1> QED
  BY <1>1, <1>2, <1>3, LineMoves

\* A new request holds nothing.
LEMMA AsksBase ==
    ASSUME Base, NEW e \in Lines, NEW r \in ViewRequests, Asks(e, r),
           InPhase(e, r), r.pc \notin Holding \cup {"reply"}
    PROVE  Base'
<1>1. ViewsTypeOK'
  BY ViewsAssumption DEF Asks, Base, ViewsTypeOK
<1>2. \A p \in Pages : ListsItsViews(schema'[p].list, schema'[p].config)
  BY DEF Asks, Base, Listed
<1>3. views' = views /\ request' = [request EXCEPT ![e] = r]
  BY DEF Asks
<1>4. r.pc \notin {"append", "merge", "reply"} /\ r.pc \notin Holding
  BY DEF Holding
<1> QED
  BY <1>1, <1>2, <1>3, <1>4, LineMoves

\* A transaction writes view rows that it holds.
LEMMA CommitsBase ==
    ASSUME Base, NEW e \in Lines, NEW r \in ViewRequests,
           NEW newViews \in [Views -> Configs \cup {NoView}], NEW newOrder \in Seq(Views),
           NEW newDefault \in 0 .. MaxView,
           Commits(e, newViews, newOrder, newDefault, r),
           InPhase(e, r), r.pc \notin Holding \cup {"reply"},
           \A v \in Views : newViews[v] # views[v] => Holds(e, v)
    PROVE  Base'
<1>1. ViewsTypeOK'
  BY DEF Commits, Base, ViewsTypeOK, Lists
<1>2. \A p \in Pages : ListsItsViews(schema'[p].list, schema'[p].config)
  BY DEF Commits, Base, Listed
<1>3. views' = newViews /\ request' = [request EXCEPT ![e] = r]
  BY DEF Commits
<1>4. r.pc \notin {"append", "merge", "reply"} /\ r.pc \notin Holding
  BY DEF Holding
<1>5. \A o \in Lines \ {e} : \A v \in Views : Holds(o, v) => views'[v] = views[v]
  BY <1>3 DEF Base, Locked, Holds
<1> QED
  BY <1>1, <1>2, <1>3, <1>4, <1>5, LineMoves

\* What a client can send names the views it sees.
LEMMA SeenViews ==
    ASSUME Base, NEW p \in Pages, NEW v \in Range(schema[p].list)
    PROVE  v \in Views /\ schema[p].config[v] \in Configs
<1>1. schema[p] \in Schemas
  BY DEF Base, ViewsTypeOK
<1>2. schema[p].list \in Seq(Views) /\ schema[p].config \in [Views -> Configs \cup {NoView}]
  BY <1>1 DEF Schemas, Lists
<1>3. v \in Views
  BY <1>2 DEF Range
<1> QED
  BY <1>2, <1>3 DEF Base, Listed, ListsItsViews

LEMMA ChangeTypes == Changes \subseteq Patches /\ \A f \in Fields :
  [g \in {f} |-> Absent] \in Patches
<1>1. ASSUME NEW f \in Fields, NEW x \in Values \cup {Absent} PROVE [g \in {f} |-> x] \in Patches
  <2>1. {f} \in SUBSET Fields /\ [g \in {f} |-> x] \in [{f} -> Values \cup {Absent}]
    OBVIOUS
  <2> QED
    BY <2>1 DEF Patches
<1>2. ASSUME NEW c \in Changes PROVE c \in Patches
  <2>1. PICK f \in Fields, x \in Values \cup {Absent} : c = [g \in {f} |-> x]
    BY DEF Changes
  <2> QED
    BY <1>1, <2>1
<1>3. ASSUME NEW f \in Fields PROVE [g \in {f} |-> Absent] \in Patches
  BY <1>1
<1> QED
  BY <1>2, <1>3

\* A new request, and what it may rely on if its page sees the views that exist.
Asked(e, r) ==
    /\ Asks(e, r) /\ InPhase(e, r) /\ r.pc \notin Holding \cup {"reply", "idle"}
    /\ Range(schema[Page(e)].list) = Existing /\ IsInjective(schema[Page(e)].list) =>
           InAgreement(e, r)

LEMMA BeginAsks ==
    ASSUME Base, NEW e \in Lines, Begin(e)
    PROVE  \E r \in ViewRequests : Asked(e, r)
<1> DEFINE Some == \E r \in ViewRequests : Asked(e, r)
           list == schema[Page(e)].list
           Whole(v, c) == Sent(Merge(schema[Page(e)].config[v], c))
<1> SUFFICES Some
  OBVIOUS
<1>0. Page(e) \in Pages /\ list \in Seq(Views)
  <2>1. Page(e) \in Pages
    BY DEF Lines, Page
  <2>2. schema[Page(e)] \in Schemas
    BY <2>1 DEF Base, ViewsTypeOK
  <2> QED
    BY <2>1, <2>2 DEF Schemas, Lists
<1>1. \A v \in Range(list) : v \in Views /\ v \in 0 .. MaxView
  BY <1>0, SeenViews DEF Views
<1>2. ASSUME BeginReload(e) PROVE Some
  <2>1. Asks(e, Replying)
    BY <1>2 DEF BeginReload
  <2>2. InPhase(e, Replying) /\ Replying.pc \notin Holding \cup {"reply", "idle"}
    BY RequestTypes DEF InPhase, Holding
  <2>3. InAgreement(e, Replying)
    BY RequestTypes DEF InAgreement
  <2> QED
    BY <2>1, <2>2, <2>3, RequestTypes DEF Asked
<1>3. ASSUME BeginCreate(e) PROVE Some
  <2> DEFINE r == [NoRequest EXCEPT !.pc = "insert", !.view = NextView, !.patch = NoKeys]
  <2>1. Asks(e, r) /\ NextView \in Views /\ e[2] = "direct"
    BY <1>3 DEF BeginCreate, Asks
  <2>2. r \in ViewRequests
    <3>1. NextView \in 0 .. MaxView /\ NoKeys \in Patches
      BY <2>1, ConfigFacts, ViewsAssumption DEF Views
    <3> QED
      BY <3>1, RequestTypes DEF ViewRequests
  <2>3. InPhase(e, r) /\ r.pc \notin Holding \cup {"reply", "idle"}
    BY <2>1, RequestTypes DEF InPhase, Holding, NoRequest
  <2>4. InAgreement(e, r)
    BY <2>1, FreshView DEF InAgreement, NoRequest, Existing
  <2> QED
    BY <2>1, <2>2, <2>3, <2>4 DEF Asked
<1>4. ASSUME NEW v \in Range(list), BeginDelete(e, v) PROVE Some
  <2> DEFINE r == [NoRequest EXCEPT !.pc = "lock", !.view = v]
  <2>1. Asks(e, r) /\ e[2] = "direct"
    BY <1>4 DEF BeginDelete, Asks
  <2>2. r \in ViewRequests
    BY <1>1, RequestTypes DEF ViewRequests
  <2>3. InPhase(e, r) /\ r.pc \notin Holding \cup {"reply", "idle"}
    BY <2>1, <1>1 DEF InPhase, Holding, NoRequest
  <2>4. Range(list) = Existing => InAgreement(e, r)
    BY DEF InAgreement, NoRequest, Existing
  <2> QED
    BY <2>1, <2>2, <2>3, <2>4 DEF Asked
<1>5. ASSUME NEW v \in Range(list), NEW patch \in Patches, BeginUpdate(e, v, patch) PROVE Some
  <2> DEFINE r == [NoRequest EXCEPT !.pc = "patch", !.view = v, !.patch = patch]
  <2>1. Asks(e, r) /\ e[2] = "direct"
    BY <1>5 DEF BeginUpdate, Asks
  <2>2. r \in ViewRequests
    BY <1>1, RequestTypes DEF ViewRequests
  <2>3. InPhase(e, r) /\ r.pc \notin Holding \cup {"reply", "idle"}
    BY <2>1, <1>1 DEF InPhase, Holding, NoRequest
  <2>4. Range(list) = Existing => InAgreement(e, r)
    BY <2>1 DEF InAgreement, NoRequest, Existing
  <2> QED
    BY <2>1, <2>2, <2>3, <2>4 DEF Asked
<1>6. ASSUME NEW v \in Range(list), NEW c \in Changes PROVE Whole(v, c) \in Patches
  <2>1. schema[Page(e)].config[v] \in Configs /\ c \in Patches
    BY <1>0, SeenViews, ChangeTypes
  <2> QED
    BY <2>1, MergeFacts
<1>7. ASSUME NEW parts \in {{"order"}, {"order", "default"}}, NEW i \in DOMAIN list,
               NEW j \in DOMAIN list,
             NEW v \in {0} \cup Range(list), BeginPatch(e, parts, Dragged(list, i, j), v)
      PROVE  Some
  <2> DEFINE r == [NoRequest EXCEPT !.pc = "order", !.parts = parts, !.order = Dragged(list, i, j),
               !.view = v]
  <2>1. Asks(e, r) /\ e[2] = "direct"
    BY <1>7 DEF BeginPatch, Asks
  <2>2. Dragged(list, i, j) \in Lists
    BY <1>0, DraggedFacts DEF Lists
  <2>3. v \in 0 .. MaxView
    BY <1>1, ViewsAssumption
  <2>4. r \in ViewRequests
    BY <2>2, <2>3, RequestTypes DEF ViewRequests
  <2>5. InPhase(e, r) /\ r.pc \notin Holding \cup {"reply", "idle"}
    BY <2>1 DEF InPhase, Holding, NoRequest
  <2>6. Range(list) = Existing /\ IsInjective(list) => InAgreement(e, r)
    BY <1>0, DraggedFacts DEF InAgreement, NoRequest
  <2> QED
    BY <2>1, <2>4, <2>5, <2>6 DEF Asked
<1>8. \/ BeginReload(e)
      \/ BeginCreate(e)
      \/ \E v \in Range(list) :
             \/ BeginDelete(e, v)
             \/ \E c \in Changes : BeginUpdate(e, v, Whole(v, c))
             \/ \E f \in Fields : BeginUpdate(e, v, [g \in {f} |-> Absent])
      \/ \E i, j \in DOMAIN list :
             \/ BeginPatch(e, {"order"}, Dragged(list, i, j), 0)
             \/ \E v \in {0} \cup Range(list) :
                    BeginPatch(e, {"order", "default"}, Dragged(list, i, j), v)
  BY DEF Begin
<1> HIDE DEF list, Whole, Some
<1>9. CASE \E v \in Range(list) :
             \/ BeginDelete(e, v)
             \/ \E c \in Changes : BeginUpdate(e, v, Whole(v, c))
             \/ \E f \in Fields : BeginUpdate(e, v, [g \in {f} |-> Absent])
  BY <1>9, <1>4, <1>5, <1>6, ChangeTypes
<1>10. CASE \E i, j \in DOMAIN list :
             \/ BeginPatch(e, {"order"}, Dragged(list, i, j), 0)
             \/ \E v \in {0} \cup Range(list) :
                    BeginPatch(e, {"order", "default"}, Dragged(list, i, j), v)
  <2>1. PICK i \in DOMAIN list, j \in DOMAIN list :
             \/ BeginPatch(e, {"order"}, Dragged(list, i, j), 0)
             \/ \E v \in {0} \cup Range(list) :
                    BeginPatch(e, {"order", "default"}, Dragged(list, i, j), v)
    BY <1>10
  <2>2. 0 \in {0} \cup Range(list)
    OBVIOUS
  <2> QED
    BY <2>1, <2>2, <1>7
<1> QED
  BY <1>8, <1>2, <1>3, <1>9, <1>10

LEMMA BeginBase == ASSUME Base, NEW e \in Lines, Begin(e) PROVE Base'
<1>1. PICK r \in ViewRequests : Asked(e, r)
  BY BeginAsks
<1>2. Asks(e, r) /\ InPhase(e, r) /\ r.pc \notin Holding \cup {"reply"}
  BY <1>1 DEF Asked
<1> QED
  BY <1>2, AsksBase

\* The request of a line, for the steps below.
LEMMA RequestOf ==
    ASSUME Base, NEW e \in Lines
    PROVE  /\ request[e] \in ViewRequests /\ InPhase(e, request[e])
           /\ request[e].view \in 0 .. MaxView /\ request[e].order \in Seq(Views)
           /\ request[e].default \in 0 .. MaxView /\ request[e].patch \in Patches
           /\ request[e].read \in [Views -> Configs \cup {NoView}]
           /\ request[e].parts \in SUBSET {"order", "default"}
           /\ request[e].pc = "merge" =>
                  /\ request[e].view \in Views /\ views[request[e].view] \in Configs
                  /\ request[e].row = views[request[e].view]
<1>1. request[e] \in ViewRequests /\ InPhase(e, request[e])
  BY DEF Base, ViewsTypeOK, Phases
<1>2. /\ request[e].view \in 0 .. MaxView /\ request[e].order \in Seq(Views)
      /\ request[e].default \in 0 .. MaxView /\ request[e].patch \in Patches
      /\ request[e].read \in [Views -> Configs \cup {NoView}]
      /\ request[e].parts \in SUBSET {"order", "default"}
  BY <1>1 DEF ViewRequests, Lists
<1>3. ASSUME request[e].pc = "merge"
      PROVE  /\ request[e].view \in Views /\ views[request[e].view] \in Configs
             /\ request[e].row = views[request[e].view]
  <2>1. request[e].view \in Views
    BY <1>1, <1>3 DEF InPhase
  <2>2. Exists(request[e].view) /\ request[e].row = views[request[e].view]
    BY <1>3 DEF Base, Locked
  <2> QED
    BY <2>1, <2>2 DEF Base, ViewsTypeOK, Exists
<1> QED
  BY <1>1, <1>2, <1>3

\* The transactions, and what each writes.
LEMMA AppendCommits ==
    ASSUME Base, NEW e \in Lines, AppendToOrder(e)
    PROVE  /\ [views EXCEPT ![request[e].view] = NoKeys] \in [Views -> Configs \cup {NoView}]
           /\ Append(order, request[e].view) \in Seq(Views)
           /\ request[e].view \in Views /\ Holds(e, request[e].view) /\ ~Exists(request[e].view)
           /\ Commits(e, [views EXCEPT ![request[e].view] = NoKeys],
                         Append(order, request[e].view), default, Replying)
<1>1. request[e].pc = "append"
  BY DEF AppendToOrder
<1>2. request[e].view \in Views /\ request[e].patch = NoKeys
  BY <1>1, RequestOf DEF InPhase
<1>3. Commits(e, [views EXCEPT ![request[e].view] = NoKeys],
                 Append(order, request[e].view), default, Replying)
  BY <1>2 DEF AppendToOrder
<1>4. [views EXCEPT ![request[e].view] = NoKeys] \in [Views -> Configs \cup {NoView}]
  BY <1>2, ConfigFacts DEF Base, ViewsTypeOK
<1>5. Append(order, request[e].view) \in Seq(Views)
  BY <1>2 DEF Base, ViewsTypeOK, Lists
<1>6. Holds(e, request[e].view) /\ ~Exists(request[e].view)
  BY <1>1 DEF Holds, Base, Locked
<1> QED
  BY <1>2, <1>3, <1>4, <1>5, <1>6

LEMMA StripCommits ==
    ASSUME Base, NEW e \in Lines, StripConfig(e),
           NEW v, v = request[e].view,
           NEW d, d = IF request[e].default = v THEN 0 ELSE request[e].default
    PROVE  /\ [views EXCEPT ![v] = NoView] \in [Views -> Configs \cup {NoView}]
           /\ Without(request[e].order, v) \in Seq(Views) /\ d \in 0 .. MaxView
           /\ v \in Views /\ Holds(e, v)
           /\ Commits(e, [views EXCEPT ![v] = NoView], Without(request[e].order, v), d, Replying)
<1>1. request[e].pc = "strip"
  BY DEF StripConfig
<1>2. v \in Views
  BY <1>1, RequestOf DEF InPhase
<1>3. Commits(e, [views EXCEPT ![v] = NoView], Without(request[e].order, v), d, Replying)
  BY DEF StripConfig
<1>4. [views EXCEPT ![v] = NoView] \in [Views -> Configs \cup {NoView}]
  BY <1>2 DEF Base, ViewsTypeOK
<1>5. Without(request[e].order, v) \in Seq(Views) /\ d \in 0 .. MaxView
  BY RequestOf, WithoutFacts, ViewsAssumption
<1>6. Holds(e, v)
  BY <1>1 DEF Holds
<1> QED
  BY <1>2, <1>3, <1>4, <1>5, <1>6

LEMMA WriteCommits ==
    ASSUME Base, NEW e \in Lines, WriteView(e)
    PROVE  /\ [views EXCEPT ![request[e].view] = Merge(views[request[e].view], request[e].patch)]
                  \in [Views -> Configs \cup {NoView}]
           /\ request[e].view \in Views /\ Holds(e, request[e].view)
           /\ Merge(views[request[e].view], request[e].patch) \in Configs
           /\ Commits(e, [views EXCEPT ![request[e].view] =
                              Merge(views[request[e].view], request[e].patch)],
                         order, default, Replying)
<1>1. request[e].pc = "merge"
  BY DEF WriteView
<1>2. /\ request[e].view \in Views /\ views[request[e].view] \in Configs
      /\ request[e].row = views[request[e].view] /\ request[e].patch \in Patches
  BY <1>1, RequestOf
<1>3. Merge(views[request[e].view], request[e].patch) \in Configs
  BY <1>2, MergeFacts
<1>4. [views EXCEPT ![request[e].view] = Merge(views[request[e].view], request[e].patch)]
          \in [Views -> Configs \cup {NoView}]
  BY <1>2, <1>3 DEF Base, ViewsTypeOK
<1>5. Holds(e, request[e].view)
  BY <1>1 DEF Holds
<1>6. Commits(e, [views EXCEPT ![request[e].view] =
                      Merge(views[request[e].view], request[e].patch)],
                 order, default, Replying)
  BY <1>2 DEF WriteView
<1> QED
  BY <1>2, <1>3, <1>4, <1>5, <1>6

\* The next part of a PATCH.
LEMMA PatchingFacts ==
    ASSUME Base, NEW e \in Lines, NEW parts \in SUBSET {"order", "default"}, "order" \notin parts
    PROVE  /\ Patching(e, parts) \in ViewRequests
           /\ InPhase(e, Patching(e, parts))
           /\ parts = {} => Patching(e, parts) = Replying
           /\ parts # {} => Patching(e, parts).pc = "check"
                /\ Patching(e, parts).view = request[e].view
<1>1. CASE parts = {}
  BY <1>1, RequestTypes DEF Patching, InPhase
<1>2. CASE parts # {}
  <2>1. parts = {"default"}
    BY <1>2
  <2>2. Patching(e, parts) = [request[e] EXCEPT !.parts = parts, !.pc = "check"]
    BY <1>2 DEF Patching
  <2>3. Patching(e, parts) \in ViewRequests
    <3>1. PICK r \in ViewRequests : r = request[e]
      BY RequestOf
    <3>2. [r EXCEPT !.parts = parts] \in ViewRequests
      BY DEF ViewRequests
    <3>3. PICK q \in ViewRequests : q = [r EXCEPT !.parts = parts]
      BY <3>2
    <3>4. [q EXCEPT !.pc = "check"] \in ViewRequests
      BY DEF ViewRequests
    <3>5. [q EXCEPT !.pc = "check"] = [r EXCEPT !.parts = parts, !.pc = "check"]
      BY <3>3
    <3> QED
      BY <2>2, <3>1, <3>4, <3>5
  <2>4. /\ Patching(e, parts).pc = "check" /\ Patching(e, parts).parts = {"default"}
        /\ Patching(e, parts).view = request[e].view
    BY <2>1, <2>2, RequestOf DEF ViewRequests
  <2> QED
    BY <1>2, <2>3, <2>4 DEF InPhase
<1> QED
  BY <1>1, <1>2

\* The requests that go on with what a statement has read.
LEMMA RequestWith ==
    ASSUME NEW q \in ViewRequests
    PROVE  /\ \A l \in Lists, d \in 0 .. MaxView :
                  [q EXCEPT !.pc = "strip", !.order = l, !.default = d] \in ViewRequests
           /\ \A c \in Patches : [q EXCEPT !.pc = "merge", !.row = c] \in ViewRequests
<1>1. ASSUME NEW l \in Lists, NEW d \in 0 .. MaxView
      PROVE  [q EXCEPT !.pc = "strip", !.order = l, !.default = d] \in ViewRequests
  <2>1. PICK a \in ViewRequests : a = [q EXCEPT !.pc = "strip"]
    BY DEF ViewRequests
  <2>2. PICK b \in ViewRequests : b = [a EXCEPT !.order = l]
    BY DEF ViewRequests
  <2>3. PICK c \in ViewRequests : c = [b EXCEPT !.default = d]
    BY DEF ViewRequests
  <2>4. c = [q EXCEPT !.pc = "strip", !.order = l, !.default = d]
    BY <2>1, <2>2, <2>3
  <2> QED
    BY <2>4
<1>2. ASSUME NEW c \in Patches PROVE [q EXCEPT !.pc = "merge", !.row = c] \in ViewRequests
  <2>1. PICK a \in ViewRequests : a = [q EXCEPT !.pc = "merge"]
    BY DEF ViewRequests
  <2>2. PICK b \in ViewRequests : b = [a EXCEPT !.row = c]
    BY DEF ViewRequests
  <2>3. b = [q EXCEPT !.pc = "merge", !.row = c]
    BY <2>1, <2>2
  <2> QED
    BY <2>3
<1> QED
  BY <1>1, <1>2

LEMMA TailFacts ==
    ASSUME NEW D, NEW s \in Seq(D), s # <<>>
    PROVE  \A n \in DOMAIN Tail(s) : n + 1 \in DOMAIN s /\ Tail(s)[n] = s[n + 1]
<1>1. DOMAIN s = 1 .. Len(s) /\ Len(s) \in Nat /\ Len(s) # 0
  OBVIOUS
<1>2. Tail(s) \in Seq(D) /\ Len(Tail(s)) = Len(s) - 1
  OBVIOUS
<1>3. DOMAIN Tail(s) = 1 .. Len(s) - 1
  BY <1>2
<1>4. \A n \in 1 .. Len(s) - 1 : Tail(s)[n] = s[n + 1]
  BY <1>1
<1> QED
  BY <1>1, <1>3, <1>4

\* What a page queues is a change of a view it lists, or the default.
LEMMA ConfigureEnqueues ==
    ASSUME Base, NEW p \in Pages, Configure(p)
    PROVE  \E edit \in Edits :
               /\ Enqueue(p, edit)
               /\ \/ edit.view \in Range(schema[p].list)
                  \/ edit.op = "default" /\ edit.view = 0
<1> DEFINE Some ==
               \E edit \in Edits :
                   /\ Enqueue(p, edit)
                   /\ \/ edit.view \in Range(schema[p].list)
                      \/ edit.op = "default" /\ edit.view = 0
<1> SUFFICES Some
  OBVIOUS
<1>1. \A v \in Range(schema[p].list) : v \in 0 .. MaxView
  BY SeenViews DEF Views
<1>2. 0 \in 0 .. MaxView /\ NoView \in Patches /\ Changes \subseteq Patches
  BY ChangeTypes, ConfigFacts, ViewsAssumption
<1> HIDE DEF Some
<1>3. CASE \E v \in Range(schema[p].list), c \in Changes :
               Enqueue(p, [op |-> "config", view |-> v, change |-> c])
  <2>1. PICK v \in Range(schema[p].list), c \in Changes :
            Enqueue(p, [op |-> "config", view |-> v, change |-> c])
    BY <1>3
  <2>2. v \in 0 .. MaxView /\ c \in Patches
    BY <1>1, <1>2
  <2>3. PICK edit : edit = [op |-> "config", view |-> v, change |-> c]
    OBVIOUS
  <2>4. edit \in Edits /\ edit.view = v
    BY <2>2, <2>3 DEF Edits
  <2> QED
    BY <2>1, <2>3, <2>4 DEF Some
<1>4. CASE \E v \in {0} \cup Range(schema[p].list) :
               Enqueue(p, [op |-> "default", view |-> v, change |-> NoView])
  <2>1. PICK v \in {0} \cup Range(schema[p].list) :
            Enqueue(p, [op |-> "default", view |-> v, change |-> NoView])
    BY <1>4
  <2>2. v \in 0 .. MaxView /\ (v \in Range(schema[p].list) \/ v = 0)
    BY <1>1, <1>2
  <2>3. PICK edit : edit = [op |-> "default", view |-> v, change |-> NoView]
    OBVIOUS
  <2>4. edit \in Edits /\ edit.view = v /\ edit.op = "default"
    BY <1>2, <2>2, <2>3 DEF Edits
  <2> QED
    BY <2>1, <2>2, <2>3, <2>4 DEF Some
<1> QED
  BY <1>3, <1>4 DEF Configure

LEMMA BaseStep == Base /\ [ViewsNext]_viewsVars => Base'
<1> SUFFICES ASSUME Base, [ViewsNext]_viewsVars PROVE Base'
  OBVIOUS
<1>0. ASSUME NEW e \in Lines, NEW r \in ViewRequests, Reads(e, r), r = NoRequest PROVE Base'
  <2>1. InPhase(e, r) /\ r.pc \notin Holding /\ r.pc \notin {"append", "merge", "reply"}
    BY <1>0, RequestTypes DEF InPhase, Holding
  <2> QED
    BY <1>0, <2>1, ReadsBase
<1>1. ASSUME NEW e \in Lines, InsertView(e) PROVE Base'
  <2> DEFINE r == [request[e] EXCEPT !.pc = "append"]
  <2>1. /\ request[e].pc = "insert" /\ ~Held(e, request[e].view)
        /\ Reads(e, IF Exists(request[e].view) THEN NoRequest ELSE r)
    BY <1>1 DEF InsertView
  <2>2. r \in ViewRequests /\ r.pc = "append" /\ r.view = request[e].view
          /\ r.patch = request[e].patch
    BY RequestOf DEF ViewRequests
  <2>3. InPhase(e, r)
    BY <2>1, <2>2, RequestOf DEF InPhase
  <2>4. CASE Exists(request[e].view)
    BY <2>1, <2>4, <1>0, RequestTypes
  <2>5. CASE ~Exists(request[e].view)
    <3>1. Reads(e, r) /\ views[r.view] = NoView /\ ~Held(e, r.view)
      BY <2>1, <2>2, <2>5 DEF Exists
    <3> HIDE DEF r
    <3> QED
      BY <2>2, <2>3, <3>1, ReadsBase
  <2> QED
    BY <2>4, <2>5
<1>2. ASSUME NEW e \in Lines, AppendToOrder(e) PROVE Base'
  <2> DEFINE w == [views EXCEPT ![request[e].view] = NoKeys]
             o == Append(order, request[e].view)
  <2>1. /\ w \in [Views -> Configs \cup {NoView}] /\ o \in Seq(Views)
        /\ Holds(e, request[e].view) /\ Commits(e, w, o, default, Replying)
    BY <1>2, AppendCommits
  <2>2. \A v \in Views : w[v] # views[v] => Holds(e, v)
    BY <2>1 DEF Base, ViewsTypeOK
  <2>3. InPhase(e, Replying) /\ Replying.pc \notin Holding \cup {"reply"}
          /\ default \in 0 .. MaxView
    BY RequestTypes DEF InPhase, Holding, Base, ViewsTypeOK
  <2> HIDE DEF w, o
  <2> QED
    BY <2>1, <2>2, <2>3, RequestTypes, CommitsBase
<1>3. ASSUME NEW e \in Lines, DeleteRow(e) PROVE Base'
  <2> DEFINE r == [request[e] EXCEPT !.pc = "read"]
  <2>1. /\ request[e].pc = "lock" /\ ~Held(e, request[e].view)
        /\ Reads(e, IF Exists(request[e].view) THEN r ELSE NoRequest)
    BY <1>3 DEF DeleteRow
  <2>2. r \in ViewRequests /\ r.pc = "read" /\ r.view = request[e].view
    BY RequestOf DEF ViewRequests
  <2>3. InPhase(e, r)
    BY <2>1, <2>2, RequestOf DEF InPhase
  <2>4. CASE ~Exists(request[e].view)
    BY <2>1, <2>4, <1>0, RequestTypes
  <2>5. CASE Exists(request[e].view)
    <3>1. Reads(e, r) /\ ~Held(e, r.view)
      BY <2>1, <2>2, <2>5
    <3> HIDE DEF r
    <3> QED
      BY <2>2, <2>3, <3>1, ReadsBase
  <2> QED
    BY <2>4, <2>5
<1>4. ASSUME NEW e \in Lines, ReadConfig(e) PROVE Base'
  <2> DEFINE r == [request[e] EXCEPT !.pc = "strip", !.order = order, !.default = default]
  <2>1. request[e].pc = "read" /\ Reads(e, r)
    BY <1>4 DEF ReadConfig
  <2>2. order \in Lists /\ default \in 0 .. MaxView
    BY DEF Base, ViewsTypeOK
  <2>3. r \in ViewRequests /\ r.pc = "strip" /\ r.view = request[e].view
    <3>1. r \in ViewRequests
      BY <2>2, RequestOf, RequestWith
    <3>2. r.pc = "strip" /\ r.view = request[e].view
      BY RequestOf DEF ViewRequests
    <3> QED
      BY <3>1, <3>2
  <2>4. InPhase(e, r)
    BY <2>1, <2>3, RequestOf DEF InPhase
  <2>5. ~Held(e, r.view)
    BY <2>1, <2>3 DEF Base, Locked, Held, Holds
  <2> HIDE DEF r
  <2> QED
    BY <2>1, <2>3, <2>4, <2>5, ReadsBase
<1>5. ASSUME NEW e \in Lines, StripConfig(e) PROVE Base'
  <2> DEFINE v == request[e].view
             d == IF request[e].default = v THEN 0 ELSE request[e].default
             w == [views EXCEPT ![v] = NoView]
             o == Without(request[e].order, v)
  <2>1. /\ w \in [Views -> Configs \cup {NoView}] /\ o \in Seq(Views) /\ d \in 0 .. MaxView
        /\ Holds(e, v) /\ Commits(e, w, o, d, Replying)
    BY <1>5, StripCommits
  <2>2. \A x \in Views : w[x] # views[x] => Holds(e, x)
    BY <2>1 DEF Base, ViewsTypeOK
  <2>3. InPhase(e, Replying) /\ Replying.pc \notin Holding \cup {"reply"}
    BY RequestTypes DEF InPhase, Holding
  <2> HIDE DEF w, o, d
  <2> QED
    BY <2>1, <2>2, <2>3, RequestTypes, CommitsBase
<1>6. ASSUME NEW e \in Lines, SelectForUpdate(e) PROVE Base'
  <2> DEFINE r == [request[e] EXCEPT !.pc = "merge", !.row = views[request[e].view]]
  <2>1. /\ request[e].pc = "patch" /\ ~Held(e, request[e].view)
        /\ Reads(e, IF Exists(request[e].view) THEN r ELSE NoRequest)
    BY <1>6 DEF SelectForUpdate
  <2>2. request[e].view \in Views
    BY <2>1, RequestOf DEF InPhase
  <2>3. CASE ~Exists(request[e].view)
    BY <2>1, <2>3, <1>0, RequestTypes
  <2>4. CASE Exists(request[e].view)
    <3>1. views[request[e].view] \in Patches
      BY <2>2, ConfigFacts DEF Base, ViewsTypeOK
    <3>2. /\ r \in ViewRequests /\ r.pc = "merge" /\ r.view = request[e].view
          /\ r.row = views[request[e].view]
      <4>1. r \in ViewRequests
        BY <3>1, RequestOf, RequestWith
      <4>2. r.pc = "merge" /\ r.view = request[e].view /\ r.row = views[request[e].view]
        BY RequestOf DEF ViewRequests
      <4> QED
        BY <4>1, <4>2
    <3>3. InPhase(e, r)
      BY <2>1, <2>2, <3>2, RequestOf DEF InPhase
    <3>4. Reads(e, r) /\ ~Held(e, r.view) /\ views[r.view] # NoView /\ r.row = views[r.view]
      BY <2>1, <2>4, <3>2 DEF Exists
    <3> HIDE DEF r
    <3> QED
      BY <3>2, <3>3, <3>4, ReadsBase
  <2> QED
    BY <2>3, <2>4
<1>7. ASSUME NEW e \in Lines, WriteView(e) PROVE Base'
  <2> DEFINE w == [views EXCEPT ![request[e].view] = Merge(views[request[e].view],
               request[e].patch)]
  <2>1. /\ w \in [Views -> Configs \cup {NoView}]
        /\ Holds(e, request[e].view) /\ Commits(e, w, order, default, Replying)
    BY <1>7, WriteCommits
  <2>2. \A v \in Views : w[v] # views[v] => Holds(e, v)
    BY <2>1 DEF Base, ViewsTypeOK
  <2>3. InPhase(e, Replying) /\ Replying.pc \notin Holding \cup {"reply"}
        /\ default \in 0 .. MaxView /\ order \in Seq(Views)
    BY RequestTypes DEF InPhase, Holding, Base, ViewsTypeOK, Lists
  <2> HIDE DEF w
  <2> QED
    BY <2>1, <2>2, <2>3, RequestTypes, CommitsBase
<1>8. ASSUME NEW e \in Lines, WriteOrder(e) PROVE Base'
  <2> DEFINE r == Patching(e, request[e].parts \ {"order"})
  <2>1. Commits(e, views, request[e].order, default, r)
    BY <1>8 DEF WriteOrder
  <2>2. r \in ViewRequests /\ InPhase(e, r) /\ r.pc \in {"readConfig", "check"}
    <3>1. request[e].parts \ {"order"} \in SUBSET {"order", "default"}
            /\ "order" \notin request[e].parts \ {"order"}
      BY RequestOf
    <3> QED
      BY <3>1, PatchingFacts, RequestTypes
  <2>3. /\ views \in [Views -> Configs \cup {NoView}] /\ request[e].order \in Seq(Views)
        /\ default \in 0 .. MaxView /\ r.pc \notin Holding \cup {"reply"}
    BY <2>2, RequestOf DEF Base, ViewsTypeOK, Holding
  <2> HIDE DEF r
  <2> QED
    BY <2>1, <2>2, <2>3, CommitsBase
<1>9. ASSUME NEW e \in Lines, CheckDefault(e) PROVE Base'
  <2> DEFINE r == [request[e] EXCEPT !.pc = "default"]
  <2>1. request[e].pc = "check"
    BY <1>9 DEF CheckDefault
  <2>2. Reads(e, NoRequest) \/ Reads(e, r)
    BY <1>9 DEF CheckDefault
  <2>3. r \in ViewRequests /\ r.pc = "default" /\ r.parts = request[e].parts
    BY RequestOf DEF ViewRequests
  <2>4. InPhase(e, r) /\ r.pc \notin Holding /\ r.pc \notin {"append", "merge", "reply"}
    BY <2>1, <2>3, RequestOf DEF InPhase, Holding
  <2> HIDE DEF r
  <2> QED
    BY <2>2, <2>3, <2>4, <1>0, RequestTypes, ReadsBase
<1>10. ASSUME NEW e \in Lines, WriteDefault(e) PROVE Base'
  <2> DEFINE r == Patching(e, request[e].parts \ {"default"})
  <2>1. Commits(e, views, order, request[e].view, r)
    BY <1>10 DEF WriteDefault
  <2>2. r \in ViewRequests /\ InPhase(e, r) /\ r.pc \in {"readConfig", "check"}
    <3>1. request[e].parts = {"default"}
      BY <1>10, RequestOf DEF WriteDefault, InPhase
    <3>2. request[e].parts \ {"default"} = {}
      BY <3>1
    <3> QED
      BY <3>2, PatchingFacts, RequestTypes
  <2>3. /\ views \in [Views -> Configs \cup {NoView}] /\ order \in Seq(Views)
        /\ request[e].view \in 0 .. MaxView /\ r.pc \notin Holding \cup {"reply"}
    BY <2>2, RequestOf DEF Base, ViewsTypeOK, Holding, Lists
  <2> HIDE DEF r
  <2> QED
    BY <2>1, <2>2, <2>3, CommitsBase
<1>11. ASSUME NEW e \in Lines, ReplyConfig(e) PROVE Base'
  <2> DEFINE r == [NoRequest EXCEPT !.pc = "readViews", !.order = order]
  <2>1. Reads(e, r)
    BY <1>11 DEF ReplyConfig
  <2>2. order \in Lists
    BY DEF Base, ViewsTypeOK
  <2>3. r \in ViewRequests /\ r.pc = "readViews"
    BY <2>2, RequestTypes DEF ViewRequests
  <2>4. InPhase(e, r) /\ r.pc \notin Holding /\ r.pc \notin {"append", "merge", "reply"}
    BY <2>3 DEF InPhase, Holding
  <2> HIDE DEF r
  <2> QED
    BY <2>1, <2>3, <2>4, ReadsBase
<1>12. ASSUME NEW e \in Lines, ReplyViews(e) PROVE Base'
  <2> DEFINE l == SchemaViews(request[e].order)
             r == [NoRequest EXCEPT !.pc = "reply", !.order = l, !.read = views]
  <2>1. Reads(e, r)
    BY <1>12 DEF ReplyViews
  <2>2. l \in Lists /\ Range(l) = Existing
    BY RequestOf, SchemaViewsFacts DEF Lists
  <2> HIDE DEF l
  <2>3. r \in ViewRequests /\ r.pc = "reply" /\ r.order = l /\ r.read = views
    BY <2>2, RequestTypes DEF ViewRequests, Base, ViewsTypeOK
  <2>4. InPhase(e, r) /\ r.pc \notin Holding /\ r.pc \notin {"append", "merge"}
    BY <2>3 DEF InPhase, Holding
  <2>5. ListsItsViews(r.order, r.read)
    BY <2>2, <2>3 DEF ListsItsViews, Existing, Exists
  <2> HIDE DEF r
  <2> QED
    BY <2>1, <2>3, <2>4, <2>5, ReadsBase
<1>13. ASSUME NEW e \in Lines, request' = [request EXCEPT ![e] = NoRequest], views' = views,
              ViewsTypeOK', \A p \in Pages : ListsItsViews(schema'[p].list, schema'[p].config)
       PROVE  Base'
  <2>1. InPhase(e, NoRequest) /\ NoRequest.pc \notin Holding
          /\ NoRequest.pc \notin {"append", "merge", "reply"}
    BY RequestTypes DEF InPhase, Holding
  <2> QED
    BY <1>13, <2>1, RequestTypes, LineMoves
<1>14. ASSUME NEW e \in Lines, ApplySchema(e) PROVE Base'
  <2> DEFINE s == [list |-> request[e].order, config |-> request[e].read]
  <2>1. /\ request[e].pc = "reply" /\ schema' = [schema EXCEPT ![Page(e)] = s]
        /\ request' = [request EXCEPT ![e] = NoRequest]
        /\ UNCHANGED <<views, order, default, queue, disturbed, asked, failures>>
    BY <1>14 DEF ApplySchema
  <2>2. s \in Schemas /\ Page(e) \in Pages
    BY RequestOf DEF Schemas, Lists, Lines, Page
  <2>3. ViewsTypeOK'
    BY <2>1, <2>2, RequestTypes DEF Base, ViewsTypeOK
  <2>4. ListsItsViews(request[e].order, request[e].read)
    BY <2>1 DEF Base, Listed
  <2>5. ASSUME NEW p \in Pages PROVE ListsItsViews(schema'[p].list, schema'[p].config)
    <3>1. CASE p = Page(e)
      BY <2>1, <2>2, <2>4, <3>1 DEF Base, ViewsTypeOK
    <3>2. CASE p # Page(e)
      BY <2>1, <3>2 DEF Base, ViewsTypeOK, Listed
    <3> QED
      BY <3>1, <3>2
  <2> QED
    BY <2>1, <2>3, <2>5, <1>13
<1>15. ASSUME NEW e \in Lines, Fails(e) PROVE Base'
  <2>1. ViewsTypeOK'
    BY <1>15, RequestTypes, ViewsAssumption DEF Fails, Base, ViewsTypeOK
  <2>2. \A p \in Pages : ListsItsViews(schema'[p].list, schema'[p].config)
    BY <1>15 DEF Fails, Base, Listed
  <2>3. views' = views /\ request' = [request EXCEPT ![e] = NoRequest]
    BY <1>15 DEF Fails
  <2> QED
    BY <2>1, <2>2, <2>3, <1>13
<1>16. ASSUME NEW p \in Pages, Configure(p) PROVE Base'
  <2>2. PICK edit \in Edits : Enqueue(p, edit)
    BY <1>16, ConfigureEnqueues
  <2>3. ViewsTypeOK'
    BY <2>2, ViewsAssumption DEF Enqueue, Base, ViewsTypeOK
  <2> QED
    BY <2>2, <2>3 DEF Enqueue, Base, Locked, Phases, Listed, Holds, Exists
<1>17. ASSUME NEW p \in Pages, Dequeue(p) PROVE Base'
  <2> DEFINE e == QueueOf(p)
             edit == Head(queue[p])
             r == QueuedRequest(p, edit)
  <2>1. /\ request' = [request EXCEPT ![e] = r] /\ queue[p] # <<>>
             /\ queue' = [queue EXCEPT ![p] = Tail(@)]
        /\ UNCHANGED <<views, order, default, schema, disturbed, asked, failures>>
    BY <1>17 DEF Dequeue
  <2>2. e \in Lines
    BY DEF Lines, QueueOf
  <2>3. edit \in Edits /\ Tail(queue[p]) \in Seq(Edits)
    BY <2>1 DEF Base, ViewsTypeOK
  <2>4. edit.view \in 0 .. MaxView /\ edit.change \in Patches
    BY <2>3 DEF Edits
  <2> HIDE DEF e, edit
  <2>5. r \in ViewRequests /\ InPhase(e, r) /\ r.pc \in {"idle", "check", "patch"}
    <3>1. CASE edit.op = "default"
      <4>1. r = [NoRequest EXCEPT !.pc = "check", !.view = edit.view, !.parts = {"default"}]
        BY <3>1 DEF QueuedRequest
      <4>2. r.pc = "check" /\ r.parts = {"default"}
        BY <4>1, RequestTypes DEF ViewRequests
      <4>3. r \in ViewRequests
        <5>1. {"default"} \in SUBSET {"order", "default"}
          OBVIOUS
        <5> QED
          BY <2>4, <4>1, <5>1, RequestTypes DEF ViewRequests
      <4> QED
        BY <4>2, <4>3 DEF InPhase
    <3>2. CASE edit.op # "default" /\ edit.view \notin Range(schema[p].list)
      BY <3>2, RequestTypes DEF QueuedRequest, InPhase
    <3>3. CASE edit.op # "default" /\ edit.view \in Range(schema[p].list)
      <4> DEFINE m == Sent(Merge(schema[p].config[edit.view], edit.change))
      <4>1. r = [NoRequest EXCEPT !.pc = "patch", !.view = edit.view, !.edit = edit.change,
              !.patch = m]
        BY <3>3 DEF QueuedRequest
      <4>2. m \in Patches /\ edit.view \in Views
        BY <3>3, <2>4, SeenViews, MergeFacts
      <4> HIDE DEF m
      <4>3. r \in ViewRequests /\ r.pc = "patch" /\ r.view = edit.view
        BY <2>4, <4>1, <4>2, RequestTypes DEF ViewRequests
      <4> QED
        BY <4>2, <4>3 DEF InPhase
    <3> QED
      BY <3>1, <3>2, <3>3
  <2> HIDE DEF r
  <2>6. ViewsTypeOK'
    BY <2>1, <2>2, <2>3, <2>5 DEF Base, ViewsTypeOK
  <2>7. \A q \in Pages : ListsItsViews(schema'[q].list, schema'[q].config)
    BY <2>1 DEF Base, Listed
  <2>8. r.pc \notin Holding /\ r.pc \notin {"append", "merge", "reply"}
    BY <2>5 DEF Holding
  <2> QED
    BY <2>1, <2>2, <2>5, <2>6, <2>7, <2>8, LineMoves
<1>18. CASE UNCHANGED viewsVars
  BY <1>18 DEF viewsVars, Base, ViewsTypeOK, Locked, Phases, Listed, Holds, Exists
<1> QED
  BY BeginBase, <1>1, <1>2, <1>3, <1>4, <1>5, <1>6, <1>7, <1>8, <1>9, <1>10, <1>11, <1>12,
     <1>14, <1>15, <1>16, <1>17, <1>18 DEF ViewsNext

\* Only a commit changes the rows.
LEMMA RowsChange ==
    ASSUME Base, [ViewsNext]_viewsVars
    PROVE  views' # views =>
               \E e \in Lines : AppendToOrder(e) \/ StripConfig(e) \/ WriteView(e)
<1>1. ASSUME NEW e \in Lines, Begin(e) PROVE views' = views
  BY <1>1, BeginAsks DEF Asked, Asks
<1>2. ASSUME NEW e \in Lines,
             InsertView(e) \/ DeleteRow(e) \/ ReadConfig(e) \/ SelectForUpdate(e)
             \/ CheckDefault(e) \/ ReplyConfig(e) \/ ReplyViews(e)
      PROVE  views' = views
  BY <1>2 DEF InsertView, DeleteRow, ReadConfig, SelectForUpdate, CheckDefault, ReplyConfig,
              ReplyViews, Reads
<1>3. ASSUME NEW e \in Lines, WriteOrder(e) \/ WriteDefault(e) PROVE views' = views
  BY <1>3 DEF WriteOrder, WriteDefault, Commits
<1>4. ASSUME NEW e \in Lines, ApplySchema(e) \/ Fails(e) PROVE views' = views
  BY <1>4 DEF ApplySchema, Fails
<1>5. ASSUME NEW p \in Pages, Configure(p) \/ Dequeue(p) PROVE views' = views
  BY <1>5 DEF Configure, Enqueue, Dequeue
<1>6. CASE UNCHANGED viewsVars
  BY <1>6 DEF viewsVars
<1> QED
  BY <1>1, <1>2, <1>3, <1>4, <1>5, <1>6 DEF ViewsNext

LEMMA PatchesStep == Base /\ [ViewsNext]_viewsVars => OnlyPatchesChange
<1> SUFFICES ASSUME Base, [ViewsNext]_viewsVars,
                    NEW v \in Existing, NEW f \in Fields,
                    Exists(v)', views'[v][f] # views[v][f]
             PROVE  \E e \in Lines : /\ request[e].pc = "merge" /\ request[e].view = v
                                     /\ f \in DOMAIN request[e].patch
  BY DEF OnlyPatchesChange
<1>1. v \in Views /\ views[v] # NoView /\ views'[v] # NoView
        /\ views \in [Views -> Configs \cup {NoView}]
  BY DEF Existing, Exists, Base, ViewsTypeOK
<1>2. PICK e \in Lines : AppendToOrder(e) \/ StripConfig(e) \/ WriteView(e)
  BY RowsChange
<1>3. ASSUME AppendToOrder(e) PROVE FALSE
  <2>1. /\ request[e].view \in Views /\ ~Exists(request[e].view)
        /\ views' = [views EXCEPT ![request[e].view] = NoKeys]
    BY <1>3, AppendCommits DEF Commits
  <2> QED
    BY <1>1, <2>1 DEF Exists
<1>4. ASSUME StripConfig(e) PROVE FALSE
  <2>1. views' = [views EXCEPT ![request[e].view] = NoView]
    BY <1>4 DEF StripConfig, Commits
  <2> QED
    BY <1>1, <2>1
<1>5. ASSUME WriteView(e)
      PROVE  /\ request[e].pc = "merge" /\ request[e].view = v
             /\ f \in DOMAIN request[e].patch
  <2>1. request[e].pc = "merge"
    BY <1>5 DEF WriteView
  <2>2. views' = [views EXCEPT ![request[e].view] = Merge(views[request[e].view], request[e].patch)]
    BY <1>5, WriteCommits DEF Commits
  <2>3. request[e].view = v
    BY <1>1, <2>2
  <2>4. views'[v][f] = IF f \in DOMAIN request[e].patch THEN request[e].patch[f] ELSE views[v][f]
    BY <1>1, <2>2, <2>3 DEF Merge
  <2> QED
    BY <2>1, <2>3, <2>4
<1> QED
  BY <1>2, <1>3, <1>4, <1>5

-----------------------------------------------------------------------------
(* As long as nothing has disturbed the pages. *)

LEMMA LineFacts ==
    /\ \A p \in Pages : QueueOf(p) \in Lines /\ Page(QueueOf(p)) = p /\ QueueOf(p)[2] = "queue"
    /\ \A e \in Lines : Page(e) \in Pages /\ (e[2] = "queue" => e = QueueOf(Page(e)))
    /\ \A p, q \in Pages : QueueOf(p) = QueueOf(q) => p = q
BY DEF Lines, QueueOf, Page

\* A line at work is the only one, and nothing waits in other queues.
LEMMA Alone ==
    ASSUME Undisturbed, NEW e \in Lines, request[e].pc # "idle"
    PROVE  /\ e \in Busy
           /\ \A o \in Lines \ {e} : request[o].pc = "idle"
           /\ \A p \in Pages : QueueOf(p) # e => queue[p] = <<>>
<1>1. e \in Busy
  BY DEF Busy
<1>2. \A o \in Busy : o = e
  BY <1>1 DEF Undisturbed
<1> QED
  BY <1>1, <1>2, LineFacts DEF Busy

\* What remains to be shown of a step of the only line at work.
LEMMA StaysUndisturbed ==
    ASSUME Base, Undisturbed, NEW e \in Lines, request[e].pc # "idle",
           NEW r \in ViewRequests, r.pc # "idle",
           request' = [request EXCEPT ![e] = r], UNCHANGED <<schema, queue>>,
           OrderIsTheViews', DefaultExists',
           InAgreement(e, r)',
           e[2] = "queue" => \A v \in Existing : v \in Existing'
    PROVE  Undisturbed'
<1>1. request'[e] = r /\ \A o \in Lines \ {e} : request'[o] = request[o] /\ request'[o].pc = "idle"
  BY Alone DEF Base, ViewsTypeOK
<1>2. \A p \in Pages : queue'[p] = queue[p] /\ (QueueOf(p) # e => queue[p] = <<>>)
  BY Alone
<1>3. e \in Busy' /\ \A o \in Busy' : o = e
  <2>1. Busy' = {o \in Lines : request'[o].pc # "idle"}
          \cup {QueueOf(p) : p \in {q \in Pages : queue'[q] # <<>>}}
    BY DEF Busy, QueueOf
  <2> QED
    BY <1>1, <1>2, <2>1
<1>4. ASSUME NEW o \in Lines PROVE InAgreement(o, request[o])'
  <2>1. CASE o = e
    BY <1>1, <2>1 DEF InAgreement
  <2>2. CASE o # e
    BY <1>1, <2>2 DEF InAgreement
  <2> QED
    BY <2>1, <2>2
<1>5. ASSUME NEW p \in Pages PROVE QueueInAgreement(p)'
  <2>1. CASE QueueOf(p) # e
    <3>1. QueueOf(p) \notin Busy' /\ queue'[p] = <<>>
      BY <1>2, <1>3, <2>1
    <3> QED
      BY <3>1 DEF QueueInAgreement, QueueOf
  <2>2. CASE QueueOf(p) = e
    <3>1. QueueOf(p) \in Busy /\ QueueInAgreement(p) /\ e[2] = "queue"
      BY <2>2, Alone, LineFacts DEF Undisturbed
    <3>2. \A v \in Range(schema[p].list) : v \in Existing
      BY <3>1, SeenViews DEF QueueInAgreement, Existing
    <3>3. \A v \in Range(schema'[p].list) : v \in Existing'
      BY <3>1, <3>2
    <3>4. request'[QueueOf(p)].pc # "idle"
      BY <1>1, <2>2
    <3>5. \A n \in DOMAIN queue'[p] :
             queue'[p][n].view \in Existing' \cup IF queue'[p][n].op = "default" THEN {0} ELSE {}
      BY <3>1, <1>2 DEF QueueInAgreement
    <3> QED
      BY <3>3, <3>4, <3>5 DEF QueueInAgreement, Existing, QueueOf
  <2> QED
    BY <2>1, <2>2
<1>6. \A d, o \in Busy' : d = o
  BY <1>3
<1>7. Busy' # {}
  BY <1>3
<1> QED
  BY <1>4, <1>5, <1>6, <1>7 DEF Undisturbed

\* A new request begins when no other is at work and its page is up to date.
LEMMA AsksUndisturbed ==
    ASSUME Base, Undisturbed, NEW e \in Lines, NEW r \in ViewRequests, Asked(e, r),
           Busy = {}, UpToDate(Page(e))
    PROVE  Undisturbed'
<1>1. /\ e[2] = "direct" /\ request' = [request EXCEPT ![e] = r]
      /\ UNCHANGED <<views, order, default, schema, queue>>
  BY DEF Asked, Asks
<1>2. /\ \A o \in Lines : request[o].pc = "idle"
      /\ \A p \in Pages : queue[p] = <<>>
  BY LineFacts DEF Busy
<1>3. request'[e] = r /\ r.pc # "idle" /\ \A o \in Lines \ {e} : request'[o].pc = "idle"
  BY <1>1, <1>2 DEF Base, ViewsTypeOK, Asked
<1>4. Busy' = {e}
  <2>1. Busy' = {o \in Lines : request'[o].pc # "idle"}
          \cup {QueueOf(p) : p \in {q \in Pages : queue'[q] # <<>>}}
    BY DEF Busy, QueueOf
  <2> QED
    BY <1>1, <1>2, <1>3, <2>1
<1>5. OrderIsTheViews' /\ DefaultExists' /\ Existing' = Existing
  BY <1>1 DEF Undisturbed, OrderIsTheViews, DefaultExists, Existing, Exists
<1>6. InAgreement(e, r)
  <2>1. schema[Page(e)].list = order
    BY DEF UpToDate
  <2> QED
    BY <2>1 DEF Asked, Undisturbed, OrderIsTheViews
<1>7. InAgreement(e, r)'
  BY <1>1, <1>5, <1>6 DEF InAgreement, Exists
<1>8. ASSUME NEW o \in Lines PROVE InAgreement(o, request[o])'
  <2>1. CASE o = e
    BY <1>3, <1>7, <2>1 DEF InAgreement
  <2>2. CASE o # e
    BY <1>3, <2>2 DEF InAgreement
  <2> QED
    BY <2>1, <2>2
<1>9. ASSUME NEW p \in Pages PROVE QueueInAgreement(p)'
  <2>1. QueueOf(p) \notin Busy'
    BY <1>1, <1>4, LineFacts
  <2>2. queue'[p] = <<>>
    BY <1>1, <1>2
  <2> QED
    BY <2>1, <2>2 DEF QueueInAgreement, QueueOf
<1> QED
  BY <1>4, <1>5, <1>8, <1>9 DEF Undisturbed

LEMMA ReadsUndisturbed ==
    ASSUME Base, Undisturbed, NEW e \in Lines, request[e].pc # "idle",
           NEW r \in ViewRequests, r.pc # "idle", Reads(e, r), InAgreement(e, r)
    PROVE  Undisturbed'
<1>1. /\ request' = [request EXCEPT ![e] = r]
      /\ UNCHANGED <<views, order, default, schema, queue>>
  BY DEF Reads
<1>2. OrderIsTheViews' /\ DefaultExists' /\ Existing' = Existing
  BY <1>1 DEF Undisturbed, OrderIsTheViews, DefaultExists, Existing, Exists
<1>3. InAgreement(e, r)'
  BY <1>1, <1>2 DEF InAgreement, Exists
<1> QED
  BY <1>1, <1>2, <1>3, StaysUndisturbed

\* A commit that keeps the order, the default and the views in agreement.
LEMMA CommitsUndisturbed ==
    ASSUME Base, Undisturbed, NEW e \in Lines, request[e].pc # "idle",
           NEW r \in ViewRequests, r.pc # "idle",
           NEW newViews, NEW newOrder, NEW newDefault,
           Commits(e, newViews, newOrder, newDefault, r),
           OrderIsTheViews', DefaultExists',
           r.pc \in {"readConfig", "check"},
           r.pc = "check" => r.view \in Existing' \cup {0},
           e[2] = "queue" => \A v \in Existing : v \in Existing'
    PROVE  Undisturbed'
<1>1. request' = [request EXCEPT ![e] = r] /\ UNCHANGED <<schema, queue>>
  BY DEF Commits
<1>2. InAgreement(e, r)'
  BY DEF InAgreement
<1> QED
  BY <1>1, <1>2, StaysUndisturbed

LEMMA CommitsStep ==
    ASSUME Base, Undisturbed, NEW e \in Lines,
           \/ AppendToOrder(e) \/ StripConfig(e) \/ WriteView(e)
           \/ WriteOrder(e) \/ WriteDefault(e)
    PROVE  Undisturbed'
<1>0. /\ order \in Seq(Views) /\ views \in [Views -> Configs \cup {NoView}]
      /\ Range(order) = Existing /\ IsInjective(order) /\ (default = 0 \/ Exists(default))
      /\ Existing = {v \in Views : views[v] # NoView} /\ default \in 0 .. MaxView
      /\ InAgreement(e, request[e]) /\ InPhase(e, request[e])
  BY RequestOf DEF Base, ViewsTypeOK, Lists, Undisturbed, OrderIsTheViews, DefaultExists, Existing,
       Exists
<1>1. ASSUME AppendToOrder(e) PROVE Undisturbed'
  <2> DEFINE v == request[e].view
             w == [views EXCEPT ![v] = NoKeys]
  <2>1. v \in Views /\ v \notin Existing /\ Commits(e, w, Append(order, v), default, Replying)
    BY <1>1, AppendCommits DEF Existing
  <2>2. views' = w /\ order' = Append(order, v) /\ default' = default /\ request[e].pc # "idle"
    BY <1>1, <2>1 DEF Commits, AppendToOrder
  <2>3. Existing' = Existing \cup {v}
    BY <1>0, <2>1, <2>2, ConfigFacts DEF Existing, Exists
  <2>4. OrderIsTheViews'
    <3>1. Range(Append(order, v)) = Existing \cup {v} /\ IsInjective(Append(order, v))
      BY <1>0, <2>1, AppendFacts
    <3> QED
      BY <2>2, <2>3, <3>1 DEF OrderIsTheViews
  <2>5. DefaultExists'
    BY <1>0, <2>1, <2>2, ConfigFacts DEF DefaultExists, Exists
  <2> HIDE DEF w
  <2> QED
    BY <2>1, <2>2, <2>3, <2>4, <2>5, RequestTypes, CommitsUndisturbed
<1>2. ASSUME StripConfig(e) PROVE Undisturbed'
  <2> DEFINE v == request[e].view
             d == IF request[e].default = v THEN 0 ELSE request[e].default
             w == [views EXCEPT ![v] = NoView]
  <2>1. request[e].pc = "strip" /\ request[e].order = order /\ request[e].default = default
    BY <1>0, <1>2 DEF StripConfig, InAgreement
  <2>2. v \in Views /\ Commits(e, w, Without(request[e].order, v), d, Replying)
    BY <1>2, StripCommits
  <2>3. views' = w /\ order' = Without(order, v) /\ default' = d
    BY <2>1, <2>2 DEF Commits
  <2>4. Existing' = Existing \ {v}
    BY <1>0, <2>2, <2>3 DEF Existing, Exists
  <2>5. OrderIsTheViews'
    <3>1. Range(Without(order, v)) = Existing \ {v} /\ IsInjective(Without(order, v))
      BY <1>0, WithoutFacts
    <3> QED
      BY <2>3, <2>4, <3>1 DEF OrderIsTheViews
  <2>6. DefaultExists'
    BY <1>0, <2>1, <2>2, <2>3 DEF DefaultExists, Exists
  <2>7. e[2] # "queue"
    BY <1>0, <2>1 DEF InPhase
  <2> HIDE DEF w, d
  <2> QED
    BY <2>1, <2>2, <2>5, <2>6, <2>7, RequestTypes, CommitsUndisturbed
<1>3. ASSUME WriteView(e) PROVE Undisturbed'
  <2> DEFINE v == request[e].view
             m == Merge(views[v], request[e].patch)
             w == [views EXCEPT ![v] = m]
  <2>1. v \in Views /\ m \in Configs /\ Commits(e, w, order, default, Replying)
    BY <1>3, WriteCommits
  <2>2. request[e].pc = "merge" /\ views[v] \in Configs
    BY <1>3, RequestOf DEF WriteView
  <2> HIDE DEF m
  <2>3. views' = w /\ order' = order /\ default' = default
    BY <2>1 DEF Commits
  <2>4. Existing' = Existing
    BY <1>0, <2>1, <2>2, <2>3, ConfigFacts DEF Existing, Exists
  <2>5. OrderIsTheViews'
    BY <1>0, <2>3, <2>4 DEF OrderIsTheViews
  <2>6. DefaultExists'
    BY <1>0, <2>1, <2>2, <2>3, ConfigFacts DEF DefaultExists, Exists
  <2> HIDE DEF w
  <2> QED
    BY <2>1, <2>2, <2>4, <2>5, <2>6, RequestTypes, CommitsUndisturbed
<1>4. ASSUME WriteOrder(e) PROVE Undisturbed'
  <2> DEFINE parts == request[e].parts \ {"order"}
  <2>0. PICK r : r = Patching(e, parts)
    OBVIOUS
  <2>1. /\ request[e].pc = "order" /\ Commits(e, views, request[e].order, default, r)
        /\ Range(request[e].order) = Existing /\ IsInjective(request[e].order)
        /\ request[e].view \in Existing \cup {0}
    BY <1>0, <1>4, <2>0 DEF WriteOrder, InAgreement
  <2>2. views' = views /\ order' = request[e].order /\ default' = default
    BY <2>1 DEF Commits
  <2>3. Existing' = Existing /\ OrderIsTheViews' /\ DefaultExists'
    BY <1>0, <2>1, <2>2 DEF OrderIsTheViews, DefaultExists, Existing, Exists
  <2>4. /\ r \in ViewRequests /\ r.pc \in {"readConfig", "check"}
        /\ r.pc = "check" => r.view = request[e].view
    <3>1. parts \in SUBSET {"order", "default"} /\ "order" \notin parts
      BY RequestOf
    <3> HIDE DEF parts
    <3> QED
      BY <2>0, <3>1, PatchingFacts, RequestTypes
  <2> QED
    BY <2>1, <2>3, <2>4, CommitsUndisturbed
<1>5. ASSUME WriteDefault(e) PROVE Undisturbed'
  <2>1. /\ request[e].pc = "default" /\ request[e].parts = {"default"}
        /\ request[e].view \in Existing \cup {0}
    BY <1>0, <1>5 DEF WriteDefault, InAgreement, InPhase
  <2>2. Patching(e, request[e].parts \ {"default"}) = Replying
    BY <2>1 DEF Patching
  <2>3. Commits(e, views, order, request[e].view, Replying)
    BY <1>5, <2>2 DEF WriteDefault
  <2>4. views' = views /\ order' = order /\ default' = request[e].view
    BY <2>3 DEF Commits
  <2>5. Existing' = Existing /\ OrderIsTheViews' /\ DefaultExists'
    BY <1>0, <2>1, <2>4 DEF OrderIsTheViews, DefaultExists, Existing, Exists
  <2> QED
    BY <2>1, <2>3, <2>5, RequestTypes, CommitsUndisturbed
<1> QED
  BY <1>1, <1>2, <1>3, <1>4, <1>5

LEMMA ReadsStep ==
    ASSUME Base, Undisturbed, NEW e \in Lines,
           \/ InsertView(e) \/ DeleteRow(e) \/ ReadConfig(e) \/ SelectForUpdate(e)
           \/ CheckDefault(e) \/ ReplyConfig(e) \/ ReplyViews(e)
    PROVE  Undisturbed'
<1>0. /\ InAgreement(e, request[e]) /\ InPhase(e, request[e])
      /\ order \in Seq(Views) /\ Range(order) = Existing
  BY RequestOf DEF Base, ViewsTypeOK, Lists, Undisturbed, OrderIsTheViews
<1>1. ASSUME InsertView(e) PROVE Undisturbed'
  <2>1. PICK r : r = [request[e] EXCEPT !.pc = "append"]
    OBVIOUS
  <2>2. request[e].pc = "insert" /\ Reads(e, r)
    BY <1>0, <1>1, <2>1 DEF InsertView, InAgreement
  <2>3. r \in ViewRequests /\ r.pc = "append"
    <3>1. r \in ViewRequests
      BY <2>1, RequestOf DEF ViewRequests
    <3>2. r.pc = "append"
      BY <2>1, RequestOf DEF ViewRequests
    <3> QED
      BY <3>1, <3>2
  <2>4. InAgreement(e, r)
    BY <2>3 DEF InAgreement
  <2> QED
    BY <2>2, <2>3, <2>4, ReadsUndisturbed
<1>2. ASSUME DeleteRow(e) PROVE Undisturbed'
  <2>1. PICK r : r = [request[e] EXCEPT !.pc = "read"]
    OBVIOUS
  <2>2. request[e].pc = "lock" /\ Reads(e, r)
    BY <1>0, <1>2, <2>1 DEF DeleteRow, InAgreement
  <2>3. r \in ViewRequests /\ r.pc = "read" /\ r.view = request[e].view
    BY <2>1, RequestOf DEF ViewRequests
  <2>4. InAgreement(e, r)
    BY <1>0, <2>2, <2>3 DEF InAgreement
  <2> QED
    BY <2>2, <2>3, <2>4, ReadsUndisturbed
<1>3. ASSUME ReadConfig(e) PROVE Undisturbed'
  <2>1. PICK r : r = [request[e] EXCEPT !.pc = "strip", !.order = order, !.default = default]
    OBVIOUS
  <2>2. request[e].pc = "read" /\ Reads(e, r)
    BY <1>3, <2>1 DEF ReadConfig
  <2>3. order \in Lists /\ default \in 0 .. MaxView
    BY DEF Base, ViewsTypeOK
  <2>4. /\ r \in ViewRequests /\ r.pc = "strip" /\ r.view = request[e].view
        /\ r.order = order /\ r.default = default
    <3>1. r \in ViewRequests
      <4>1. [request[e] EXCEPT !.pc = "strip", !.order = order,
              !.default = default] \in ViewRequests
        BY <2>3, RequestOf, RequestWith
      <4> QED
        BY <2>1, <4>1
    <3>2. r.pc = "strip" /\ r.view = request[e].view /\ r.order = order /\ r.default = default
      BY <2>1, <2>3, RequestOf DEF ViewRequests
    <3> QED
      BY <3>1, <3>2
  <2>5. InAgreement(e, r)
    BY <1>0, <2>2, <2>4 DEF InAgreement
  <2> QED
    BY <2>2, <2>4, <2>5, ReadsUndisturbed
<1>4. ASSUME SelectForUpdate(e) PROVE Undisturbed'
  <2>1. PICK r : r = [request[e] EXCEPT !.pc = "merge", !.row = views[request[e].view]]
    OBVIOUS
  <2>2. request[e].pc = "patch" /\ Reads(e, r)
    BY <1>0, <1>4, <2>1 DEF SelectForUpdate, InAgreement
  <2>3. request[e].view \in Views /\ views[request[e].view] \in Patches
    BY <1>0, <2>2, ConfigFacts DEF InPhase, Base, ViewsTypeOK
  <2>4. /\ r \in ViewRequests /\ r.pc = "merge" /\ r.view = request[e].view
        /\ r.patch = request[e].patch /\ r.edit = request[e].edit
    <3>1. r \in ViewRequests
      <4>1. [request[e] EXCEPT !.pc = "merge", !.row = views[request[e].view]] \in ViewRequests
        BY <2>3, RequestOf, RequestWith
      <4> QED
        BY <2>1, <4>1
    <3>2. r.pc = "merge" /\ r.view = request[e].view /\ r.patch = request[e].patch
            /\ r.edit = request[e].edit
      BY <2>1, <2>3, RequestOf DEF ViewRequests
    <3> QED
      BY <3>1, <3>2
  <2>5. InAgreement(e, r)
    BY <1>0, <2>2, <2>4 DEF InAgreement
  <2> QED
    BY <2>2, <2>4, <2>5, ReadsUndisturbed
<1>5. ASSUME CheckDefault(e) PROVE Undisturbed'
  <2>1. PICK r : r = [request[e] EXCEPT !.pc = "default"]
    OBVIOUS
  <2>2. request[e].pc = "check" /\ request[e].view \in Existing \cup {0}
    BY <1>0, <1>5 DEF CheckDefault, InAgreement
  <2>3. Reads(e, r)
    BY <1>5, <2>1, <2>2 DEF CheckDefault, Existing
  <2>4. r \in ViewRequests /\ r.pc = "default" /\ r.view = request[e].view
    BY <2>1, RequestOf DEF ViewRequests
  <2>5. InAgreement(e, r)
    BY <2>2, <2>4 DEF InAgreement
  <2> QED
    BY <2>2, <2>3, <2>4, <2>5, ReadsUndisturbed
<1>6. ASSUME ReplyConfig(e) PROVE Undisturbed'
  <2>1. PICK r : r = [NoRequest EXCEPT !.pc = "readViews", !.order = order]
    OBVIOUS
  <2>2. request[e].pc = "readConfig" /\ Reads(e, r)
    BY <1>6, <2>1 DEF ReplyConfig
  <2>3. r \in ViewRequests /\ r.pc = "readViews" /\ r.order = order
    BY <2>1, RequestTypes DEF ViewRequests, Base, ViewsTypeOK
  <2>4. InAgreement(e, r)
    BY <2>3 DEF InAgreement
  <2> QED
    BY <2>2, <2>3, <2>4, ReadsUndisturbed
<1>7. ASSUME ReplyViews(e) PROVE Undisturbed'
  <2>1. request[e].pc = "readViews" /\ request[e].order = order
    BY <1>0, <1>7 DEF ReplyViews, InAgreement
  <2>2. SchemaViews(request[e].order) = order
    BY <1>0, <2>1, SchemaViewsFacts
  <2>3. PICK r : r = [NoRequest EXCEPT !.pc = "reply", !.order = order, !.read = views]
    OBVIOUS
  <2>4. Reads(e, r)
    BY <1>7, <2>2, <2>3 DEF ReplyViews
  <2>5. r \in ViewRequests /\ r.pc = "reply" /\ r.order = order /\ r.read = views
    BY <2>3, RequestTypes DEF ViewRequests, Base, ViewsTypeOK
  <2>6. InAgreement(e, r)
    BY <2>5 DEF InAgreement
  <2> QED
    BY <2>1, <2>4, <2>5, <2>6, ReadsUndisturbed
<1> QED
  BY <1>1, <1>2, <1>3, <1>4, <1>5, <1>6, <1>7

LEMMA ApplyStep ==
    ASSUME Base, Undisturbed, NEW e \in Lines, ApplySchema(e)
    PROVE  Undisturbed'
<1>1. /\ request[e].pc = "reply" /\ request' = [request EXCEPT ![e] = NoRequest]
      /\ schema' = [schema EXCEPT ![Page(e)] = [list |-> request[e].order,
                                                  config |-> request[e].read]]
      /\ UNCHANGED <<views, order, default, queue>>
  BY DEF ApplySchema
<1>2. request[e].order = order /\ request[e].read = views
  BY <1>1 DEF Undisturbed, InAgreement
<1>3. Page(e) \in Pages /\ schema'[Page(e)] = [list |-> order', config |-> views']
  BY <1>1, <1>2, LineFacts DEF Base, ViewsTypeOK
<1>4. \A o \in Lines : request'[o].pc = "idle"
  BY <1>1, Alone, RequestTypes DEF Base, ViewsTypeOK
<1>5. \A p \in Pages : QueueOf(p) # e => queue'[p] = <<>>
  BY <1>1, Alone
<1>6. Busy' \subseteq {e}
  <2>1. Busy' = {o \in Lines : request'[o].pc # "idle"}
          \cup {QueueOf(p) : p \in {q \in Pages : queue'[q] # <<>>}}
    BY DEF Busy, QueueOf
  <2> QED
    BY <1>4, <1>5, <2>1
<1>7. OrderIsTheViews' /\ DefaultExists' /\ Existing' = Existing
  BY <1>1 DEF Undisturbed, OrderIsTheViews, DefaultExists, Existing, Exists
<1>8. UpToDate(Page(e))'
  BY <1>3 DEF UpToDate, Page
<1>9. ASSUME NEW o \in Lines PROVE InAgreement(o, request[o])'
  BY <1>4 DEF InAgreement
<1>10. ASSUME NEW p \in Pages PROVE QueueInAgreement(p)'
  <2>1. CASE QueueOf(p) # e
    <3>1. QueueOf(p) \notin Busy' /\ queue'[p] = <<>>
      BY <1>5, <1>6, <2>1
    <3> QED
      BY <3>1 DEF QueueInAgreement, QueueOf
  <2>2. CASE QueueOf(p) = e
    <3>1. p = Page(e) /\ QueueInAgreement(p) /\ e[2] = "queue"
      BY <2>2, LineFacts DEF Undisturbed
    <3>2. Range(schema'[p].list) = Existing'
      BY <1>3, <1>7, <3>1 DEF OrderIsTheViews
    <3>3. \A n \in DOMAIN queue'[p] :
              queue'[p][n].view \in Existing' \cup IF queue'[p][n].op = "default" THEN {0} ELSE {}
      BY <1>1, <1>7, <3>1 DEF QueueInAgreement
    <3>4. UpToDate(p)'
      BY <1>3, <3>1 DEF UpToDate
    <3> QED
      BY <3>2, <3>3, <3>4 DEF QueueInAgreement, QueueOf, Existing
  <2> QED
    BY <2>1, <2>2
<1>11. \A d, o \in Busy' : d = o
  BY <1>6
<1>12. \E p \in Pages : UpToDate(p)'
  BY <1>3, <1>8 DEF UpToDate, Page
<1> QED
  BY <1>7, <1>9, <1>10, <1>11, <1>12 DEF Undisturbed

LEMMA EnqueueStep ==
    ASSUME Base, Undisturbed, NEW p \in Pages, Configure(p), ~disturbed'
    PROVE  Undisturbed'
<1> DEFINE e == QueueOf(p)
<1>0. e \in Lines /\ \A q \in Pages : q # p => QueueOf(q) # e
  BY LineFacts
<1>1. PICK edit \in Edits :
          /\ Enqueue(p, edit)
          /\ \/ edit.view \in Range(schema[p].list)
             \/ edit.op = "default" /\ edit.view = 0
  BY ConfigureEnqueues
<1>2. /\ queue' = [queue EXCEPT ![p] = Append(@, edit)]
      /\ Busy \ {e} = {} /\ (Busy = {} => UpToDate(p))
      /\ UNCHANGED <<views, order, default, schema, request>>
  BY <1>1 DEF Enqueue
<1>3. OrderIsTheViews' /\ DefaultExists' /\ Existing' = Existing
  BY <1>2 DEF Undisturbed, OrderIsTheViews, DefaultExists, Existing, Exists
<1>4. queue'[p] = Append(queue[p], edit) /\ \A q \in Pages : q # p => queue'[q] = queue[q]
  BY <1>2 DEF Base, ViewsTypeOK
<1>5. \A v \in Range(schema[p].list) : v \in Existing
  <2>1. CASE Busy = {}
    BY <1>2, <2>1 DEF UpToDate, Undisturbed, OrderIsTheViews
  <2>2. CASE e \in Busy
    BY <2>2, SeenViews DEF Undisturbed, QueueInAgreement, Existing
  <2> QED
    BY <1>2, <2>1, <2>2
<1>6. \A q \in Pages : q # p => queue'[q] = <<>>
  BY <1>0, <1>2, <1>4 DEF Busy
<1>7. queue[p] \in Seq(Edits) /\ queue'[p] # <<>>
  BY <1>4 DEF Base, ViewsTypeOK
<1>8. Busy' = {e}
  <2>1. Busy' = {o \in Lines : request'[o].pc # "idle"}
          \cup {QueueOf(q) : q \in {x \in Pages : queue'[x] # <<>>}}
    BY DEF Busy, QueueOf
  <2>2. \A o \in Lines : request'[o].pc # "idle" => o = e
    BY <1>2 DEF Busy
  <2> HIDE DEF e
  <2>3. e = QueueOf(p)
    BY DEF e
  <2> QED
    BY <1>6, <1>7, <2>1, <2>2, <2>3
<1>9. ASSUME NEW o \in Lines PROVE InAgreement(o, request[o])'
  <2>1. InAgreement(o, request[o])
    BY DEF Undisturbed
  <2> QED
    BY <1>2, <1>3, <2>1 DEF InAgreement, Exists
<1>10. ASSUME NEW q \in Pages PROVE QueueInAgreement(q)'
  <2>1. CASE q # p
    <3>1. QueueOf(q) \notin Busy' /\ queue'[q] = <<>>
      BY <1>0, <1>6, <1>8, <2>1
    <3> QED
      BY <3>1 DEF QueueInAgreement, QueueOf
  <2>2. CASE q = p
    <3>1. \A v \in Range(schema'[q].list) : v \in Existing'
      BY <1>2, <1>3, <1>5, <2>2
    <3>2. request'[QueueOf(q)].pc = "idle" => UpToDate(q)
      <4>1. CASE Busy = {}
        BY <1>2, <2>2, <4>1
      <4>2. CASE Busy # {}
        <5>1. QueueOf(p) \in Busy
          BY <1>2, <4>2
        <5>2. request[QueueOf(p)].pc = "idle" => queue[p] # <<>>
          BY <5>1, LineFacts DEF Busy
        <5> QED
          BY <1>2, <2>2, <5>2 DEF Undisturbed, QueueInAgreement
      <4> QED
        BY <4>1, <4>2
    <3>3. UpToDate(q)' <=> UpToDate(q)
      BY <1>2 DEF UpToDate
    <3>4. ASSUME NEW n \in DOMAIN queue'[q]
          PROVE  queue'[q][n].view \in Existing'
                   \cup IF queue'[q][n].op = "default" THEN {0} ELSE {}
      <4>1. DOMAIN queue'[q] = 1 .. Len(queue[p]) + 1 /\ DOMAIN queue[p] = 1 .. Len(queue[p])
              /\ Len(queue[p]) \in Nat
        BY <1>4, <1>7, <2>2
      <4>2. CASE n = Len(queue[p]) + 1
        <5>1. queue'[q][n] = edit
          BY <1>4, <1>7, <2>2, <4>2
        <5> QED
          BY <1>1, <1>3, <1>5, <5>1
      <4>3. CASE n # Len(queue[p]) + 1
        <5>1. n \in DOMAIN queue[p] /\ queue'[q][n] = queue[p][n]
          BY <1>4, <1>7, <2>2, <4>1, <4>3
        <5>2. QueueInAgreement(p)
          BY DEF Undisturbed
        <5> QED
          BY <1>3, <5>1, <5>2 DEF QueueInAgreement
      <4> QED
        BY <4>2, <4>3
    <3> QED
      BY <3>1, <3>2, <3>3, <3>4 DEF QueueInAgreement, Existing, QueueOf
  <2> QED
    BY <2>1, <2>2
<1>11. \A d, o \in Busy' : d = o
  BY <1>8
<1>12. Busy' # {}
  BY <1>8
<1> QED
  BY <1>3, <1>9, <1>10, <1>11, <1>12 DEF Undisturbed

LEMMA DequeueStep ==
    ASSUME Base, Undisturbed, NEW p \in Pages, Dequeue(p)
    PROVE  Undisturbed'
<1>1. PICK e : e = QueueOf(p)
  OBVIOUS
<1>2. PICK edit : edit = Head(queue[p])
  OBVIOUS
<1>3. PICK r : r = QueuedRequest(p, edit)
  OBVIOUS
<1>4. /\ e \in Lines /\ e[2] = "queue" /\ Page(e) = p
      /\ \A q \in Pages : q # p => QueueOf(q) # e
  BY <1>1, LineFacts
<1>5. /\ queue[p] # <<>> /\ request[e].pc = "idle"
      /\ queue' = [queue EXCEPT ![p] = Tail(@)] /\ request' = [request EXCEPT ![e] = r]
      /\ UNCHANGED <<views, order, default, schema>>
  BY <1>1, <1>2, <1>3 DEF Dequeue
<1>6. QueueInAgreement(p) /\ UpToDate(p)
  BY <1>1, <1>5 DEF Undisturbed, QueueInAgreement
<1>7. schema[p].list = order /\ schema[p].config = views /\ Range(order) = Existing
  BY <1>6 DEF UpToDate, Undisturbed, OrderIsTheViews
<1>8. queue[p] \in Seq(Edits) /\ Len(queue[p]) >= 1 /\ edit = queue[p][1] /\ edit \in Edits
  BY <1>2, <1>5 DEF Base, ViewsTypeOK
<1>9. edit.view \in Existing \cup IF edit.op = "default" THEN {0} ELSE {}
  BY <1>6, <1>8 DEF QueueInAgreement
<1>10. r.pc # "idle" /\ InAgreement(e, r)
  <2>1. CASE edit.op = "default"
    <3>1. r = [NoRequest EXCEPT !.pc = "check", !.view = edit.view, !.parts = {"default"}]
      BY <1>3, <2>1 DEF QueuedRequest
    <3>2. r.pc = "check" /\ r.view = edit.view
      BY <3>1, RequestTypes DEF ViewRequests
    <3> QED
      BY <1>9, <3>2 DEF InAgreement
  <2>2. CASE edit.op # "default"
    <3>1. edit.view \in Existing
      BY <1>9, <2>2
    <3>2. r = [NoRequest EXCEPT !.pc = "patch", !.view = edit.view, !.edit = edit.change,
                                !.patch = Sent(Merge(views[edit.view], edit.change))]
      BY <1>3, <1>7, <2>2, <3>1 DEF QueuedRequest
    <3>3. /\ r.pc = "patch" /\ r.view = edit.view /\ r.edit = edit.change
          /\ r.patch = Sent(Merge(views[edit.view], edit.change))
      BY <3>2, RequestTypes DEF ViewRequests
    <3> QED
      BY <3>1, <3>3 DEF InAgreement, Existing
  <2> QED
    BY <2>1, <2>2
<1>11. \A o \in Busy : o = e
  <2>1. e \in Busy
    BY <1>1, <1>5 DEF Busy
  <2> QED
    BY <2>1 DEF Undisturbed
<1>12. request'[e] = r /\ \A o \in Lines \ {e} : request'[o] = request[o] /\ request'[o].pc = "idle"
  BY <1>4, <1>5, <1>11 DEF Base, ViewsTypeOK, Busy
<1>13. queue'[p] = Tail(queue[p]) /\ \A q \in Pages : q # p => queue'[q] = <<>>
  <2>1. \A q \in Pages : q # p => queue[q] = <<>>
    BY <1>4, <1>11 DEF Busy
  <2> QED
    BY <1>5, <2>1 DEF Base, ViewsTypeOK
<1>14. OrderIsTheViews' /\ DefaultExists' /\ Existing' = Existing
  BY <1>5 DEF Undisturbed, OrderIsTheViews, DefaultExists, Existing, Exists
<1>15. Busy' = {e}
  <2>1. Busy' = {o \in Lines : request'[o].pc # "idle"}
          \cup {QueueOf(q) : q \in {x \in Pages : queue'[x] # <<>>}}
    BY DEF Busy, QueueOf
  <2>2. \A q \in Pages : queue'[q] # <<>> => QueueOf(q) = e
    BY <1>1, <1>13
  <2> QED
    BY <1>4, <1>10, <1>12, <2>1, <2>2
<1>16. ASSUME NEW o \in Lines PROVE InAgreement(o, request[o])'
  <2>1. CASE o = e
    BY <1>5, <1>10, <1>12, <1>14, <2>1 DEF InAgreement, Exists
  <2>2. CASE o # e
    BY <1>12, <2>2 DEF InAgreement
  <2> QED
    BY <2>1, <2>2
<1>17. ASSUME NEW q \in Pages PROVE QueueInAgreement(q)'
  <2>1. CASE q # p
    <3>1. QueueOf(q) \notin Busy' /\ queue'[q] = <<>>
      BY <1>4, <1>13, <1>15, <2>1
    <3> QED
      BY <3>1 DEF QueueInAgreement, QueueOf
  <2>2. CASE q = p
    <3>1. \A v \in Range(schema'[q].list) : v \in Existing'
      BY <1>5, <1>7, <1>14, <2>2
    <3>2. request'[QueueOf(q)].pc # "idle"
      BY <1>1, <1>10, <1>12, <2>2
    <3>3. ASSUME NEW n \in DOMAIN queue'[q]
          PROVE  queue'[q][n].view \in Existing'
                   \cup IF queue'[q][n].op = "default" THEN {0} ELSE {}
      <4>1. n + 1 \in DOMAIN queue[p] /\ queue'[q][n] = queue[p][n + 1]
        <5>1. queue'[q] = Tail(queue[p])
          BY <1>13, <2>2
        <5>2. n \in DOMAIN Tail(queue[p])
          BY <5>1
        <5>3. n + 1 \in DOMAIN queue[p] /\ Tail(queue[p])[n] = queue[p][n + 1]
          BY <1>5, <1>8, <5>2, TailFacts
        <5> QED
          BY <5>1, <5>3
      <4> QED
        BY <1>6, <1>14, <4>1 DEF QueueInAgreement
    <3> QED
      BY <3>1, <3>2, <3>3 DEF QueueInAgreement, Existing, QueueOf
  <2> QED
    BY <2>1, <2>2
<1>18. (\A d, o \in Busy' : d = o) /\ Busy' # {}
  BY <1>15
<1> QED
  BY <1>14, <1>16, <1>17, <1>18 DEF Undisturbed

LEMMA UndisturbedStep ==
    ASSUME ViewsInv, [ViewsNext]_viewsVars, ~disturbed'
    PROVE  Undisturbed'
<1>0. Base
  BY DEF ViewsInv, Base
<1>1. CASE UNCHANGED viewsVars
  <2>1. Undisturbed
    BY <1>1 DEF viewsVars, ViewsInv
  <2> QED
    BY <1>1, <2>1 DEF viewsVars, Undisturbed, OrderIsTheViews, DefaultExists, Existing, Exists,
                      Busy, UpToDate, InAgreement, QueueInAgreement, QueueOf
<1>2. ASSUME NEW e \in Lines, Begin(e) PROVE Undisturbed'
  <2>1. PICK r \in ViewRequests : Asked(e, r)
    BY <1>0, <1>2, BeginAsks
  <2>2. ~disturbed /\ Busy = {} /\ UpToDate(Page(e))
    BY <2>1 DEF Asked, Asks
  <2> QED
    BY <1>0, <2>1, <2>2, AsksUndisturbed DEF ViewsInv
<1>3. ASSUME NEW e \in Lines,
             \/ InsertView(e) \/ DeleteRow(e) \/ ReadConfig(e) \/ SelectForUpdate(e)
             \/ CheckDefault(e) \/ ReplyConfig(e) \/ ReplyViews(e)
      PROVE  Undisturbed'
  <2>1. ~disturbed
    BY <1>3 DEF InsertView, DeleteRow, ReadConfig, SelectForUpdate, CheckDefault, ReplyConfig,
                ReplyViews, Reads
  <2> QED
    BY <1>0, <1>3, <2>1, ReadsStep DEF ViewsInv
<1>4. ASSUME NEW e \in Lines,
             \/ AppendToOrder(e) \/ StripConfig(e) \/ WriteView(e)
             \/ WriteOrder(e) \/ WriteDefault(e)
      PROVE  Undisturbed'
  <2>1. ~disturbed
    BY <1>4 DEF AppendToOrder, StripConfig, WriteView, WriteOrder, WriteDefault, Commits
  <2> QED
    BY <1>0, <1>4, <2>1, CommitsStep DEF ViewsInv
<1>5. ASSUME NEW e \in Lines, ApplySchema(e) PROVE Undisturbed'
  BY <1>0, <1>5, ApplyStep DEF ViewsInv, ApplySchema
<1>6. ASSUME NEW e \in Lines, Fails(e) PROVE FALSE
  BY <1>6 DEF Fails
<1>7. ASSUME NEW p \in Pages, Configure(p) PROVE Undisturbed'
  <2>1. ~disturbed
    BY <1>7 DEF Configure, Enqueue
  <2> QED
    BY <1>0, <1>7, <2>1, EnqueueStep DEF ViewsInv
<1>8. ASSUME NEW p \in Pages, Dequeue(p) PROVE Undisturbed'
  BY <1>0, <1>8, DequeueStep DEF ViewsInv, Dequeue
<1> QED
  BY <1>1, <1>2, <1>3, <1>4, <1>5, <1>6, <1>7, <1>8 DEF ViewsNext

LEMMA ViewsInitInvariant == ViewsInit => ViewsInv
<1> SUFFICES ASSUME ViewsInit PROVE ViewsInv
  OBVIOUS
<1>1. PICK c \in Configs : views = [v \in Views |-> IF v = 1 THEN c ELSE NoView]
  BY DEF ViewsInit
<1>2. /\ order = <<1>> /\ default = 1
           /\ schema = [p \in Pages |-> [list |-> <<1>>, config |-> views]]
      /\ queue = [p \in Pages |-> <<>>] /\ request = [e \in Lines |-> NoRequest]
      /\ disturbed = FALSE /\ asked = 0 /\ failures = 0
  BY DEF ViewsInit
<1>3. 1 \in Views /\ 1 \in 0 .. MaxView /\ <<1>> \in Seq(Views) /\ Range(<<1>>) = {1}
        /\ IsInjective(<<1>>)
  BY ViewsAssumption DEF Views, Range, IsInjective
<1>4. views \in [Views -> Configs \cup {NoView}] /\ Existing = {1} /\ Exists(1)
  BY <1>1, <1>3, ConfigFacts DEF Existing, Exists
<1>5. ViewsTypeOK
  <2>1. [list |-> <<1>>, config |-> views] \in Schemas
    BY <1>3, <1>4 DEF Schemas, Lists
  <2>2. schema \in [Pages -> Schemas]
    BY <1>2, <2>1
  <2>3. queue \in [Pages -> Seq(Edits)]
    BY <1>2
  <2>4. request \in [Lines -> ViewRequests]
    BY <1>2, RequestTypes
  <2>5. asked \in 0 .. MaxAsked /\ failures \in 0 .. MaxFailures
    BY <1>2, ViewsAssumption
  <2>6. disturbed \in BOOLEAN
    BY <1>2
  <2> QED
    BY <1>2, <1>3, <1>4, <2>2, <2>3, <2>4, <2>5, <2>6 DEF ViewsTypeOK, Lists
<1>6. \A e \in Lines : request[e] = NoRequest /\ request[e].pc = "idle"
  BY <1>2, RequestTypes
<1>7. Locked /\ Phases
  BY <1>6 DEF Locked, Phases, InPhase, Holds
<1>8. Listed
  BY <1>2, <1>3, <1>4, <1>6 DEF Listed, ListsItsViews, Exists
<1>9. \A p \in Pages : UpToDate(p) /\ queue[p] = <<>> /\ Range(schema[p].list) = {1}
  BY <1>2, <1>3 DEF UpToDate
<1>10. Busy = {}
  BY <1>6, <1>9 DEF Busy
<1>11. OrderIsTheViews /\ DefaultExists /\ \A e \in Lines : InAgreement(e, request[e])
  BY <1>2, <1>3, <1>4, <1>6 DEF OrderIsTheViews, DefaultExists, InAgreement
<1>12. \A p \in Pages : QueueInAgreement(p)
  BY <1>9, <1>10 DEF QueueInAgreement
<1>13. \E p \in Pages : UpToDate(p)
  BY <1>9, ViewsAssumption
<1> QED
  BY <1>5, <1>7, <1>8, <1>10, <1>11, <1>12, <1>13 DEF ViewsInv, Undisturbed

LEMMA ViewsStepInvariant == ViewsInv /\ [ViewsNext]_viewsVars => ViewsInv'
<1> SUFFICES ASSUME ViewsInv, [ViewsNext]_viewsVars PROVE ViewsInv'
  OBVIOUS
<1>1. Base'
  BY BaseStep DEF ViewsInv, Base
<1>2. ~disturbed' => Undisturbed'
  BY UndisturbedStep
<1> QED
  BY <1>1, <1>2 DEF ViewsInv, Base

LEMMA QueueStep == ViewsInv /\ [ViewsNext]_viewsVars => QueueMerges
<1> SUFFICES ASSUME ViewsInv, [ViewsNext]_viewsVars,
                    NEW e \in Lines, ~disturbed, request[e].pc = "merge", e[2] = "queue",
                      views' # views
             PROVE  views'[request[e].view] = Merge(views[request[e].view], Sent(request[e].edit))
  BY DEF QueueMerges
<1>1. Base /\ Undisturbed
  BY DEF ViewsInv, Base
<1>2. PICK o \in Lines : AppendToOrder(o) \/ StripConfig(o) \/ WriteView(o)
  BY <1>1, RowsChange
<1>3. o = e
  <2>1. request[o].pc # "idle"
    BY <1>2 DEF AppendToOrder, StripConfig, WriteView
  <2> QED
    BY <1>1, <2>1, Alone
<1>4. WriteView(e)
  BY <1>2, <1>3 DEF AppendToOrder, StripConfig
<1>5. /\ views' = [views EXCEPT ![request[e].view] = Merge(views[request[e].view],
           request[e].patch)]
      /\ request[e].view \in Views
  BY <1>1, <1>4, WriteCommits DEF Commits
<1>6. request[e].patch = Sent(Merge(views[request[e].view], request[e].edit))
  BY <1>1 DEF Undisturbed, InAgreement
<1>7. views[request[e].view] \in Configs /\ request[e].edit \in Patches
  BY <1>1, RequestOf DEF ViewRequests
<1>8. views'[request[e].view] = Merge(views[request[e].view], request[e].patch)
  BY <1>1, <1>5 DEF Base, ViewsTypeOK
<1> QED
  BY <1>6, <1>7, <1>8, WholeConfigMerges

-----------------------------------------------------------------------------
(* The theorems about the views of a table. *)

\* The inductive invariant: who holds a row finds it as it was, every schema has the
\* config of what it lists and, while nothing disturbs the pages, each request finds
\* what it was sent for (create_view, delete_view, update_view, PATCH /tables).
THEOREM ViewsInvariant == ViewsSpec => []ViewsInv
<1>1. ViewsInit => ViewsInv
  BY ViewsInitInvariant
<1>2. ViewsInv /\ [ViewsNext]_viewsVars => ViewsInv'
  BY ViewsStepInvariant
<1> QED
  BY <1>1, <1>2, PTL DEF ViewsSpec

\* Type correctness for any number of pages, views, keys and requests.
THEOREM ViewsTypeCorrect == ViewsSpec => []ViewsTypeOK
<1>1. ViewsInv => ViewsTypeOK
  BY DEF ViewsInv
<1> QED
  BY <1>1, ViewsInvariant, PTL

\* Pages that take turns keep view_order, default_view and what they show in agreement
\* with the rows of table_views.
THEOREM TurnsKeepAgreement == ViewsSpec => []TakingTurns
<1>1. ViewsInv => TakingTurns
  BY DEF ViewsInv, Undisturbed, TakingTurns
<1> QED
  BY <1>1, ViewsInvariant, PTL

\* A queue of whole-config writes adds up to what its user changed (enqueueConfigWrite).
THEOREM QueuesMerge == ViewsSpec => QueuedWritesMerge
<1>1. ViewsInv /\ [ViewsNext]_viewsVars => QueueMerges
  BY QueueStep
<1>2. ViewsInv /\ [ViewsNext]_viewsVars => [QueueMerges]_viewsVars
  BY <1>1
<1> QED
  BY <1>2, ViewsInvariant, PTL DEF ViewsSpec, QueuedWritesMerge

\* update_view never overwrites a key that its patch does not have.
THEOREM PatchesChangeTheirKeys == ViewsSpec => OnlyPatchedFieldsChange
<1>1. ViewsInv /\ [ViewsNext]_viewsVars => OnlyPatchesChange
  BY PatchesStep DEF ViewsInv, Base
<1>2. ViewsInv /\ [ViewsNext]_viewsVars => [OnlyPatchesChange]_viewsVars
  BY <1>1
<1> QED
  BY <1>2, ViewsInvariant, PTL DEF ViewsSpec, OnlyPatchedFieldsChange
=============================================================================
