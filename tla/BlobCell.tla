------------------------------ MODULE BlobCell ------------------------------
(***************************************************************************)
(* What blob storage promises, without transactions, locks or queues: a    *)
(* cell is a register over immutable stored objects.  Publishing, clearing *)
(* and dropping are single steps, an object is removed only when no cell   *)
(* points at it and no download is being served from it.  Objects nobody   *)
(* points at may exist (uploads that failed, retired versions).            *)
(***************************************************************************)
CONSTANTS Rows, Columns, Keys, Readers, NoKey

Cells == Rows \X Columns

VARIABLES
    live,       \* rows that exist
    cell,       \* cell -> the key of its current object, or NoKey
    store,      \* keys with bytes
    serving     \* reader -> the key it was promised, or NoKey

vars == <<live, cell, store, serving>>

Pointed == {cell[x] : x \in Cells} \ {NoKey}
Promised == {serving[q] : q \in Readers} \ {NoKey}

Init ==
    /\ live = Rows
    /\ cell = [x \in Cells |-> NoKey]
    /\ store = {}
    /\ serving = [q \in Readers |-> NoKey]

\* A complete object becomes the cell's content in one step; whatever the cell
\* held is retired with it.  No two cells ever share an object.
Publish(x, k) ==
    /\ x[1] \in live
    /\ k \in store \ Pointed
    /\ cell' = [cell EXCEPT ![x] = k]
    /\ UNCHANGED <<live, store, serving>>

Clear(x) ==
    /\ cell[x] # NoKey
    /\ cell' = [cell EXCEPT ![x] = NoKey]
    /\ UNCHANGED <<live, store, serving>>

Drop(r) ==
    /\ r \in live
    /\ live' = live \ {r}
    /\ cell' = [x \in Cells |-> IF x[1] = r THEN NoKey ELSE cell[x]]
    /\ UNCHANGED <<store, serving>>

Store(k) ==
    /\ store' = store \cup {k}
    /\ UNCHANGED <<live, cell, serving>>

Remove(k) ==
    /\ k \notin Pointed \cup Promised
    /\ store' = store \ {k}
    /\ UNCHANGED <<live, cell, serving>>

\* A download is promised the object the cell holds at that moment, and keeps
\* it until it answers.
Promise(q, x) ==
    /\ serving[q] = NoKey
    /\ cell[x] # NoKey
    /\ serving' = [serving EXCEPT ![q] = cell[x]]
    /\ UNCHANGED <<live, cell, store>>

Answer(q) ==
    /\ serving[q] # NoKey
    /\ serving' = [serving EXCEPT ![q] = NoKey]
    /\ UNCHANGED <<live, cell, store>>

Next ==
    \/ \E x \in Cells : Clear(x) \/ \E k \in Keys : Publish(x, k)
    \/ \E r \in Rows : Drop(r)
    \/ \E k \in Keys : Store(k) \/ Remove(k)
    \/ \E q \in Readers : Answer(q) \/ \E x \in Cells : Promise(q, x)

Spec == Init /\ [][Next]_vars
=============================================================================
