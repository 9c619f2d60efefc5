--------------------------- MODULE BlobStoreProofs ---------------------------
(***************************************************************************)
(* BlobStore's safety, proved for every set of rows, keys and processes.   *)
(* Each party's actions are first reduced to what its kind of step may do  *)
(* (ReaderMove, CleanerMove, WriterMove); those lemmas carry the invariant *)
(* and one short lemma per action shows that the action is such a step.    *)
(* Last, what may leak: LeakInv, a second invariant inductive beside IInv. *)
(***************************************************************************)
EXTENDS BlobStore, TLAPS

\* Two draws from the unused keys give two distinct unused keys.
LEMMA FreshPair ==
  ASSUME NEW drawn, \E k, l \in Keys \ drawn : k # l
  PROVE  LET key == Fresh(drawn)
             pending == Fresh(drawn \cup {key})
         IN key \in Keys \ drawn /\ pending \in Keys \ drawn /\ key # pending
<1> DEFINE key == Fresh(drawn)
           pending == Fresh(drawn \cup {key})
<1>1. key \in Keys /\ key \notin drawn
  BY DEF Fresh
<1>2. \E l \in Keys : l \notin drawn \cup {key}
  OBVIOUS
<1>3. pending \in Keys /\ pending \notin drawn \cup {key}
  BY <1>2 DEF Fresh
<1>4. QED
  BY <1>1, <1>3

LEMMA InvInit == Init => IInv
BY BlobAssumption DEF Init, IInv, TypeOK, Pointers, NoWrite, NoClean, NoRead, WriterRecords,
     CleanerRecords,
   ReaderRecords, FreshKeysUnknown, WriterShape, UploadProtected, RowLocksExclusive, UploadPrivate,
   AdvisoryLocksExclusive, CleanerShape, LateDeletesHarmless, ReaderShape, PointerHasObject,
   Publishing, Referenced

-----------------------------------------------------------------------------
(* Readers. *)

\* A reader that only changes its own record keeps the invariant, when its new
\* locks are nobody's exclusive locks and what it fetches is safe in S3.
LEMMA ReaderMove ==
  ASSUME NEW q \in Readers, NEW r \in ReaderRecords, IInv,
         reader' = [reader EXCEPT ![q] = r],
         faults' \in 0 .. MaxFaults,
         UNCHANGED <<live, cell, objects, queue, s3, late, used, writer, cleaner>>,
         \A c \in Cleaners : r.locks \cap cleaner[c].locks = {},
         r.pc # "idle" => r.cell \in Cells /\ r.key \in Keys,
         r.pc \in {"locked", "fetch"} => r.key \in r.locks,
         r.pc = "fetch" => r.key \in s3 /\ <<"delete", r.key>> \notin late
  PROVE  IInv'
<1>1. TypeOK'
  BY DEF IInv, TypeOK
<1>2. FreshKeysUnknown' /\ LateDeletesHarmless' /\ PointerHasObject'
  BY DEF IInv, FreshKeysUnknown, LateDeletesHarmless, PointerHasObject, Referenced
<1>3. WriterShape' /\ UploadProtected' /\ RowLocksExclusive'
  BY DEF IInv, WriterShape, UploadProtected, RowLocksExclusive, Publishing, Drawn
<1>4. UploadPrivate' /\ CleanerShape'
  BY DEF IInv, UploadPrivate, CleanerShape, Publishing, Drawn, Referenced
<1>5. AdvisoryLocksExclusive'
  BY DEF IInv, TypeOK, AdvisoryLocksExclusive
<1>6. ReaderShape'
  BY DEF IInv, TypeOK, ReaderShape
<1>7. QED
  BY <1>1, <1>2, <1>3, <1>4, <1>5, <1>6 DEF IInv

LEMMA NoReadRecord ==
  /\ NoRead \in ReaderRecords
  /\ NoRead.pc = "idle" /\ NoRead.locks = {}
BY BlobAssumption DEF ReaderRecords, NoRead, Pointers

\* The record a reply leaves behind.
LEMMA ReplyMove ==
  ASSUME NEW q \in Readers, NEW code \in {"200", "404", "409", "500"}, IInv,
         Reply(q, code), faults' \in 0 .. MaxFaults,
         UNCHANGED <<live, cell, objects, queue, s3, late, used, writer, cleaner>>
  PROVE  IInv'
<1> DEFINE r == [NoRead EXCEPT !.cell = reader[q].cell, !.reply = code]
<1>1. reader[q] \in ReaderRecords
  BY DEF IInv, TypeOK
<1>2. r \in ReaderRecords /\ r.pc = "idle" /\ r.locks = {}
  BY <1>1, NoReadRecord DEF ReaderRecords
<1>3. reader' = [reader EXCEPT ![q] = r]
  BY DEF Reply
<1> HIDE DEF r
<1>4. QED
  BY <1>2, <1>3, ReaderMove

LEMMA InvStartRead ==
  ASSUME NEW q \in Readers, NEW x \in Cells, IInv, StartRead(q, x)
  PROVE  IInv'
<1> DEFINE r == IF cell[x] = NoKey
                THEN [NoRead EXCEPT !.cell = x, !.reply = "404"]
                ELSE [NoRead EXCEPT !.pc = "seen", !.cell = x, !.key = cell[x], !.tries = 1]
<1>1. cell[x] \in Pointers /\ faults \in 0 .. MaxFaults
  BY DEF IInv, TypeOK
<1>2. r \in ReaderRecords /\ r.locks = {} /\ r.pc \in {"idle", "seen"}
      /\ (r.pc # "idle" => r.cell \in Cells /\ r.key \in Keys)
  <2>1. CASE cell[x] = NoKey
    BY <2>1, NoReadRecord DEF ReaderRecords
  <2>2. CASE cell[x] # NoKey
    <3>1. cell[x] \in Keys /\ 1 \in 0 .. MaxTries
      BY <1>1, <2>2, BlobAssumption DEF Pointers
    <3>2. r = [NoRead EXCEPT !.pc = "seen", !.cell = x, !.key = cell[x], !.tries = 1]
      BY <2>2
    <3>3. QED
      BY <3>1, <3>2, NoReadRecord DEF ReaderRecords, Pointers
  <2>3. QED
    BY <2>1, <2>2
<1>3. reader' = [reader EXCEPT ![q] = r]
      /\ UNCHANGED <<live, cell, objects, queue, s3, late, used, writer, cleaner, faults>>
  BY DEF StartRead, dbVars, s3Vars
<1> HIDE DEF r
<1>4. QED
  BY <1>1, <1>2, <1>3, ReaderMove

LEMMA InvReaderStep ==
  ASSUME NEW q \in Readers, IInv, ReaderStep(q) \/ AbortRead(q)
  PROVE  IInv'
<1>1. reader[q] \in ReaderRecords /\ reader \in [Readers -> ReaderRecords]
      /\ faults \in 0 .. MaxFaults /\ cell \in [Cells -> Pointers]
  BY DEF IInv, TypeOK
<1>2. reader[q].pc # "idle" => reader[q].cell \in Cells /\ reader[q].key \in Keys
  BY DEF IInv, ReaderShape
<1>3. \A c \in Cleaners : reader[q].locks \cap cleaner[c].locks = {}
  BY DEF IInv, AdvisoryLocksExclusive
<1>4. CASE CheckOwner(q)
  <2>1. UNCHANGED <<live, cell, objects, queue, s3, late, used, writer, cleaner, faults>>
    BY <1>4 DEF CheckOwner, dbVars, s3Vars
  <2>2. CASE objects[reader[q].key] = reader[q].cell
    <3> DEFINE r == [reader[q] EXCEPT !.pc = "owned"]
    <3>1. r \in ReaderRecords /\ r.pc = "owned" /\ r.cell = reader[q].cell
          /\ r.key = reader[q].key /\ r.locks = reader[q].locks
      BY <1>1 DEF ReaderRecords
    <3>2. reader' = [reader EXCEPT ![q] = r] /\ reader[q].pc = "seen"
      BY <1>4, <2>2 DEF CheckOwner
    <3> HIDE DEF r
    <3>3. QED
      BY <1>1, <1>2, <1>3, <2>1, <3>1, <3>2, ReaderMove
  <2>3. CASE objects[reader[q].key] # reader[q].cell
    BY <1>1, <1>4, <2>1, <2>3, ReplyMove DEF CheckOwner
  <2>4. QED
    BY <2>2, <2>3
<1>5. CASE LockShared(q)
  <2> DEFINE r == [reader[q] EXCEPT !.pc = "locked", !.locks = @ \cup {reader[q].key}]
  <2>1. UNCHANGED <<live, cell, objects, queue, s3, late, used, writer, cleaner, faults>>
    BY <1>5 DEF LockShared, dbVars, s3Vars
  <2>2. reader[q].pc = "owned" /\ \A c \in Cleaners : reader[q].key \notin cleaner[c].locks
    BY <1>5 DEF LockShared, ExclusivelyFree
  <2>3. r \in ReaderRecords /\ r.pc = "locked" /\ r.cell = reader[q].cell
        /\ r.key = reader[q].key /\ r.locks = reader[q].locks \cup {reader[q].key}
    BY <1>1, <1>2, <2>2 DEF ReaderRecords
  <2>4. reader' = [reader EXCEPT ![q] = r]
    BY <1>5 DEF LockShared
  <2>5. \A c \in Cleaners : r.locks \cap cleaner[c].locks = {}
    BY <1>3, <2>2, <2>3
  <2> HIDE DEF r
  <2>6. QED
    BY <1>1, <1>2, <2>1, <2>2, <2>3, <2>4, <2>5, ReaderMove
<1>6. CASE Recheck(q)
  <2> DEFINE now == cell[reader[q].cell]
  <2>1. UNCHANGED <<live, cell, objects, queue, s3, late, used, writer, cleaner, faults>>
    BY <1>6 DEF Recheck, dbVars, s3Vars
  <2>2. reader[q].pc = "locked" /\ reader[q].cell \in Cells /\ reader[q].key \in reader[q].locks
    BY <1>2, <1>6 DEF Recheck, IInv, ReaderShape
  <2>3. CASE now = reader[q].key /\ reader' = [reader EXCEPT ![q].pc = "fetch"]
    <3> DEFINE r == [reader[q] EXCEPT !.pc = "fetch"]
    <3>1. r \in ReaderRecords /\ r.pc = "fetch" /\ r.cell = reader[q].cell
          /\ r.key = reader[q].key /\ r.locks = reader[q].locks
      BY <1>1 DEF ReaderRecords
    <3>2. reader' = [reader EXCEPT ![q] = r]
      BY <2>3
    <3>3. reader[q].key \in Keys /\ reader[q].key \in Referenced
      BY <1>2, <2>2, <2>3, BlobAssumption DEF Referenced
    <3>4. reader[q].key \in s3 /\ <<"delete", reader[q].key>> \notin late
      BY <2>2, <2>3, <3>3, BlobAssumption DEF IInv, PointerHasObject, LateDeletesHarmless
    <3> HIDE DEF r
    <3>5. QED
      BY <1>1, <1>2, <1>3, <2>1, <2>2, <3>1, <3>2, <3>4, ReaderMove
  <2>4. CASE \E code \in {"404", "409"} : Reply(q, code)
    BY <1>1, <2>1, <2>4, ReplyMove
  <2>5. CASE reader[q].tries < MaxTries /\ now # NoKey
             /\ reader' = [reader EXCEPT ![q].pc = "seen", ![q].key = now, ![q].tries = @ + 1]
    <3> DEFINE r == [reader[q] EXCEPT !.pc = "seen", !.key = now, !.tries = @ + 1]
    <3>1. now \in Keys
      BY <1>1, <2>2, <2>5 DEF Pointers
    <3>2. r \in ReaderRecords /\ r.pc = "seen" /\ r.cell = reader[q].cell
          /\ r.key = now /\ r.locks = reader[q].locks
      BY <1>1, <2>5, <3>1, BlobAssumption DEF ReaderRecords, Pointers
    <3>3. reader' = [reader EXCEPT ![q] = r]
      BY <2>5
    <3> HIDE DEF r
    <3>4. QED
      BY <1>1, <1>3, <2>1, <2>2, <3>1, <3>2, <3>3, ReaderMove
  <2>6. QED
    BY <1>6, <2>3, <2>4, <2>5 DEF Recheck
<1>7. CASE Fetch(q)
  BY <1>1, <1>7, ReplyMove DEF Fetch, dbVars, s3Vars
<1>8. CASE AbortRead(q)
  <2>1. faults' \in 0 .. MaxFaults
    BY <1>1, <1>8, BlobAssumption DEF AbortRead, Fault
  <2>2. QED
    BY <1>8, <2>1, ReplyMove DEF AbortRead, dbVars, s3Vars
<1>9. QED
  BY <1>4, <1>5, <1>6, <1>7, <1>8 DEF ReaderStep

-----------------------------------------------------------------------------
(* Cleaners. *)

\* What a cleaner may destroy: keys it has locked and nobody points at.
Doomed(c) == cleaner[c].locks \ Referenced

\* A cleaner's step keeps the invariant when it destroys doomed keys only, when
\* it claims queued keys only, and when its new locks are free.
LEMMA CleanerMove ==
  ASSUME NEW c \in Cleaners, NEW r \in CleanerRecords, IInv,
         cleaner' = [cleaner EXCEPT ![c] = r],
         faults' \in 0 .. MaxFaults,
         UNCHANGED <<live, cell, used, writer, reader>>,
         objects' \in [Keys -> Cells \cup {NoCell}],
         \A k \in Keys : objects'[k] = objects[k] \/ (k \in Doomed(c) /\ objects'[k] = NoCell),
         queue' \subseteq queue,
         s3' \subseteq s3,
         s3 \ s3' \subseteq Doomed(c),
         late' \subseteq late \cup ({"delete"} \X Doomed(c)),
         r.batch \subseteq queue \cup cleaner[c].batch,
         \A w \in Writers : r.locks \cap writer[w].held = {},
         \A q \in Readers : r.locks \cap reader[q].locks = {},
         r.todo \cup r.locks \subseteq r.batch,
         r.gone \subseteq r.locks \ Referenced,
         r.pc \in {"check", "delete", "forget", "unqueue"} => r.cur \in r.locks,
         r.pc \in {"delete", "forget"} => r.cur \notin Referenced
  PROVE  IInv'
<1> USE DEF Doomed
<1>1. /\ cleaner[c].locks \subseteq cleaner[c].batch
      /\ cleaner[c].batch \subseteq Keys
      /\ cleaner \in [Cleaners -> CleanerRecords]
      /\ \A d \in Cleaners : cleaner'[d] = IF d = c THEN r ELSE cleaner[d]
      /\ Referenced' = Referenced
  BY DEF IInv, TypeOK, CleanerShape, CleanerRecords, Referenced
<1>2. \A k \in Keys : <<"delete", k>> \in late' => <<"delete", k>> \in late \/ k \in Doomed(c)
  OBVIOUS
<1>3. TypeOK'
  <2>1. late' \subseteq {"put", "delete"} \X Keys
    BY <1>1 DEF IInv, TypeOK
  <2>2. QED
    BY <1>1, <2>1 DEF IInv, TypeOK
<1>4. FreshKeysUnknown'
  BY <1>1, <1>2 DEF IInv, TypeOK, FreshKeysUnknown
<1>5. WriterShape' /\ RowLocksExclusive'
  BY DEF IInv, WriterShape, RowLocksExclusive, Publishing, Drawn
<1>6. \A w \in Writers : Publishing(w) => writer[w].key \in Keys /\ writer[w].key \notin Doomed(c)
  BY <1>1 DEF IInv, TypeOK, WriterShape, Drawn, UploadPrivate, AdvisoryLocksExclusive
<1>7. UploadProtected'
  BY <1>1, <1>6 DEF IInv, UploadProtected, Publishing
<1>8. UploadPrivate'
  <2> SUFFICES ASSUME NEW w \in Writers, Publishing(w)
               PROVE  /\ writer[w].key \notin Referenced'
                      /\ <<"delete", writer[w].key>> \notin late'
                      /\ \A v \in Writers : writer[w].key \notin writer[v].retired
                      /\ \A v \in Writers \ {w} : Publishing(v) => Drawn(v) \cap Drawn(w) = {}
                      /\ writer[w].key \notin writer[w].held =>
                             /\ writer[w].key \notin queue'
                             /\ objects'[writer[w].key] = NoCell
                             /\ \A d \in Cleaners : writer[w].key \notin cleaner'[d].batch
    BY DEF UploadPrivate, Publishing, Drawn
  <2>1. QED
    BY <1>1, <1>2, <1>6 DEF IInv, UploadPrivate
<1>9. AdvisoryLocksExclusive'
  BY <1>1 DEF IInv, AdvisoryLocksExclusive
<1>10. CleanerShape'
  BY <1>1 DEF IInv, CleanerShape
<1>11. LateDeletesHarmless'
  BY <1>1, <1>2 DEF IInv, LateDeletesHarmless
<1>12. ReaderShape'
  BY <1>1, <1>2 DEF IInv, ReaderShape, AdvisoryLocksExclusive
<1>13. PointerHasObject'
  BY <1>1 DEF IInv, TypeOK, Pointers, PointerHasObject, Referenced
<1>14. QED
  BY <1>3, <1>4, <1>5, <1>7, <1>8, <1>9, <1>10, <1>11, <1>12, <1>13 DEF IInv

LEMMA NoCleanRecord ==
  /\ NoClean \in CleanerRecords
  /\ NoClean.pc = "idle" /\ NoClean.batch = {} /\ NoClean.todo = {}
  /\ NoClean.locks = {} /\ NoClean.gone = {} /\ NoClean.done = {}
BY DEF CleanerRecords, NoClean, Pointers

LEMMA InvCleanerStep ==
  ASSUME NEW c \in Cleaners, IInv, CleanerStep(c) \/ DeleteFails(c) \/ CrashBatch(c)
  PROVE  IInv'
<1> DEFINE o == cleaner[c]
<1>1. /\ o \in CleanerRecords /\ cleaner \in [Cleaners -> CleanerRecords]
      /\ faults \in 0 .. MaxFaults /\ objects \in [Keys -> Cells \cup {NoCell}]
      /\ queue \subseteq Keys
  BY DEF IInv, TypeOK
<1>2. /\ o.todo \cup o.locks \subseteq o.batch
      /\ o.gone \subseteq o.locks \ Referenced
      /\ o.pc \in {"check", "delete", "forget", "unqueue"} => o.cur \in o.locks
      /\ o.pc \in {"delete", "forget"} => o.cur \notin Referenced
  BY DEF IInv, CleanerShape
<1>3. /\ \A w \in Writers : o.locks \cap writer[w].held = {}
      /\ \A q \in Readers : o.locks \cap reader[q].locks = {}
  BY DEF IInv, AdvisoryLocksExclusive
<1>4. o.batch \subseteq Keys /\ o.locks \subseteq Keys /\ o.todo \subseteq Keys
      /\ o.gone \subseteq Keys /\ o.done \subseteq Keys
  BY <1>1 DEF CleanerRecords
<1>5. CASE Claim(c)
  <2>1. PICK batch \in SUBSET (queue \ Claimed) :
          cleaner' = [cleaner EXCEPT ![c] =
             [NoClean EXCEPT !.pc = "scan", !.batch = batch, !.todo = batch]]
    BY <1>5 DEF Claim
  <2> DEFINE r == [NoClean EXCEPT !.pc = "scan", !.batch = batch, !.todo = batch]
  <2>2. batch \subseteq Keys /\ batch \subseteq queue
    BY <1>1, <2>1
  <2>3. r \in CleanerRecords /\ r.pc = "scan" /\ r.batch = batch /\ r.todo = batch
        /\ r.locks = {} /\ r.gone = {}
    BY <2>2, NoCleanRecord DEF CleanerRecords
  <2>4. cleaner' = [cleaner EXCEPT ![c] = r]
    BY <2>1
  <2>5. UNCHANGED <<live, cell, objects, queue, s3, late, used, writer, reader, faults>>
    BY <1>5 DEF Claim, dbVars, s3Vars
  <2> HIDE DEF r
  <2>6. QED
    BY <1>1, <2>2, <2>3, <2>4, <2>5, CleanerMove
<1>6. CASE TryLock(c)
  <2>1. UNCHANGED <<live, cell, objects, queue, s3, late, used, writer, reader, faults>>
    BY <1>6 DEF TryLock, dbVars, s3Vars
  <2>2. PICK k \in o.todo :
          \/ /\ LockFree(k)
             /\ cleaner' = [cleaner EXCEPT ![c].pc = "check", ![c].cur = k,
                                ![c].todo = @ \ {k}, ![c].locks = @ \cup {k}]
          \/ /\ ~LockFree(k)
             /\ cleaner' = [cleaner EXCEPT ![c].todo = @ \ {k}]
    BY <1>6 DEF TryLock
  <2>3. k \in Keys /\ k \in o.batch
    BY <1>2, <1>4
  <2>4. CASE LockFree(k)
    <3> DEFINE r == [o EXCEPT !.pc = "check", !.cur = k, !.todo = @ \ {k}, !.locks = @ \cup {k}]
    <3>1. r \in CleanerRecords /\ r.pc = "check" /\ r.cur = k /\ r.todo = o.todo \ {k}
          /\ r.locks = o.locks \cup {k} /\ r.gone = o.gone /\ r.batch = o.batch
      BY <1>1, <2>3 DEF CleanerRecords, Pointers
    <3>2. cleaner' = [cleaner EXCEPT ![c] = r]
      BY <2>2, <2>4
    <3>3. /\ \A w \in Writers : k \notin writer[w].held
          /\ \A q \in Readers : k \notin reader[q].locks
      BY <2>4 DEF LockFree, ExclusivelyFree
    <3>4. /\ \A w \in Writers : r.locks \cap writer[w].held = {}
          /\ \A q \in Readers : r.locks \cap reader[q].locks = {}
      BY <1>3, <3>1, <3>3
    <3>5. r.todo \cup r.locks \subseteq r.batch /\ r.gone \subseteq r.locks \ Referenced
      BY <1>2, <2>3, <3>1
    <3> HIDE DEF r
    <3>6. QED
      BY <1>1, <2>1, <3>1, <3>2, <3>4, <3>5, CleanerMove
  <2>5. CASE ~LockFree(k)
    <3> DEFINE r == [o EXCEPT !.todo = @ \ {k}]
    <3>1. r \in CleanerRecords /\ r.pc = o.pc /\ r.cur = o.cur /\ r.todo = o.todo \ {k}
          /\ r.locks = o.locks /\ r.gone = o.gone /\ r.batch = o.batch
      BY <1>1, <2>3 DEF CleanerRecords
    <3>2. cleaner' = [cleaner EXCEPT ![c] = r]
      BY <2>2, <2>5
    <3> HIDE DEF r
    <3>3. QED
      BY <1>1, <1>2, <1>3, <2>1, <3>1, <3>2, CleanerMove
  <2>6. QED
    BY <2>4, <2>5
<1>7. CASE CheckReferenced(c)
  <2> DEFINE next == IF o.cur \in Referenced THEN "unqueue" ELSE "delete"
             r == [o EXCEPT !.pc = next]
  <2>1. r \in CleanerRecords /\ r.pc = next /\ r.cur = o.cur /\ r.todo = o.todo
        /\ r.locks = o.locks /\ r.gone = o.gone /\ r.batch = o.batch
    BY <1>1 DEF CleanerRecords
  <2>2. cleaner' = [cleaner EXCEPT ![c] = r] /\ o.pc = "check"
        /\ UNCHANGED <<live, cell, objects, queue, s3, late, used, writer, reader, faults>>
    BY <1>7 DEF CheckReferenced, dbVars, s3Vars
  <2> HIDE DEF r
  <2>3. QED
    BY <1>1, <1>2, <1>3, <2>1, <2>2, CleanerMove
<1>8. CASE DeleteObject(c)
  <2> DEFINE r == [o EXCEPT !.pc = "forget"]
  <2>1. r \in CleanerRecords /\ r.pc = "forget" /\ r.cur = o.cur /\ r.todo = o.todo
        /\ r.locks = o.locks /\ r.gone = o.gone /\ r.batch = o.batch
    BY <1>1 DEF CleanerRecords
  <2>2. cleaner' = [cleaner EXCEPT ![c] = r] /\ o.pc = "delete" /\ s3' = s3 \ {o.cur}
        /\ UNCHANGED <<live, cell, objects, queue, late, used, writer, reader, faults>>
    BY <1>8 DEF DeleteObject, dbVars
  <2> HIDE DEF r
  <2>3. QED
    BY <1>1, <1>2, <1>3, <2>1, <2>2, CleanerMove DEF Doomed
<1>9. CASE DeleteFails(c)
  <2> DEFINE r == [o EXCEPT !.pc = "scan", !.cur = NoKey]
  <2>1. r \in CleanerRecords /\ r.pc = "scan" /\ r.todo = o.todo
        /\ r.locks = o.locks /\ r.gone = o.gone /\ r.batch = o.batch
    BY <1>1 DEF CleanerRecords, Pointers
  <2>2. cleaner' = [cleaner EXCEPT ![c] = r] /\ o.pc = "delete"
        /\ UNCHANGED <<live, cell, objects, queue, s3, used, writer, reader>>
    BY <1>9 DEF DeleteFails, dbVars
  <2>3. faults' \in 0 .. MaxFaults
    BY <1>1, <1>9, BlobAssumption DEF DeleteFails, Fault
  <2>4. late' \subseteq late \cup ({"delete"} \X Doomed(c))
    BY <1>2, <1>9, <2>2 DEF DeleteFails, Doomed
  <2> HIDE DEF r
  <2>5. QED
    BY <1>1, <1>2, <1>3, <2>1, <2>2, <2>3, <2>4, CleanerMove
<1>10. CASE Forget(c)
  <2> DEFINE r == [o EXCEPT !.pc = "unqueue", !.gone = @ \cup {o.cur}]
  <2>1. o.pc = "forget" /\ o.cur \in Keys
    BY <1>2, <1>4, <1>10 DEF Forget
  <2>2. r \in CleanerRecords /\ r.pc = "unqueue" /\ r.cur = o.cur /\ r.todo = o.todo
        /\ r.locks = o.locks /\ r.gone = o.gone \cup {o.cur} /\ r.batch = o.batch
    BY <1>1, <2>1 DEF CleanerRecords
  <2>3. cleaner' = [cleaner EXCEPT ![c] = r]
        /\ UNCHANGED <<live, cell, objects, queue, s3, late, used, writer, reader, faults>>
    BY <1>10 DEF Forget, dbVars, s3Vars
  <2> HIDE DEF r
  <2>4. QED
    BY <1>1, <1>2, <1>3, <2>1, <2>2, <2>3, CleanerMove
<1>11. CASE Unqueue(c)
  <2> DEFINE r == [o EXCEPT !.pc = "scan", !.cur = NoKey, !.done = @ \cup {o.cur}]
  <2>1. o.pc = "unqueue" /\ o.cur \in Keys
    BY <1>2, <1>4, <1>11 DEF Unqueue
  <2>2. r \in CleanerRecords /\ r.pc = "scan" /\ r.todo = o.todo
        /\ r.locks = o.locks /\ r.gone = o.gone /\ r.batch = o.batch
    BY <1>1, <2>1 DEF CleanerRecords, Pointers
  <2>3. cleaner' = [cleaner EXCEPT ![c] = r]
        /\ UNCHANGED <<live, cell, objects, queue, s3, late, used, writer, reader, faults>>
    BY <1>11 DEF Unqueue, dbVars, s3Vars
  <2> HIDE DEF r
  <2>4. QED
    BY <1>1, <1>2, <1>3, <2>2, <2>3, CleanerMove
<1>12. CASE CommitBatch(c)
  <2>1. cleaner' = [cleaner EXCEPT ![c] = NoClean]
        /\ queue' = queue \ o.done
        /\ objects' = [k \in Keys |-> IF k \in o.gone THEN NoCell ELSE objects[k]]
        /\ UNCHANGED <<live, cell, s3, late, used, writer, reader, faults>>
    BY <1>12 DEF CommitBatch, s3Vars
  <2>2. objects' \in [Keys -> Cells \cup {NoCell}]
    BY <1>1, <2>1
  <2>3. \A k \in Keys : objects'[k] = objects[k] \/ (k \in Doomed(c) /\ objects'[k] = NoCell)
    BY <1>2, <2>1 DEF Doomed
  <2>4. QED
    BY <1>1, <2>1, <2>2, <2>3, NoCleanRecord, CleanerMove
<1>13. CASE CrashBatch(c)
  <2>1. cleaner' = [cleaner EXCEPT ![c] = NoClean]
        /\ UNCHANGED <<live, cell, objects, queue, s3, used, writer, reader>>
    BY <1>13 DEF CrashBatch, dbVars
  <2>2. faults' \in 0 .. MaxFaults
    BY <1>1, <1>13, BlobAssumption DEF CrashBatch, Fault
  <2>3. late' \subseteq late \cup ({"delete"} \X Doomed(c))
    BY <1>2, <1>13 DEF CrashBatch, Doomed
  <2>4. QED
    BY <1>1, <2>1, <2>2, <2>3, NoCleanRecord, CleanerMove
<1>14. QED
  BY <1>5, <1>6, <1>7, <1>8, <1>9, <1>10, <1>11, <1>12, <1>13 DEF CleanerStep

-----------------------------------------------------------------------------
(* Writers. *)

LEMMA NoWriteRecord ==
  /\ NoWrite \in WriterRecords
  /\ NoWrite.pc = "idle" /\ NoWrite.op = "put" /\ NoWrite.held = {} /\ NoWrite.retired = {}
  /\ NoWrite.key = NoKey /\ NoWrite.pending = NoKey /\ NoWrite.cell = NoCell
BY DEF WriterRecords, NoWrite, Pointers

\* Facts about one writer that every writer lemma starts from.
LEMMA WriterFacts ==
  ASSUME NEW w \in Writers, IInv
  PROVE  /\ writer[w] \in WriterRecords
         /\ writer[w].held \subseteq Keys /\ writer[w].retired \subseteq Keys
         /\ writer[w].pc # "idle" => writer[w].cell \in Cells /\ writer[w].cell[1] \in live
         /\ Publishing(w) => /\ writer[w].key \in used /\ writer[w].pending \in used
                             /\ writer[w].key \in Keys /\ writer[w].pending \in Keys
                             /\ writer[w].key \notin Referenced
         /\ writer[w].op # "put" => writer[w].key = NoKey
<1>1. writer[w] \in WriterRecords /\ used \subseteq Keys
  BY DEF IInv, TypeOK
<1>2. QED
  BY <1>1 DEF IInv, WriterShape, UploadPrivate, Drawn, WriterRecords

\* The shape a writer's record must have for the invariant's parts about it.
GoodRecord(w, r) ==
    /\ r.pc = "idle" => r = NoWrite
    /\ r.pc # "idle" => r.cell \in Cells /\ r.cell[1] \in live
    /\ r.op # "put" => r.key = NoKey /\ r.held = {} /\ r.pc \in {"locked", "copied"}
    /\ r.pc # "idle" /\ r.op = "put" => r.key # r.pending /\ r.held \subseteq {r.key, r.pending}
    /\ r.pc # "idle" /\ r.op = "put" => objects[r.key] \in {NoCell, r.cell}
    /\ r.pc \notin {"idle", "locked"} /\ r.op = "put" => r.key \in r.held /\ objects[r.key] = r.cell
    /\ \A v \in Writers \ {w} :
           r.pc # "idle" /\ writer[v].pc # "idle" => r.cell[1] # writer[v].cell[1]
    /\ r.retired \subseteq Referenced \cup writer[w].retired
    /\ \A c \in Cleaners : r.held \cap cleaner[c].locks = {}

\* A writer's step that leaves the committed database alone keeps the
\* invariant, when its uploads' keys are new or the ones it already had.
LEMMA WriterMove ==
  ASSUME NEW w \in Writers, NEW r \in WriterRecords, IInv,
         writer' = [writer EXCEPT ![w] = r],
         faults' \in 0 .. MaxFaults,
         UNCHANGED <<live, cell, objects, queue, cleaner, reader>>,
         late' \subseteq late \cup ({"put"} \X Keys),
         s3 \subseteq s3', s3' \subseteq Keys,
         used \subseteq used', used' \subseteq Keys,
         GoodRecord(w, r),
         r.pc # "idle" /\ r.op = "put" => r.key \in used' /\ r.pending \in used',
         r.pc = "copied" /\ r.op = "put" => r.key \in s3',
         r.pc # "idle" /\ r.op = "put" =>
            \/ /\ {r.key, r.pending} \cap used = {}
            \/ /\ Publishing(w) /\ r.key = writer[w].key /\ r.pending = writer[w].pending
               /\ writer[w].held \subseteq r.held
  PROVE  IInv'
<1>1. /\ \A v \in Writers : writer'[v] = IF v = w THEN r ELSE writer[v]
      /\ Referenced' = Referenced
      /\ Referenced \subseteq used /\ used \subseteq Keys
  <2>1. writer \in [Writers -> WriterRecords] /\ used \subseteq Keys
        /\ cell \in [Cells -> Pointers]
    BY DEF IInv, TypeOK
  <2>2. Referenced' = Referenced
    BY DEF Referenced
  <2>3. Referenced \subseteq Keys
    BY <2>1 DEF Referenced, Pointers
  <2>4. \A k \in Keys \ used : k \notin Referenced
    BY DEF IInv, FreshKeysUnknown
  <2>5. QED
    BY <2>1, <2>2, <2>3, <2>4
<1>2. \A k \in Keys : <<"delete", k>> \in late' => <<"delete", k>> \in late
  OBVIOUS
<1>3. TypeOK'
  <2>1. late' \subseteq {"put", "delete"} \X Keys
    BY DEF IInv, TypeOK
  <2>2. QED
    BY <2>1 DEF IInv, TypeOK
<1>4. FreshKeysUnknown'
  BY <1>1, <1>2 DEF IInv, FreshKeysUnknown, GoodRecord
<1>5. WriterShape'
  BY <1>1 DEF IInv, WriterShape, Publishing, Drawn, GoodRecord
<1>6. UploadProtected'
  BY <1>1 DEF IInv, UploadProtected, Publishing, GoodRecord
<1>7. RowLocksExclusive'
  BY <1>1 DEF IInv, RowLocksExclusive, GoodRecord
<1>8. UploadPrivate'
  BY <1>1, <1>2 DEF IInv, TypeOK, UploadPrivate, FreshKeysUnknown, WriterShape, Publishing, Drawn,
       GoodRecord
<1>9. AdvisoryLocksExclusive'
  BY <1>1 DEF IInv, AdvisoryLocksExclusive, GoodRecord
<1>10. CleanerShape' /\ LateDeletesHarmless'
  BY <1>1, <1>2 DEF IInv, CleanerShape, LateDeletesHarmless
<1>11. ReaderShape' /\ PointerHasObject'
  BY <1>2 DEF IInv, ReaderShape, PointerHasObject
<1>12. QED
  BY <1>3, <1>4, <1>5, <1>6, <1>7, <1>8, <1>9, <1>10, <1>11 DEF IInv

\* A writer that starts: a fresh record, on a row nobody has open.
LEMMA InvBegin ==
  ASSUME NEW w \in Writers, NEW x \in Cells, IInv,
         BeginPut(w, x) \/ (\E op \in {"clear", "drop"} : BeginRemove(w, op, x))
  PROVE  IInv'
<1>1. /\ faults \in 0 .. MaxFaults /\ used \subseteq Keys /\ s3 \subseteq Keys
      /\ x[1] \in live
      /\ \A v \in Writers \ {w} : writer[v].pc # "idle" => x[1] # writer[v].cell[1]
  BY DEF IInv, TypeOK, BeginPut, BeginRemove, RowLocked
<1>2. CASE BeginPut(w, x)
  <2> DEFINE key == Fresh(used)
             pending == Fresh(used \cup {key})
             r == [NoWrite EXCEPT !.pc = "locked", !.cell = x, !.key = key, !.pending = pending]
  <2>1. /\ used' = used \cup {key, pending} /\ writer' = [writer EXCEPT ![w] = r]
        /\ UNCHANGED <<live, cell, objects, queue, s3, late, cleaner, reader, faults>>
        /\ \E k, l \in Keys \ used : k # l
    BY <1>2 DEF BeginPut, dbVars, s3Vars
  <2>2. key \in Keys \ used /\ pending \in Keys \ used /\ key # pending
    BY <2>1, FreshPair
  <2> HIDE DEF key, pending
  <2>3. /\ r \in WriterRecords /\ r.pc = "locked" /\ r.op = "put" /\ r.cell = x
        /\ r.key = key /\ r.pending = pending /\ r.held = {} /\ r.retired = {}
    BY <2>2, NoWriteRecord DEF WriterRecords, Pointers
  <2> HIDE DEF r
  <2>4. objects[key] = NoCell
    BY <2>2 DEF IInv, FreshKeysUnknown
  <2>5. GoodRecord(w, r)
    BY <1>1, <2>2, <2>3, <2>4 DEF GoodRecord
  <2>6. QED
    BY <1>1, <2>1, <2>2, <2>3, <2>5, WriterMove
<1>3. ASSUME NEW op \in {"clear", "drop"}, BeginRemove(w, op, x)
      PROVE  IInv'
  <2> DEFINE r == [NoWrite EXCEPT !.pc = "locked", !.op = op, !.cell = x]
  <2>1. /\ writer' = [writer EXCEPT ![w] = r]
        /\ UNCHANGED <<live, cell, objects, queue, s3, late, used, cleaner, reader, faults>>
    BY <1>3 DEF BeginRemove, dbVars, s3Vars
  <2>2. /\ r \in WriterRecords /\ r.pc = "locked" /\ r.op = op /\ r.cell = x
        /\ r.key = NoKey /\ r.held = {} /\ r.retired = {}
    BY NoWriteRecord DEF WriterRecords
  <2> HIDE DEF r
  <2>3. GoodRecord(w, r)
    BY <1>1, <2>2 DEF GoodRecord
  <2>4. QED
    BY <1>1, <2>1, <2>2, <2>3, WriterMove
<1>4. QED
  BY <1>2, <1>3

\* The record a writer already has is good, as far as its shape goes.
LEMMA OldRecordGood ==
  ASSUME NEW w \in Writers, IInv
  PROVE  GoodRecord(w, writer[w])
BY DEF IInv, GoodRecord, WriterShape, UploadProtected, RowLocksExclusive,
       AdvisoryLocksExclusive, Publishing, Drawn

\* The steps of an open transaction before its commit.
LEMMA InvWriterMoves ==
  ASSUME NEW w \in Writers, IInv,
         \/ AdvisoryLock(w) \/ StagePut(w) \/ StageClear(w) \/ StageDrop(w)
         \/ PutPending(w) \/ CopyToKey(w) \/ Rollback(w)
  PROVE  IInv'
<1> DEFINE o == writer[w]
<1>1. /\ faults \in 0 .. MaxFaults /\ used \subseteq Keys /\ s3 \subseteq Keys
      /\ writer \in [Writers -> WriterRecords]
  BY DEF IInv, TypeOK
<1>2. /\ o \in WriterRecords
      /\ o.held \subseteq Keys /\ o.retired \subseteq Keys
      /\ Publishing(w) => o.key \in used /\ o.pending \in used /\ o.key \in Keys
           /\ o.pending \in Keys
  BY WriterFacts
<1>3. GoodRecord(w, o)
  BY OldRecordGood
<1>4. o.pc = "copied" /\ o.op = "put" => o.key \in s3
  BY DEF IInv, UploadProtected, Publishing
<1>5. /\ o.op # "put" => o.pc \in {"locked", "copied"}
      /\ o.pc # "idle" /\ o.op = "put" => Publishing(w)
  BY DEF IInv, WriterShape, Publishing
<1>6. CASE AdvisoryLock(w)
  <2> DEFINE k == NextKey(w)
             r == [o EXCEPT !.held = @ \cup {k}]
  <2>1. /\ o.pc = "locked" /\ o.op = "put" /\ LockFree(k)
        /\ writer' = [writer EXCEPT ![w] = r]
        /\ UNCHANGED <<live, cell, objects, queue, s3, late, used, cleaner, reader, faults>>
    BY <1>6 DEF AdvisoryLock, dbVars, s3Vars
  <2>2. k \in {o.key, o.pending} /\ k \in Keys
    BY <1>2, <1>5, <2>1 DEF NextKey
  <2> HIDE DEF k
  <2>3. /\ r \in WriterRecords /\ r.pc = "locked" /\ r.op = "put" /\ r.cell = o.cell
        /\ r.key = o.key /\ r.pending = o.pending /\ r.held = o.held \cup {k}
        /\ r.retired = o.retired
    BY <1>2, <2>1, <2>2 DEF WriterRecords
  <2> HIDE DEF r
  <2>4. \A c \in Cleaners : k \notin cleaner[c].locks
    BY <2>1 DEF LockFree, ExclusivelyFree
  <2>5. GoodRecord(w, r)
    BY <1>3, <2>1, <2>2, <2>3, <2>4 DEF GoodRecord
  <2>6. QED
    BY <1>1, <1>2, <1>5, <2>1, <2>3, <2>5, WriterMove
<1>7. ASSUME o.pc = "locked", QueueRetired(w),
             o.op = "put" => o.key \in o.held /\ objects[o.key] # NoCell,
             UNCHANGED <<live, cell, objects, queue, s3, late, used, cleaner, reader, faults>>
      PROVE  IInv'
  <2> DEFINE next == IF o.op = "put" THEN "staged" ELSE "copied"
             rs == Retired(w) \ queue
             r == [o EXCEPT !.retired = rs, !.pc = next]
  <2>1. writer' = [writer EXCEPT ![w] = r]
    BY <1>7 DEF QueueRetired
  <2>2. rs \subseteq Keys /\ rs \subseteq Referenced
    BY BlobAssumption, <1>7, <1>3 DEF Retired, Referenced, GoodRecord, CellsOf
  <2> HIDE DEF rs
  <2>3. /\ r \in WriterRecords /\ r.pc = next /\ r.op = o.op /\ r.cell = o.cell
        /\ r.key = o.key /\ r.pending = o.pending /\ r.held = o.held
        /\ r.retired = rs
    BY <1>2, <2>2 DEF WriterRecords
  <2> HIDE DEF r
  <2>4. o.op = "put" => objects[o.key] = o.cell
    BY <1>3, <1>7 DEF GoodRecord
  <2>5. GoodRecord(w, r)
    BY <1>3, <1>7, <2>2, <2>3, <2>4 DEF GoodRecord
  <2>6. QED
    BY <1>1, <1>2, <1>5, <1>7, <2>1, <2>3, <2>5, WriterMove
<1>8. CASE StagePut(w)
  BY <1>7, <1>8 DEF StagePut, dbVars, s3Vars
<1>9. CASE StageClear(w)
  <2>1. CASE cell[o.cell] = NoKey
    <3>1. /\ writer' = [writer EXCEPT ![w] = NoWrite]
          /\ UNCHANGED <<live, cell, objects, queue, s3, late, used, cleaner, reader, faults>>
      BY <1>9, <2>1 DEF StageClear, dbVars, s3Vars
    <3>2. GoodRecord(w, NoWrite)
      BY NoWriteRecord DEF GoodRecord
    <3>3. QED
      BY <1>1, <3>1, <3>2, NoWriteRecord, WriterMove
  <2>2. CASE cell[o.cell] # NoKey
    BY <1>7, <1>9, <2>2 DEF StageClear, dbVars, s3Vars
  <2>3. QED
    BY <2>1, <2>2
<1>10. CASE StageDrop(w)
  BY <1>7, <1>10 DEF StageDrop, dbVars, s3Vars
<1>11. CASE PutPending(w)
  <2> DEFINE r == [o EXCEPT !.pc = "uploaded"]
  <2>1. /\ o.pc = "staged" /\ s3' = s3 \cup {o.pending}
        /\ writer' = [writer EXCEPT ![w] = r]
        /\ UNCHANGED <<live, cell, objects, queue, late, used, cleaner, reader, faults>>
    BY <1>11 DEF PutPending, dbVars
  <2>2. o.op = "put" /\ o.pending \in Keys
    BY <1>2, <1>5, <2>1
  <2>3. /\ r \in WriterRecords /\ r.pc = "uploaded" /\ r.op = "put" /\ r.cell = o.cell
        /\ r.key = o.key /\ r.pending = o.pending /\ r.held = o.held /\ r.retired = o.retired
    BY <1>2, <2>2 DEF WriterRecords
  <2> HIDE DEF r
  <2>4. GoodRecord(w, r)
    BY <1>3, <2>1, <2>2, <2>3 DEF GoodRecord
  <2>5. QED
    BY <1>1, <1>2, <1>5, <2>1, <2>2, <2>3, <2>4, WriterMove
<1>12. CASE CopyToKey(w)
  <2> DEFINE r == [o EXCEPT !.pc = "copied"]
  <2>1. /\ o.pc = "uploaded" /\ s3' = s3 \cup {o.key}
        /\ writer' = [writer EXCEPT ![w] = r]
        /\ UNCHANGED <<live, cell, objects, queue, late, used, cleaner, reader, faults>>
    BY <1>12 DEF CopyToKey, dbVars
  <2>2. o.op = "put" /\ o.key \in Keys
    BY <1>2, <1>5, <2>1
  <2>3. /\ r \in WriterRecords /\ r.pc = "copied" /\ r.op = "put" /\ r.cell = o.cell
        /\ r.key = o.key /\ r.pending = o.pending /\ r.held = o.held /\ r.retired = o.retired
    BY <1>2, <2>2 DEF WriterRecords
  <2> HIDE DEF r
  <2>4. GoodRecord(w, r)
    BY <1>3, <2>1, <2>2, <2>3 DEF GoodRecord
  <2>5. QED
    BY <1>1, <1>2, <1>5, <2>1, <2>2, <2>3, <2>4, WriterMove
<1>13. CASE Rollback(w)
  <2>1. /\ o.pc # "idle" /\ writer' = [writer EXCEPT ![w] = NoWrite]
        /\ UNCHANGED <<live, cell, objects, queue, s3, used, cleaner, reader>>
    BY <1>13 DEF Rollback, dbVars
  <2>2. faults' \in 0 .. MaxFaults
    BY <1>1, <1>13, BlobAssumption DEF Rollback, Fault
  <2>3. o.pc \in {"staged", "uploaded"} => o.key \in Keys /\ o.pending \in Keys
    BY <1>2, <1>5
  <2>4. late' \subseteq late \cup ({"put"} \X Keys)
    BY <1>13, <2>3 DEF Rollback
  <2>5. GoodRecord(w, NoWrite)
    BY NoWriteRecord DEF GoodRecord
  <2>6. QED
    BY <1>1, <2>1, <2>2, <2>4, <2>5, NoWriteRecord, WriterMove
<1>14. QED
  BY <1>6, <1>8, <1>9, <1>10, <1>11, <1>12, <1>13

\* The registration session publishes an owner and a recovery record at once.
LEMMA InvRegisterUpload ==
  ASSUME NEW w \in Writers, IInv, RegisterUpload(w)
  PROVE  IInv'
<1>1. PICK k \in writer[w].held :
        /\ objects[k] = NoCell
        /\ objects' = [objects EXCEPT ![k] = writer[w].cell]
        /\ queue' = queue \cup {k}
  BY DEF RegisterUpload
<1>2. /\ writer[w].pc = "locked" /\ writer[w].op = "put"
      /\ UNCHANGED <<live, cell, s3, late, used, writer, cleaner, reader, faults>>
  BY DEF RegisterUpload, s3Vars
<1>3. /\ k \in Keys /\ k \in used /\ k \in Drawn(w)
      /\ writer[w].cell \in Cells /\ Publishing(w)
      /\ objects \in [Keys -> Cells \cup {NoCell}]
  BY <1>1, <1>2, WriterFacts DEF IInv, TypeOK, WriterShape, Publishing, Drawn
<1>4. Referenced' = Referenced /\ \A j \in Keys : j # k => objects'[j] = objects[j]
  BY <1>1, <1>2, <1>3 DEF Referenced
<1>5. TypeOK'
  BY <1>1, <1>2, <1>3 DEF IInv, TypeOK
<1>6. FreshKeysUnknown'
  BY <1>1, <1>2, <1>3, <1>4 DEF IInv, FreshKeysUnknown
<1>7. WriterShape' /\ RowLocksExclusive'
  BY <1>2 DEF IInv, WriterShape, RowLocksExclusive, Publishing, Drawn
<1>8. \A v \in Writers : Publishing(v) => writer[v].key \in Keys
                                          /\ (v # w => writer[v].key # k)
  BY <1>3, WriterFacts DEF IInv, UploadPrivate, Drawn
<1>9. UploadProtected'
  <2> SUFFICES ASSUME NEW v \in Writers, Publishing(v)
               PROVE  /\ objects'[writer[v].key] \in {NoCell, writer[v].cell}
                      /\ writer[v].pc # "locked" =>
                             writer[v].key \in writer[v].held
                               /\ objects'[writer[v].key] = writer[v].cell
                      /\ writer[v].pc = "copied" => writer[v].key \in s3
    BY <1>2 DEF UploadProtected, Publishing
  <2>1. objects[writer[v].key] # NoCell => objects'[writer[v].key] = objects[writer[v].key]
    BY <1>1, <1>4, <1>8
  <2>2. objects'[writer[v].key] \in {objects[writer[v].key], writer[v].cell}
    BY <1>1, <1>3, <1>4, <1>8
  <2>3. writer[v].pc # "locked" => v # w
    BY <1>2
  <2>4. QED
    BY <1>4, <1>8, <2>2, <2>3 DEF IInv, UploadProtected
<1>10. UploadPrivate'
  <2> SUFFICES ASSUME NEW v \in Writers, Publishing(v)
               PROVE  /\ writer[v].key \notin Referenced
                      /\ <<"delete", writer[v].key>> \notin late
                      /\ \A u \in Writers : writer[v].key \notin writer[u].retired
                      /\ \A u \in Writers \ {v} : Publishing(u) => Drawn(u) \cap Drawn(v) = {}
                      /\ writer[v].key \notin writer[v].held =>
                             /\ writer[v].key \notin queue'
                             /\ objects'[writer[v].key] = NoCell
                             /\ \A c \in Cleaners : writer[v].key \notin cleaner[c].batch
    BY <1>2, <1>4 DEF UploadPrivate, Publishing, Drawn
  <2>1. writer[v].key \notin writer[v].held => writer[v].key # k
    BY <1>8
  <2>2. QED
    BY <1>1, <1>4, <1>8, <2>1 DEF IInv, UploadPrivate
<1>11. AdvisoryLocksExclusive' /\ CleanerShape' /\ LateDeletesHarmless' /\ ReaderShape'
  BY <1>2, <1>4 DEF IInv, AdvisoryLocksExclusive, CleanerShape, LateDeletesHarmless, ReaderShape
<1>12. PointerHasObject'
  <2> SUFFICES ASSUME NEW x \in Cells, cell[x] # NoKey
               PROVE  cell[x] \in s3 /\ objects'[cell[x]] = x
    BY <1>2 DEF PointerHasObject
  <2>1. cell[x] \in Keys /\ cell[x] \in s3 /\ objects[cell[x]] = x /\ x # NoCell
    BY BlobAssumption DEF IInv, TypeOK, Pointers, PointerHasObject
  <2>2. QED
    BY <1>1, <1>4, <2>1
<1>13. QED
  BY <1>5, <1>6, <1>7, <1>9, <1>10, <1>11, <1>12 DEF IInv

\* The commit publishes the pointer, the queue rows and the cascade.
LEMMA InvCommit ==
  ASSUME NEW w \in Writers, IInv, Commit(w)
  PROVE  IInv'
<1> DEFINE x == writer[w].cell
           key == writer[w].key
           gone == IF writer[w].op = "drop" THEN CellsOf(x[1]) ELSE {}
<1>1. /\ writer[w].pc = "copied"
      /\ cell' = [y \in Cells |-> IF y \in gone THEN NoKey ELSE IF y = x THEN key ELSE cell[y]]
      /\ live' = IF writer[w].op = "drop" THEN live \ {x[1]} ELSE live
      /\ objects' = [k \in Keys |-> IF objects[k] \in gone THEN NoCell ELSE objects[k]]
      /\ queue' = queue \cup writer[w].retired
      /\ writer' = [writer EXCEPT ![w] = NoWrite]
      /\ UNCHANGED <<s3, late, used, cleaner, reader, faults>>
  BY DEF Commit, s3Vars
<1>2. /\ x \in Cells /\ x[1] \in live /\ key \in Pointers
      /\ writer[w].retired \subseteq Keys
      /\ (writer[w].op # "put" => key = NoKey)
  BY <1>1, WriterFacts DEF WriterRecords
<1>3. writer[w].op = "put" =>
        /\ Publishing(w) /\ key \in Keys /\ key \in used /\ key \in writer[w].held
        /\ key \in s3 /\ objects[key] = x /\ <<"delete", key>> \notin late
  BY <1>1, WriterFacts DEF IInv, UploadProtected, UploadPrivate, Publishing
<1>4. Referenced' \subseteq Referenced \cup (IF writer[w].op = "put" THEN {key} ELSE {})
  BY <1>1, <1>2 DEF Referenced
<1>5. \A v \in Writers : writer'[v] = IF v = w THEN NoWrite ELSE writer[v]
  BY <1>1 DEF IInv, TypeOK
<1>6. \A v \in Writers \ {w} : writer[v].pc # "idle" =>
        /\ writer[v].cell \in Cells /\ writer[v].cell \notin gone
        /\ writer[v].cell[1] \in live'
  BY <1>1, WriterFacts DEF IInv, RowLocksExclusive, CellsOf
<1>7. \A v \in Writers \ {w} : Publishing(v) =>
        /\ writer[v].key \in Keys
        /\ writer[v].key \notin writer[w].retired
        /\ (writer[w].op = "put" => writer[v].key # key)
  BY <1>3, WriterFacts DEF IInv, UploadPrivate, Drawn
<1> HIDE DEF gone, x, key
<1>8. TypeOK'
  <2>1. cell' \in [Cells -> Pointers] /\ objects' \in [Keys -> Cells \cup {NoCell}]
    BY <1>1, <1>2 DEF IInv, TypeOK, Pointers
  <2>2. QED
    BY <1>1, <1>2, <2>1, NoWriteRecord DEF IInv, TypeOK
<1>9. FreshKeysUnknown'
  BY <1>1, <1>2, <1>3, <1>4, <1>5, NoWriteRecord DEF IInv, FreshKeysUnknown
<1>10. WriterShape'
  BY <1>1, <1>5, <1>6, NoWriteRecord DEF IInv, WriterShape, Publishing, Drawn
<1>11. UploadProtected'
  BY <1>1, <1>5, <1>6, <1>7, NoWriteRecord DEF IInv, UploadProtected, Publishing
<1>12. RowLocksExclusive'
  BY <1>5, NoWriteRecord DEF IInv, RowLocksExclusive
<1>13. UploadPrivate'
  <2> SUFFICES ASSUME NEW v \in Writers \ {w}, Publishing(v)
               PROVE  /\ writer[v].key \notin Referenced'
                      /\ <<"delete", writer[v].key>> \notin late
                      /\ \A u \in Writers : writer[v].key \notin writer'[u].retired
                      /\ \A u \in Writers \ {v, w} : Publishing(u) => Drawn(u) \cap Drawn(v) = {}
                      /\ writer[v].key \notin writer[v].held =>
                             /\ writer[v].key \notin queue'
                             /\ objects'[writer[v].key] = NoCell
                             /\ \A c \in Cleaners : writer[v].key \notin cleaner[c].batch
    BY <1>1, <1>5, NoWriteRecord DEF UploadPrivate, Publishing, Drawn
  <2>1. QED
    BY <1>1, <1>4, <1>5, <1>7, NoWriteRecord DEF IInv, UploadPrivate
<1>14. AdvisoryLocksExclusive'
  BY <1>1, <1>5, NoWriteRecord DEF IInv, AdvisoryLocksExclusive
<1>15. CleanerShape'
  BY <1>1, <1>3, <1>4 DEF IInv, CleanerShape, AdvisoryLocksExclusive
<1>16. LateDeletesHarmless' /\ ReaderShape'
  BY <1>1, <1>3, <1>4 DEF IInv, LateDeletesHarmless, ReaderShape
<1>17. PointerHasObject'
  <2> SUFFICES ASSUME NEW y \in Cells, cell'[y] # NoKey
               PROVE  cell'[y] \in s3 /\ objects'[cell'[y]] = y
    BY <1>1 DEF PointerHasObject
  <2>1. y \notin gone /\ cell'[y] = IF y = x THEN key ELSE cell[y]
    BY <1>1
  <2>2. cell'[y] \in Keys /\ cell'[y] \in s3 /\ objects[cell'[y]] = y
    BY <1>2, <1>3, <2>1 DEF IInv, TypeOK, Pointers, PointerHasObject
  <2>3. QED
    BY <1>1, <2>1, <2>2
<1>18. QED
  BY <1>8, <1>9, <1>10, <1>11, <1>12, <1>13, <1>14, <1>15, <1>16, <1>17 DEF IInv

\* A request S3 applies late adds garbage or removes garbage.
LEMMA InvLateRequest ==
  ASSUME IInv, LateRequest
  PROVE  IInv'
<1>1. PICK r \in late :
        /\ late' = late \ {r}
        /\ s3' = IF r[1] = "put" THEN s3 \cup {r[2]} ELSE s3 \ {r[2]}
        /\ UNCHANGED <<live, cell, objects, queue, used, writer, cleaner, reader, faults>>
  BY DEF LateRequest, dbVars
<1>2. r \in {"put", "delete"} \X Keys
  BY DEF IInv, TypeOK
<1>3. \A k \in Keys : k \in s3 /\ k \notin s3' => <<"delete", k>> \in late
  BY <1>1, <1>2
<1>4. TypeOK'
  BY <1>1, <1>2 DEF IInv, TypeOK
<1>5. FreshKeysUnknown' /\ LateDeletesHarmless'
  BY <1>1 DEF IInv, FreshKeysUnknown, LateDeletesHarmless, Referenced
<1>6. WriterShape' /\ RowLocksExclusive'
  BY <1>1 DEF IInv, WriterShape, RowLocksExclusive, Publishing, Drawn
<1>7. UploadProtected'
  <2>1. \A w \in Writers : Publishing(w) => writer[w].key \in Keys /\ <<"delete",
          writer[w].key>> \notin late
    BY WriterFacts DEF IInv, UploadPrivate
  <2>2. QED
    BY <1>1, <1>3, <2>1 DEF IInv, UploadProtected, Publishing
<1>8. UploadPrivate' /\ CleanerShape'
  BY <1>1 DEF IInv, UploadPrivate, CleanerShape, Publishing, Drawn, Referenced
<1>9. AdvisoryLocksExclusive'
  BY <1>1 DEF IInv, AdvisoryLocksExclusive
<1>10. ReaderShape'
  BY <1>1, <1>3 DEF IInv, ReaderShape
<1>11. PointerHasObject'
  <2>1. \A y \in Cells : cell[y] # NoKey => cell[y] \in Keys /\ cell[y] \in Referenced
    BY DEF IInv, TypeOK, Pointers, Referenced
  <2>2. QED
    BY <1>1, <1>3, <2>1 DEF IInv, PointerHasObject, LateDeletesHarmless
<1>12. QED
  BY <1>4, <1>5, <1>6, <1>7, <1>8, <1>9, <1>10, <1>11 DEF IInv

-----------------------------------------------------------------------------
(* Theorems. *)

LEMMA InvNext == IInv /\ [Next]_vars => IInv'
<1> SUFFICES ASSUME IInv, [Next]_vars PROVE IInv'
  OBVIOUS
<1>1. ASSUME NEW w \in Writers, NEW x \in Cells, BeginPut(w, x)
      PROVE  IInv'
  BY <1>1, InvBegin
<1>2. ASSUME NEW w \in Writers, NEW x \in Cells, NEW op \in {"clear", "drop"}, BeginRemove(w, op, x)
      PROVE  IInv'
  BY <1>2, InvBegin
<1>3. ASSUME NEW w \in Writers, WriterStep(w) \/ Rollback(w)
      PROVE  IInv'
  BY <1>3, InvWriterMoves, InvRegisterUpload, InvCommit DEF WriterStep
<1>4. ASSUME NEW q \in Readers, NEW x \in Cells, StartRead(q, x)
      PROVE  IInv'
  BY <1>4, InvStartRead
<1>5. ASSUME NEW q \in Readers, ReaderStep(q) \/ AbortRead(q)
      PROVE  IInv'
  BY <1>5, InvReaderStep
<1>6. ASSUME NEW c \in Cleaners, CleanerStep(c) \/ DeleteFails(c) \/ CrashBatch(c)
      PROVE  IInv'
  BY <1>6, InvCleanerStep
<1>7. CASE LateRequest
  BY <1>7, InvLateRequest
<1>8. CASE UNCHANGED vars
  BY <1>8 DEF vars, IInv, TypeOK, FreshKeysUnknown, WriterShape, UploadProtected, RowLocksExclusive,
              UploadPrivate, AdvisoryLocksExclusive, CleanerShape, LateDeletesHarmless, ReaderShape,
              PointerHasObject, Publishing, Drawn, Referenced
<1>9. QED
  BY <1>1, <1>2, <1>3, <1>4, <1>5, <1>6, <1>7, <1>8 DEF Next

\* The inductive invariant holds in every reachable state.
THEOREM Invariant == Spec => []IInv
BY InvInit, InvNext, PTL DEF Spec

\* Every variable keeps its type through uploads, downloads, removals and
\* cleanups in any number.
THEOREM TypeCorrect == Spec => []TypeOK
<1>1. IInv => TypeOK
  BY DEF IInv
<1>2. QED
  BY Invariant, <1>1, PTL

\* A committed pointer always has its bytes and its owner: put_blob_cell commits
\* after the copy, and cleanup_once deletes only what it locked and found
\* unreferenced.
THEOREM PointersHold == Spec => []PointerHasObject
<1>1. IInv => PointerHasObject
  BY DEF IInv
<1>2. QED
  BY Invariant, <1>1, PTL

\* get_blob_cell, once it has validated its key under the shared lock, finds
\* the bytes: no cleaner and no abandoned request can take them away.
THEOREM DownloadsSucceed == Spec => []DownloadFindsBytes
<1>1. IInv => DownloadFindsBytes
  BY DEF IInv, ReaderShape, DownloadFindsBytes
<1>2. QED
  BY Invariant, <1>1, PTL

\* put_blob_cell never commits a pointer whose bytes a cleaner collected between
\* the copy and the commit.
THEOREM UploadsSurvive == Spec => []UploadKeepsBytes
<1>1. IInv => UploadKeepsBytes
  BY DEF IInv, UploadProtected, Publishing, UploadKeepsBytes
<1>2. QED
  BY Invariant, <1>1, PTL

\* All three at once, as the runs check them.
THEOREM BytesAreKept == Spec => []BytesKept
BY PointersHold, DownloadsSucceed, UploadsSurvive, PTL DEF BytesKept

-----------------------------------------------------------------------------
(* Downloads that find nothing. *)

\* A download ends by a reply of its own.
LEMMA RepliesAreOwn ==
  ASSUME IInv, Next, NEW q \in Readers, reader[q].pc # "idle", reader'[q].pc = "idle"
  PROVE  ReaderStep(q) \/ AbortRead(q)
<1>1. reader \in [Readers -> ReaderRecords]
  BY DEF IInv, TypeOK
<1>2. \A p \in Readers : \A r : reader' = [reader EXCEPT ![p] = r] => p = q
  BY <1>1
<1>3. reader' # reader
  OBVIOUS
<1>4. ~LateRequest
  BY <1>3 DEF LateRequest
<1>5. ASSUME NEW w \in Writers
      PROVE  /\ \A x \in Cells : ~BeginPut(w, x) /\ \A op \in {"clear", "drop"} :
                  ~BeginRemove(w, op, x)
             /\ ~WriterStep(w) /\ ~Rollback(w)
  <2>1. \A x \in Cells : ~BeginPut(w, x)
    BY <1>3 DEF BeginPut
  <2>2. \A x \in Cells, op \in {"clear", "drop"} : ~BeginRemove(w, op, x)
    BY <1>3 DEF BeginRemove
  <2>3. ~AdvisoryLock(w) /\ ~RegisterUpload(w)
    BY <1>3 DEF AdvisoryLock, RegisterUpload
  <2>4. ~StagePut(w) /\ ~StageClear(w) /\ ~StageDrop(w)
    BY <1>3 DEF StagePut, StageClear, StageDrop
  <2>5. ~PutPending(w) /\ ~CopyToKey(w) /\ ~Commit(w) /\ ~Rollback(w)
    BY <1>3 DEF PutPending, CopyToKey, Commit, Rollback
  <2>6. QED
    BY <2>1, <2>2, <2>3, <2>4, <2>5 DEF WriterStep
<1>6. ASSUME NEW c \in Cleaners
      PROVE  ~CleanerStep(c) /\ ~DeleteFails(c) /\ ~CrashBatch(c)
  <2>1. ~Claim(c) /\ ~TryLock(c) /\ ~CheckReferenced(c)
    BY <1>3 DEF Claim, TryLock, CheckReferenced
  <2>2. ~DeleteObject(c) /\ ~Forget(c) /\ ~Unqueue(c) /\ ~CommitBatch(c)
    BY <1>3 DEF DeleteObject, Forget, Unqueue, CommitBatch
  <2>3. ~DeleteFails(c) /\ ~CrashBatch(c)
    BY <1>3 DEF DeleteFails, CrashBatch
  <2>4. QED
    BY <2>1, <2>2, <2>3 DEF CleanerStep
<1>7. ASSUME NEW p \in Readers, NEW x \in Cells, StartRead(p, x)
      PROVE  FALSE
  <2>1. p = q
    BY <1>2, <1>7 DEF StartRead
  <2>2. QED
    BY <1>7, <2>1 DEF StartRead
<1>8. ASSUME NEW p \in Readers, ReaderStep(p) \/ AbortRead(p)
      PROVE  p = q
  BY <1>2, <1>8 DEF ReaderStep, AbortRead, CheckOwner, LockShared, Recheck, Fetch, Reply
<1>9. QED
  BY <1>4, <1>5, <1>6, <1>7, <1>8 DEF Next

\* get_blob_cell answers 404 only for a pointer that is no longer the cell's: the
\* ownership check, the second look at the row and S3 cannot fail for another
\* reason.
THEOREM NotFoundIsHonest == Spec => NotFoundOnlyIfChanged
<1>1. ASSUME IInv, [Next]_vars, NEW q \in Readers,
             reader[q].pc # "idle", reader'[q].pc = "idle", reader'[q].reply = "404"
      PROVE  cell[reader[q].cell] # reader[q].key
  <2>1. reader \in [Readers -> ReaderRecords] /\ reader[q].cell \in Cells /\ reader[q].key \in Keys
    BY <1>1 DEF IInv, TypeOK, ReaderShape
  <2>2. reader' # reader
    BY <1>1
  <2>3. ReaderStep(q) \/ AbortRead(q)
    BY <1>1, <2>2, RepliesAreOwn DEF vars
  <2>4. CASE CheckOwner(q)
    <3>1. objects[reader[q].key] # reader[q].cell
      <4>1. ASSUME objects[reader[q].key] = reader[q].cell
            PROVE  reader' = [reader EXCEPT ![q].pc = "owned"]
        BY <2>4, <4>1 DEF CheckOwner
      <4>2. QED
        BY <1>1, <2>1, <4>1 DEF ReaderRecords
    <3>2. cell[reader[q].cell] # NoKey => objects[cell[reader[q].cell]] = reader[q].cell
      BY <1>1, <2>1 DEF IInv, PointerHasObject
    <3>3. QED
      BY <2>1, <3>1, <3>2, BlobAssumption
  <2>5. CASE LockShared(q)
    BY <1>1, <2>1, <2>5 DEF LockShared
  <2>6. CASE Recheck(q)
    <3>1. ASSUME cell[reader[q].cell] = reader[q].key
          PROVE  reader' = [reader EXCEPT ![q].pc = "fetch"]
      BY <2>6, <3>1, Zenon DEF Recheck
    <3>2. QED
      BY <1>1, <2>1, <3>1 DEF ReaderRecords
  <2>7. CASE Fetch(q)
    <3>1. reader'[q].reply = IF reader[q].key \in s3 THEN "200" ELSE "404"
      BY <2>1, <2>7 DEF Fetch, Reply, NoRead
    <3>2. reader[q].key \in s3
      BY <1>1, <2>7 DEF Fetch, IInv, ReaderShape
    <3>3. QED
      BY <1>1, <3>1, <3>2
  <2>8. CASE AbortRead(q)
    BY <1>1, <2>1, <2>8 DEF AbortRead, Reply, NoRead
  <2>9. QED
    BY <2>3, <2>4, <2>5, <2>6, <2>7, <2>8 DEF ReaderStep
<1>2. QED
  <2>1. IInv /\ [Next]_vars =>
            [\A q \in Readers :
                reader[q].pc # "idle" /\ reader'[q].pc = "idle" /\ reader'[q].reply = "404" =>
                    cell[reader[q].cell] # reader[q].key]_vars
    BY <1>1
  <2>2. QED
    BY Invariant, <2>1, PTL DEF Spec, NotFoundOnlyIfChanged

-----------------------------------------------------------------------------
(* The store implements the atomic register of BlobCell.                     *)

\* Steps that touch neither rows, pointers, the bucket nor a promise are stutters.
LEMMA Stutters ==
  ASSUME UNCHANGED <<live, cell, s3, reader>>
  PROVE  UNCHANGED Register!vars
BY DEF Register!vars, Serving

LEMMA RegisterInit == Init => Register!Init
BY DEF Init, Register!Init, Register!Cells, Cells, Serving, NoRead

\* The commit of a transaction publishes, clears or drops.
LEMMA CommitImplements ==
  ASSUME IInv, NEW w \in Writers, Commit(w)
  PROVE  [Register!Next]_Register!vars
<1> DEFINE x == writer[w].cell
<1>1. /\ writer[w] \in WriterRecords /\ writer[w].pc = "copied"
      /\ cell \in [Cells -> Pointers] /\ x \in Cells /\ x[1] \in live /\ live \subseteq Rows
  BY DEF Commit, IInv, TypeOK, WriterShape
<1>2. UNCHANGED <<s3, reader>>
  BY DEF Commit, s3Vars
<1>3. CASE writer[w].op = "put"
  <2>1. writer[w].key \in Keys /\ writer[w].key \in s3 /\ writer[w].key \notin Referenced
    BY <1>1, <1>3 DEF IInv, UploadProtected, UploadPrivate, WriterShape, Publishing, TypeOK, Drawn
  <2>2. live' = live /\ cell' = [cell EXCEPT ![x] = writer[w].key]
    BY <1>1, <1>3 DEF Commit
  <2>3. Register!Publish(x, writer[w].key)
    BY <1>1, <1>2, <2>1, <2>2
       DEF Register!Publish, Register!Pointed, Register!Cells, Cells, Referenced, Serving
  <2>4. QED
    BY <1>1, <2>1, <2>3 DEF Register!Next, Register!Cells, Cells
<1>4. CASE writer[w].op = "clear"
  <2>1. live' = live /\ cell' = [cell EXCEPT ![x] = NoKey]
    BY <1>1, <1>4 DEF Commit, IInv, WriterShape
  <2>2. CASE cell[x] = NoKey
    BY <1>1, <1>2, <2>1, <2>2, Stutters
  <2>3. CASE cell[x] # NoKey
    <3>1. Register!Clear(x)
      BY <1>2, <2>1, <2>3 DEF Register!Clear, Serving
    <3>2. QED
      BY <1>1, <3>1 DEF Register!Next, Register!Cells, Cells
  <2>4. QED
    BY <2>2, <2>3
<1>5. CASE writer[w].op = "drop"
  <2>1. /\ live' = live \ {x[1]} /\ x[1] \in Rows
        /\ cell' = [y \in Cells |-> IF y[1] = x[1] THEN NoKey ELSE cell[y]]
    BY <1>1, <1>5 DEF Commit, CellsOf, Cells
  <2>2. Register!Drop(x[1])
    BY <1>1, <1>2, <2>1 DEF Register!Drop, Register!Cells, Cells, Serving
  <2>3. QED
    BY <2>1, <2>2 DEF Register!Next
<1>6. QED
  BY <1>1, <1>3, <1>4, <1>5 DEF WriterRecords

\* PutPending and CopyToKey store an object; what else a writer does is hidden.
LEMMA WriterImplements ==
  ASSUME IInv, NEW w \in Writers, WriterStep(w) \/ Rollback(w)
  PROVE  [Register!Next]_Register!vars
<1>1. ASSUME NEW k \in Keys, s3' = s3 \cup {k}, UNCHANGED <<live, cell, reader>>
      PROVE  Register!Next
  BY <1>1 DEF Register!Next, Register!Store, Serving
<1>2. writer[w] \in WriterRecords
  BY DEF IInv, TypeOK
<1>3. writer[w].pc \in {"staged", "uploaded"} => writer[w].key \in Keys
        /\ writer[w].pending \in Keys
  BY <1>2 DEF IInv, WriterShape, TypeOK, Publishing, Drawn, WriterRecords
<1>4. CASE PutPending(w)
  BY <1>1, <1>3, <1>4 DEF PutPending, dbVars
<1>5. CASE CopyToKey(w)
  BY <1>1, <1>3, <1>5 DEF CopyToKey, dbVars
<1>6. CASE Commit(w)
  BY <1>6, CommitImplements
<1>7. CASE AdvisoryLock(w) \/ RegisterUpload(w) \/ StagePut(w)
  BY <1>7, Stutters DEF AdvisoryLock, RegisterUpload, StagePut, dbVars, s3Vars
<1>8. CASE StageClear(w) \/ StageDrop(w) \/ Rollback(w)
  BY <1>8, Stutters DEF StageClear, StageDrop, Rollback, dbVars, s3Vars
<1>9. QED
  BY <1>4, <1>5, <1>6, <1>7, <1>8 DEF WriterStep

\* DeleteObject removes an object that no cell points at and no download was
\* promised: the key is locked, and a download holds the lock of its key.
LEMMA CleanerImplements ==
  ASSUME IInv, NEW c \in Cleaners, CleanerStep(c) \/ DeleteFails(c) \/ CrashBatch(c)
  PROVE  [Register!Next]_Register!vars
<1>1. CASE DeleteObject(c)
  <2> DEFINE k == cleaner[c].cur
  <2>1. k \in cleaner[c].locks /\ k \notin Referenced
    BY <1>1 DEF DeleteObject, IInv, CleanerShape
  <2>2. k \in Keys
    BY <2>1 DEF IInv, TypeOK, CleanerRecords
  <2>3. \A q \in Readers : reader[q].pc = "fetch" => reader[q].key # k
    BY <2>1 DEF IInv, AdvisoryLocksExclusive, ReaderShape
  <2>4. Register!Remove(k)
    BY <1>1, <2>1, <2>2, <2>3, BlobAssumption
       DEF DeleteObject, dbVars, Register!Remove, Register!Pointed, Register!Promised,
         Register!Cells,
           Cells, Referenced, Serving
  <2>5. QED
    BY <2>2, <2>4 DEF Register!Next
<1>2. CASE Claim(c) \/ TryLock(c) \/ CheckReferenced(c)
  BY <1>2, Stutters DEF Claim, TryLock, CheckReferenced, dbVars, s3Vars
<1>3. CASE Forget(c) \/ Unqueue(c) \/ CommitBatch(c)
  BY <1>3, Stutters DEF Forget, Unqueue, CommitBatch, dbVars, s3Vars
<1>4. CASE DeleteFails(c) \/ CrashBatch(c)
  BY <1>4, Stutters DEF DeleteFails, CrashBatch, dbVars
<1>5. QED
  BY <1>1, <1>2, <1>3, <1>4 DEF CleanerStep

\* A request that S3 applies late stores an object or removes one that no cell
\* and no download needs.
LEMMA LateRequestImplements ==
  ASSUME IInv, LateRequest
  PROVE  [Register!Next]_Register!vars
<1>1. PICK r \in late : /\ s3' = IF r[1] = "put" THEN s3 \cup {r[2]} ELSE s3 \ {r[2]}
                        /\ UNCHANGED <<live, cell, reader>>
  BY DEF LateRequest, dbVars
<1>2. r \in {"put", "delete"} \X Keys
  BY DEF IInv, TypeOK
<1>3. CASE r[1] = "put"
  BY <1>1, <1>2, <1>3 DEF Register!Next, Register!Store, Serving
<1>4. CASE r[1] = "delete"
  <2>1. r = <<"delete", r[2]>> /\ r[2] \in Keys
    BY <1>2, <1>4
  <2>2. r[2] \notin Referenced /\ \A q \in Readers : reader[q].pc = "fetch" => reader[q].key # r[2]
    BY <2>1 DEF IInv, LateDeletesHarmless, ReaderShape
  <2>3. Register!Remove(r[2])
    BY <1>1, <1>4, <2>1, <2>2, BlobAssumption
       DEF Register!Remove, Register!Pointed, Register!Promised, Register!Cells, Cells, Referenced,
         Serving
  <2>4. QED
    BY <2>1, <2>3 DEF Register!Next
<1>5. QED
  BY <1>2, <1>3, <1>4

\* A download is promised its key by the successful second look at the row, and
\* the promise ends with the reply.
LEMMA ReaderImplements ==
  ASSUME IInv, NEW q \in Readers,
         \/ \E x \in Cells : StartRead(q, x)
         \/ ReaderStep(q) \/ AbortRead(q)
  PROVE  [Register!Next]_Register!vars
<1> DEFINE promise == [p \in Readers |-> Serving(p)]
<1>1. reader \in [Readers -> ReaderRecords] /\ UNCHANGED <<live, cell, s3>>
  BY DEF IInv, TypeOK, StartRead, ReaderStep, AbortRead, CheckOwner, LockShared, Recheck, Fetch,
       dbVars, s3Vars
<1>2. \E r : reader' = [reader EXCEPT ![q] = r]
  BY DEF StartRead, ReaderStep, AbortRead, CheckOwner, LockShared, Recheck, Fetch, Reply
<1>3. promise' = [promise EXCEPT ![q] = Serving(q)']
  BY <1>1, <1>2 DEF Serving
<1>4. CASE Serving(q)' = Serving(q)
  BY <1>1, <1>3, <1>4 DEF Register!vars
<1>5. CASE Serving(q)' = NoKey /\ Serving(q) # NoKey
  <2>1. Register!Answer(q)
    BY <1>1, <1>3, <1>5 DEF Register!Answer
  <2>2. QED
    BY <2>1 DEF Register!Next
<1>6. CASE reader[q].pc = "locked" /\ Serving(q)' = cell[reader[q].cell] /\ Serving(q)' # NoKey
  <2>1. reader[q].cell \in Cells /\ Serving(q) = NoKey
    BY <1>6 DEF IInv, ReaderShape, Serving
  <2>2. Register!Promise(q, reader[q].cell)
    BY <1>1, <1>3, <1>6, <2>1 DEF Register!Promise
  <2>3. QED
    BY <2>1, <2>2 DEF Register!Next, Register!Cells, Cells
<1>7. \/ Serving(q)' = NoKey \/ Serving(q)' = Serving(q)
      \/ reader[q].pc = "locked" /\ Serving(q)' = cell[reader[q].cell]
  <2>1. \A code : Reply(q, code) => Serving(q)' = NoKey
    BY <1>1 DEF Reply, NoRead, Serving
  <2>2. CASE \E x \in Cells : StartRead(q, x)
    <3>1. reader'[q].pc # "fetch"
      BY <1>1, <2>2 DEF StartRead, NoRead
    <3>2. QED
      BY <3>1 DEF Serving
  <2>3. CASE CheckOwner(q)
    <3>1. Reply(q, "404") \/ reader' = [reader EXCEPT ![q].pc = "owned"]
      BY <2>3 DEF CheckOwner
    <3>2. QED
      BY <1>1, <2>1, <3>1 DEF Serving, ReaderRecords
  <2>4. CASE LockShared(q)
    BY <1>1, <2>4 DEF LockShared, Serving, ReaderRecords
  <2>5. CASE Recheck(q)
    <3>1. CASE cell[reader[q].cell] = reader[q].key
      <4>1. reader[q].pc = "locked" /\ reader' = [reader EXCEPT ![q].pc = "fetch"]
        BY <2>5, <3>1, Zenon DEF Recheck
      <4>2. QED
        BY <1>1, <3>1, <4>1 DEF Serving, ReaderRecords
    <3>2. CASE cell[reader[q].cell] # reader[q].key
      <4>1. \/ Reply(q, "404") \/ Reply(q, "409")
            \/ reader' = [reader EXCEPT ![q].pc = "seen", ![q].key = cell[reader[q].cell],
                 ![q].tries = @ + 1]
        BY <2>5, <3>2, Zenon DEF Recheck
      <4>2. QED
        BY <1>1, <2>1, <4>1 DEF Serving, ReaderRecords
    <3>3. QED
      BY <3>1, <3>2
  <2>6. CASE Fetch(q) \/ AbortRead(q)
    BY <2>1, <2>6 DEF Fetch, AbortRead
  <2>7. QED
    BY <2>2, <2>3, <2>4, <2>5, <2>6 DEF ReaderStep
<1>8. QED
  BY <1>4, <1>5, <1>6, <1>7

LEMMA StepImplements == IInv /\ [Next]_vars => [Register!Next]_Register!vars
<1> SUFFICES ASSUME IInv, [Next]_vars PROVE [Register!Next]_Register!vars
  OBVIOUS
<1>1. ASSUME NEW w \in Writers, \/ \E x \in Cells : BeginPut(w, x)
                              \/ \E x \in Cells, op \in {"clear", "drop"} : BeginRemove(w, op, x)
      PROVE  [Register!Next]_Register!vars
  BY <1>1, Stutters DEF BeginPut, BeginRemove, dbVars, s3Vars
<1>2. ASSUME NEW w \in Writers, WriterStep(w) \/ Rollback(w)
      PROVE  [Register!Next]_Register!vars
  BY <1>2, WriterImplements
<1>3. ASSUME NEW q \in Readers, \/ \E x \in Cells : StartRead(q, x)
                              \/ ReaderStep(q) \/ AbortRead(q)
      PROVE  [Register!Next]_Register!vars
  BY <1>3, ReaderImplements
<1>4. ASSUME NEW c \in Cleaners, CleanerStep(c) \/ DeleteFails(c) \/ CrashBatch(c)
      PROVE  [Register!Next]_Register!vars
  BY <1>4, CleanerImplements
<1>5. CASE LateRequest
  BY <1>5, LateRequestImplements
<1>6. CASE UNCHANGED vars
  BY <1>6, Stutters DEF vars
<1>7. QED
  BY <1>1, <1>2, <1>3, <1>4, <1>5, <1>6 DEF Next

\* The whole of blob storage, with its transactions, locks, queue, cleaner and an
\* S3 that answers late, is an atomic register of immutable objects.
THEOREM Implements == Spec => IsAtomicRegister
<1>1. Spec => Register!Init
  BY RegisterInit DEF Spec
<1>2. QED
  BY Invariant, StepImplements, <1>1, PTL DEF Spec, IsAtomicRegister, Register!Spec

-----------------------------------------------------------------------------
(* What leaks: LeakInv is inductive beside IInv, and says which keys are queued. *)

LEMMA LeakInit == Init => LeakInv
BY DEF Init, LeakInv, FreshKeysEmpty, UploadsQueued, CleanersCollect, OnlyLateS3, Publishing,
     NoWrite, NoClean

\* Steps that leave uploads, cleaners, the bucket and the queue alone.
LEMMA LeakStutter ==
  ASSUME LeakInv, UNCHANGED <<objects, queue, s3, late, used, writer, cleaner>>
  PROVE  LeakInv'
BY DEF LeakInv, FreshKeysEmpty, UploadsQueued, CleanersCollect, OnlyLateS3, Publishing, Drawn

\* A cleaner changes registrations and queue rows of the keys it has locked only,
\* and an upload whose keys are registered holds their locks.
LEMMA LeakCleanerMove ==
  ASSUME NEW c \in Cleaners, NEW r \in CleanerRecords, IInv, LeakInv,
         cleaner' = [cleaner EXCEPT ![c] = r],
         UNCHANGED <<used, writer>>,
         \A k \in Keys : \/ objects'[k] = objects[k] /\ (k \in queue => k \in queue')
                         \/ k \in cleaner[c].locks /\ objects'[k] \in {NoCell, objects[k]},
         s3' \subseteq s3,
         late' \subseteq late \cup ({"delete"} \X Keys),
         ~LateS3 => late' = late,
         r.done \subseteq r.locks,
         ~LateS3 => r.gone \cap s3' = {} /\ (r.pc = "forget" => r.cur \notin s3')
  PROVE  LeakInv'
<1>1. \A k : <<"put", k>> \in late' => <<"put", k>> \in late
  OBVIOUS
<1>2. \A d \in Cleaners : cleaner'[d] = IF d = c THEN r ELSE cleaner[d]
  BY DEF IInv, TypeOK
<1>3. FreshKeysEmpty' /\ OnlyLateS3'
  BY <1>1 DEF LeakInv, FreshKeysEmpty, OnlyLateS3
<1>4. UploadsQueued'
  <2> SUFFICES ASSUME NEW w \in Writers, Publishing(w), NEW k \in Drawn(w)
               PROVE  /\ <<"put", k>> \notin late'
                      /\ objects'[k] # NoCell => /\ objects'[k] = writer[w].cell
                                                 /\ k \in writer[w].held /\ k \in queue'
                      /\ IF writer[w].pc = "locked" THEN k \notin s3' ELSE objects'[k] # NoCell
    BY DEF LeakInv, UploadsQueued, Publishing, Drawn
  <2>1. k \in Keys
    BY WriterFacts DEF Drawn
  <2>2. /\ <<"put", k>> \notin late
        /\ objects[k] # NoCell => objects[k] = writer[w].cell /\ k \in writer[w].held /\ k \in queue
        /\ IF writer[w].pc = "locked" THEN k \notin s3 ELSE objects[k] # NoCell
    BY DEF LeakInv, UploadsQueued
  <2>3. objects[k] # NoCell => k \notin cleaner[c].locks
    BY <2>2 DEF IInv, AdvisoryLocksExclusive
  <2>4. QED
    BY <1>1, <2>1, <2>2, <2>3
<1>5. CleanersCollect'
  BY <1>2 DEF LeakInv, CleanersCollect
<1>6. QED
  BY <1>3, <1>4, <1>5 DEF LeakInv

\* What LeakInv asks of one upload's record.
GoodUpload(r, sent) ==
    /\ r.op # "put" => r.pending = NoKey
    /\ r.pc # "idle" /\ r.op = "put" =>
        /\ r.key \in r.held => r.pending \in r.held
        /\ \A k \in {r.key, r.pending} :
            /\ <<"put", k>> \notin late
            /\ objects[k] # NoCell => objects[k] = r.cell /\ k \in r.held /\ k \in queue
            /\ IF r.pc = "locked" THEN k \notin sent ELSE objects[k] # NoCell

\* A writer that leaves the committed database alone sends bytes for its own
\* registered keys, and leaves behind requests for its own keys when it ends.
LEMMA LeakWriterMove ==
  ASSUME NEW w \in Writers, NEW r \in WriterRecords, IInv, LeakInv,
         writer' = [writer EXCEPT ![w] = r],
         UNCHANGED <<objects, queue, cleaner>>,
         used \subseteq used', used' \subseteq Keys,
         s3' = s3 \/ (writer[w].pc # "locked" /\ s3' \subseteq s3 \cup Drawn(w) /\ Publishing(w)),
         late' = late \/ (LateS3 /\ late' \subseteq late \cup ({"put"} \X Drawn(w)) /\ Publishing(w)
                            /\ r.pc = "idle"),
         GoodUpload(r, s3')
  PROVE  LeakInv'
<1>1. \A v \in Writers : writer'[v] = IF v = w THEN r ELSE writer[v]
  BY DEF IInv, TypeOK
<1>2. Publishing(w) => Drawn(w) \subseteq used
  BY DEF IInv, WriterShape
<1>3. FreshKeysEmpty' /\ OnlyLateS3'
  BY <1>2 DEF LeakInv, FreshKeysEmpty, OnlyLateS3
<1>4. UploadsQueued'
  <2> SUFFICES ASSUME NEW v \in Writers
               PROVE  /\ writer'[v].op # "put" => writer'[v].pending = NoKey
                      /\ Publishing(v)' =>
                          /\ writer'[v].key \in writer'[v].held =>
                               writer'[v].pending \in writer'[v].held
                          /\ \A k \in Drawn(v)' :
                              /\ <<"put", k>> \notin late'
                              /\ objects'[k] # NoCell => /\ objects'[k] = writer'[v].cell
                                                         /\ k \in writer'[v].held /\ k \in queue'
                              /\ IF writer'[v].pc = "locked" THEN k \notin s3' ELSE objects'[k] # NoCell
    BY DEF UploadsQueued
  <2>1. CASE v = w
    BY <1>1, <2>1 DEF GoodUpload, Publishing, Drawn
  <2>2. CASE v # w
    <3>1. writer'[v] = writer[v]
      BY <1>1, <2>2
    <3>2. Publishing(v) /\ Publishing(w) => Drawn(v) \cap Drawn(w) = {}
      BY <2>2 DEF IInv, UploadPrivate
    <3>3. Publishing(v) => \A k \in Drawn(v) : (k \in s3' => k \in s3)
            /\ (<<"put", k>> \in late' => <<"put", k>> \in late)
      BY <3>2
    <3>4. QED
      BY <3>1, <3>3 DEF LeakInv, UploadsQueued, Publishing, Drawn
  <2>3. QED
    BY <2>1, <2>2
<1>5. CleanersCollect'
  <2>1. CASE s3' = s3
    BY <2>1 DEF LeakInv, CleanersCollect
  <2>2. CASE writer[w].pc # "locked" /\ s3' \subseteq s3 \cup Drawn(w) /\ Publishing(w)
    <3>1. Drawn(w) \subseteq writer[w].held
      BY <2>2 DEF LeakInv, UploadsQueued
    <3>2. \A c \in Cleaners : writer[w].held \cap cleaner[c].locks = {}
      BY DEF IInv, AdvisoryLocksExclusive
    <3>3. \A c \in Cleaners : /\ cleaner[c].gone \subseteq cleaner[c].locks
                              /\ cleaner[c].pc = "forget" => cleaner[c].cur \in cleaner[c].locks
      BY DEF IInv, CleanerShape
    <3>4. QED
      BY <2>2, <3>1, <3>2, <3>3 DEF LeakInv, CleanersCollect
  <2>3. QED
    BY <2>1, <2>2
<1>6. QED
  BY <1>3, <1>4, <1>5 DEF LeakInv

\* A record that leaves the upload's keys as they are keeps what is known of them.
LEMMA LeakBegin ==
  ASSUME NEW w \in Writers, NEW x \in Cells, IInv, LeakInv,
         BeginPut(w, x) \/ (\E op \in {"clear", "drop"} : BeginRemove(w, op, x))
  PROVE  LeakInv'
<1>1. used \subseteq Keys /\ UNCHANGED <<objects, queue, cleaner, s3, late>>
  BY DEF IInv, TypeOK, BeginPut, BeginRemove, dbVars, s3Vars
<1>2. CASE BeginPut(w, x)
  <2> DEFINE key == Fresh(used)
             pending == Fresh(used \cup {key})
             r == [NoWrite EXCEPT !.pc = "locked", !.cell = x, !.key = key, !.pending = pending]
  <2>1. /\ used' = used \cup {key, pending} /\ writer' = [writer EXCEPT ![w] = r]
    BY <1>2 DEF BeginPut
  <2>2. key \in Keys \ used /\ pending \in Keys \ used /\ key # pending
    BY <1>2, FreshPair DEF BeginPut
  <2> HIDE DEF key, pending
  <2>3. /\ r \in WriterRecords /\ r.pc = "locked" /\ r.op = "put" /\ r.held = {}
        /\ r.key = key /\ r.pending = pending
    BY <2>2, NoWriteRecord DEF WriterRecords, Pointers
  <2> HIDE DEF r
  <2>4. GoodUpload(r, s3')
    BY <1>1, <2>2, <2>3 DEF GoodUpload, LeakInv, FreshKeysEmpty, IInv, FreshKeysUnknown
  <2>5. QED
    BY <1>1, <2>1, <2>2, <2>3, <2>4, LeakWriterMove
<1>3. ASSUME NEW op \in {"clear", "drop"}, BeginRemove(w, op, x)
      PROVE  LeakInv'
  <2> DEFINE r == [NoWrite EXCEPT !.pc = "locked", !.op = op, !.cell = x]
  <2>1. writer' = [writer EXCEPT ![w] = r] /\ used' = used
    BY <1>3 DEF BeginRemove
  <2>2. r \in WriterRecords /\ r.op = op /\ r.pending = NoKey
    BY NoWriteRecord DEF WriterRecords
  <2> HIDE DEF r
  <2>3. GoodUpload(r, s3')
    BY <2>2 DEF GoodUpload
  <2>4. QED
    BY <1>1, <2>1, <2>2, <2>3, LeakWriterMove
<1>4. QED
  BY <1>2, <1>3

\* The steps of a request that leave the committed database alone.
LEMMA LeakWriterStep ==
  ASSUME NEW w \in Writers, IInv, LeakInv,
         \/ AdvisoryLock(w) \/ StagePut(w) \/ StageClear(w) \/ StageDrop(w)
         \/ PutPending(w) \/ CopyToKey(w) \/ Rollback(w)
  PROVE  LeakInv'
<1> DEFINE o == writer[w]
<1>1. /\ o \in WriterRecords /\ used \subseteq Keys
      /\ Publishing(w) => o.key \in Keys /\ o.pending \in Keys /\ o.key # o.pending
      /\ UNCHANGED <<objects, queue, cleaner, used>>
      /\ o.op # "put" => o.pc \in {"locked", "copied"} /\ o.key = NoKey /\ o.pending = NoKey
  BY WriterFacts
     DEF IInv, TypeOK, WriterShape, LeakInv, UploadsQueued, Publishing, dbVars, s3Vars,
         AdvisoryLock, StagePut, StageClear, StageDrop, PutPending, CopyToKey, Rollback
<1>2. GoodUpload(o, s3)
  BY <1>1 DEF LeakInv, UploadsQueued, GoodUpload, Publishing, Drawn
<1>3. CASE AdvisoryLock(w)
  <2> DEFINE r == [o EXCEPT !.held = @ \cup {NextKey(w)}]
  <2>1. o.pc = "locked" /\ o.op = "put" /\ writer' = [writer EXCEPT ![w] = r] /\ UNCHANGED <<s3,
          late>>
    BY <1>3 DEF AdvisoryLock, s3Vars
  <2>2. NextKey(w) \in Keys /\ (NextKey(w) = o.key => o.pending \in o.held)
        /\ NextKey(w) \in {o.key, o.pending}
    BY <1>1, <2>1 DEF NextKey, Publishing
  <2>3. r \in WriterRecords /\ r.pc = o.pc /\ r.op = o.op /\ r.key = o.key /\ r.pending = o.pending
        /\ r.cell = o.cell /\ r.held = o.held \cup {NextKey(w)}
    BY <1>1, <2>2 DEF WriterRecords
  <2> HIDE DEF r
  <2>4. GoodUpload(r, s3')
    BY <1>1, <1>2, <2>1, <2>2, <2>3 DEF GoodUpload, Publishing
  <2>5. QED
    BY <1>1, <2>1, <2>3, <2>4, LeakWriterMove
<1>4. CASE StagePut(w) \/ StageDrop(w) \/ (StageClear(w) /\ cell[o.cell] # NoKey)
  <2> DEFINE r == [o EXCEPT !.retired = Retired(w) \ queue,
                            !.pc = IF o.op = "put" THEN "staged" ELSE "copied"]
  <2>1. writer' = [writer EXCEPT ![w] = r] /\ UNCHANGED <<s3, late>> /\ o.pc = "locked"
    BY <1>4 DEF StagePut, StageDrop, StageClear, QueueRetired, s3Vars
  <2>2. /\ r \in WriterRecords /\ r.op = o.op /\ r.key = o.key /\ r.pending = o.pending
        /\ r.cell = o.cell /\ r.held = o.held /\ r.pc # "locked"
    BY <1>1 DEF WriterRecords, Retired
  <2>3. o.op = "put" => o.key \in o.held /\ \A k \in o.held : objects[k] # NoCell
    BY <1>4 DEF StagePut, StageDrop, StageClear
  <2> HIDE DEF r
  <2>4. GoodUpload(r, s3')
    BY <1>2, <2>1, <2>2, <2>3 DEF GoodUpload
  <2>5. QED
    BY <1>1, <2>1, <2>2, <2>4, LeakWriterMove
<1>5. CASE (StageClear(w) /\ cell[o.cell] = NoKey) \/ Rollback(w)
  <2>1. writer' = [writer EXCEPT ![w] = NoWrite] /\ UNCHANGED s3 /\ NoWrite \in WriterRecords
    BY <1>5, NoWriteRecord DEF StageClear, Rollback, s3Vars
  <2>2. GoodUpload(NoWrite, s3')
    BY NoWriteRecord DEF GoodUpload
  <2>3. late' = late \/ (LateS3 /\ late' \subseteq late \cup ({"put"} \X Drawn(w)) /\ Publishing(w))
    <3>1. CASE StageClear(w)
      BY <3>1 DEF StageClear, s3Vars
    <3>2. CASE Rollback(w) /\ LateS3 /\ o.pc \in {"staged", "uploaded"}
      BY <1>1, <3>2 DEF Rollback, Drawn, Publishing
    <3>3. CASE Rollback(w) /\ ~(LateS3 /\ o.pc \in {"staged", "uploaded"})
      BY <3>3 DEF Rollback
    <3>4. QED
      BY <1>5, <3>1, <3>2, <3>3
  <2>4. QED
    BY <1>1, <2>1, <2>2, <2>3, NoWriteRecord, LeakWriterMove
<1>6. CASE PutPending(w) \/ CopyToKey(w)
  <2>1. PICK next \in {"uploaded", "copied"} :
          writer' = [writer EXCEPT ![w] = [o EXCEPT !.pc = next]]
    BY <1>6 DEF PutPending, CopyToKey
  <2> DEFINE r == [o EXCEPT !.pc = next]
  <2>2. /\ r \in WriterRecords /\ r.op = o.op /\ r.key = o.key /\ r.pending = o.pending
        /\ r.cell = o.cell /\ r.held = o.held /\ r.pc = next
    BY <1>1, <2>1 DEF WriterRecords
  <2>3. o.pc \in {"staged", "uploaded"} /\ Publishing(w) /\ o.op = "put"
    BY <1>1, <1>6 DEF PutPending, CopyToKey, Publishing
  <2>4. s3' \subseteq s3 \cup Drawn(w) /\ late' = late
    BY <1>6 DEF PutPending, CopyToKey, Drawn
  <2> HIDE DEF r
  <2>5. GoodUpload(r, s3')
    BY <1>2, <2>2, <2>3 DEF GoodUpload
  <2>6. QED
    BY <1>1, <2>1, <2>2, <2>3, <2>4, <2>5, LeakWriterMove DEF r
<1>7. QED
  BY <1>3, <1>4, <1>5, <1>6

\* register_blob_object, through its own session: owner and queue row at once.
LEMMA LeakRegisterUpload ==
  ASSUME NEW w \in Writers, IInv, LeakInv, RegisterUpload(w)
  PROVE  LeakInv'
<1>1. PICK k \in writer[w].held :
        /\ objects[k] = NoCell
        /\ objects' = [objects EXCEPT ![k] = writer[w].cell]
        /\ queue' = queue \cup {k}
  BY DEF RegisterUpload
<1>2. Publishing(w) /\ UNCHANGED <<s3, late, used, writer, cleaner>>
  BY DEF RegisterUpload, Publishing, s3Vars
<1>3. k \in Drawn(w) /\ objects \in [Keys -> Cells \cup {NoCell}] /\ k \in Keys
  BY <1>2, WriterFacts DEF IInv, TypeOK, WriterShape
<1>4. \A v \in Writers \ {w} : Publishing(v) => k \notin Drawn(v)
  BY <1>2, <1>3 DEF IInv, UploadPrivate
<1>5. FreshKeysEmpty' /\ CleanersCollect' /\ OnlyLateS3'
  BY <1>2 DEF LeakInv, FreshKeysEmpty, CleanersCollect, OnlyLateS3
<1>6. UploadsQueued'
  <2>1. writer[w].cell # NoCell
    BY <1>2, WriterFacts, BlobAssumption DEF Publishing
  <2>2. \A j \in Keys : objects'[j] = IF j = k THEN writer[w].cell ELSE objects[j]
    BY <1>1, <1>3
  <2>3. \A v \in Writers : Publishing(v) => Drawn(v) \subseteq Keys
    BY WriterFacts DEF Drawn
  <2> SUFFICES ASSUME NEW v \in Writers, Publishing(v), NEW j \in Drawn(v)
               PROVE  /\ objects'[j] # NoCell => /\ objects'[j] = writer[v].cell
                                                 /\ j \in writer[v].held /\ j \in queue'
                      /\ IF writer[v].pc = "locked" THEN j \notin s3 ELSE objects'[j] # NoCell
    BY <1>2 DEF LeakInv, UploadsQueued, Publishing, Drawn
  <2>4. /\ objects[j] # NoCell => objects[j] = writer[v].cell /\ j \in writer[v].held /\ j \in queue
        /\ IF writer[v].pc = "locked" THEN j \notin s3 ELSE objects[j] # NoCell
    BY DEF LeakInv, UploadsQueued
  <2>5. CASE j = k
    <3>1. v = w
      BY <1>4, <2>5
    <3>2. QED
      BY <1>1, <1>3, <2>1, <2>2, <2>4, <2>5, <3>1 DEF RegisterUpload
  <2>6. CASE j # k
    BY <1>1, <2>2, <2>3, <2>4, <2>6
  <2>7. QED
    BY <2>5, <2>6
<1>7. QED
  BY <1>5, <1>6 DEF LeakInv

\* A commit: the cascade spares the registrations of other rows.
LEMMA LeakCommit ==
  ASSUME NEW w \in Writers, IInv, LeakInv, Commit(w)
  PROVE  LeakInv'
<1> DEFINE x == writer[w].cell
<1>1. /\ UNCHANGED <<s3, late, used, cleaner>> /\ queue \subseteq queue' /\ writer[w].pc = "copied"
      /\ \A v \in Writers : writer'[v] = IF v = w THEN NoWrite ELSE writer[v]
      /\ \A k \in Keys : objects'[k] = objects[k]
                         \/ (objects[k] \in CellsOf(x[1]) /\ objects'[k] = NoCell)
  BY DEF Commit, s3Vars, IInv, TypeOK
<1>2. FreshKeysEmpty' /\ CleanersCollect' /\ OnlyLateS3'
  BY <1>1 DEF LeakInv, FreshKeysEmpty, CleanersCollect, OnlyLateS3
<1>3. ASSUME NEW v \in Writers \ {w}, Publishing(v), NEW k \in Drawn(v)
      PROVE  objects'[k] = objects[k]
  <2>1. k \in Keys
    BY <1>3, WriterFacts DEF Drawn
  <2>2. writer[v].cell[1] # x[1]
    BY <1>1, <1>3 DEF IInv, RowLocksExclusive, Publishing
  <2>3. objects[k] # NoCell => objects[k] = writer[v].cell
    BY <1>3 DEF LeakInv, UploadsQueued
  <2>4. QED
    BY <1>1, <2>1, <2>2, <2>3, BlobAssumption DEF CellsOf
<1>4. UploadsQueued'
  <2> SUFFICES ASSUME NEW v \in Writers
               PROVE  /\ writer'[v].op # "put" => writer'[v].pending = NoKey
                      /\ Publishing(v)' =>
                          /\ writer'[v].key \in writer'[v].held =>
                               writer'[v].pending \in writer'[v].held
                          /\ \A k \in Drawn(v)' :
                              /\ <<"put", k>> \notin late'
                              /\ objects'[k] # NoCell => /\ objects'[k] = writer'[v].cell
                                                         /\ k \in writer'[v].held /\ k \in queue'
                              /\ IF writer'[v].pc = "locked" THEN k \notin s3' ELSE objects'[k] # NoCell
    BY DEF UploadsQueued
  <2>1. CASE v = w
    BY <1>1, <2>1, NoWriteRecord DEF Publishing
  <2>2. CASE v # w
    BY <1>1, <1>3, <2>2 DEF LeakInv, UploadsQueued, Publishing, Drawn
  <2>3. QED
    BY <2>1, <2>2
<1>5. QED
  BY <1>2, <1>4 DEF LeakInv

LEMMA LeakCleanerStep ==
  ASSUME NEW c \in Cleaners, IInv, LeakInv, CleanerStep(c) \/ DeleteFails(c) \/ CrashBatch(c)
  PROVE  LeakInv'
<1> DEFINE o == cleaner[c]
<1>1. /\ o \in CleanerRecords /\ cleaner \in [Cleaners -> CleanerRecords]
      /\ objects \in [Keys -> Cells \cup {NoCell}] /\ queue \subseteq Keys
      /\ o.cur \in Pointers
      /\ o.gone \subseteq o.locks
           /\ (o.pc \in {"check", "delete", "forget", "unqueue"} => o.cur \in o.locks)
  BY DEF IInv, TypeOK, CleanerShape, CleanerRecords
<1>2. /\ o.done \subseteq o.locks
      /\ ~LateS3 => o.gone \cap s3 = {} /\ (o.pc = "forget" => o.cur \notin s3)
  BY DEF LeakInv, CleanersCollect
<1>3. o.locks \subseteq Keys
  BY <1>1 DEF CleanerRecords
<1>4. CASE Claim(c)
  <2>1. PICK batch \in SUBSET (queue \ Claimed) :
          cleaner' = [cleaner EXCEPT ![c] = [NoClean EXCEPT !.pc = "scan", !.batch = batch,
            !.todo = batch]]
    BY <1>4 DEF Claim
  <2> DEFINE r == [NoClean EXCEPT !.pc = "scan", !.batch = batch, !.todo = batch]
  <2>2. r \in CleanerRecords /\ r.pc = "scan" /\ r.gone = {} /\ r.done = {}
    BY <1>1, <2>1, NoCleanRecord DEF CleanerRecords
  <2>3. cleaner' = [cleaner EXCEPT ![c] = r] /\ UNCHANGED <<objects, queue, s3, late, used, writer>>
    BY <1>4, <2>1 DEF Claim, dbVars, s3Vars
  <2> HIDE DEF r
  <2>4. QED
    BY <2>2, <2>3, LeakCleanerMove
<1>5. CASE TryLock(c)
  <2>1. UNCHANGED <<objects, queue, s3, late, used, writer>> /\ o.pc = "scan"
    BY <1>5 DEF TryLock, dbVars, s3Vars
  <2>2. PICK k \in o.todo :
          \/ cleaner' = [cleaner EXCEPT ![c].pc = "check", ![c].cur = k,
                             ![c].todo = @ \ {k}, ![c].locks = @ \cup {k}]
          \/ cleaner' = [cleaner EXCEPT ![c].todo = @ \ {k}]
    BY <1>5 DEF TryLock
  <2>3. k \in Keys
    BY <1>1 DEF CleanerRecords
  <2>4. CASE cleaner' = [cleaner EXCEPT ![c].pc = "check", ![c].cur = k,
                             ![c].todo = @ \ {k}, ![c].locks = @ \cup {k}]
    <3> DEFINE r == [o EXCEPT !.pc = "check", !.cur = k, !.todo = @ \ {k}, !.locks = @ \cup {k}]
    <3>1. /\ r \in CleanerRecords /\ r.pc = "check" /\ r.gone = o.gone /\ r.done = o.done
          /\ r.locks = o.locks \cup {k} /\ cleaner' = [cleaner EXCEPT ![c] = r]
      BY <1>1, <2>3, <2>4 DEF CleanerRecords, Pointers
    <3> HIDE DEF r
    <3>2. QED
      BY <1>2, <2>1, <3>1, LeakCleanerMove
  <2>5. CASE cleaner' = [cleaner EXCEPT ![c].todo = @ \ {k}]
    <3> DEFINE r == [o EXCEPT !.todo = @ \ {k}]
    <3>1. /\ r \in CleanerRecords /\ r.pc = o.pc /\ r.gone = o.gone /\ r.done = o.done
          /\ r.locks = o.locks /\ cleaner' = [cleaner EXCEPT ![c] = r]
      BY <1>1, <2>5 DEF CleanerRecords
    <3> HIDE DEF r
    <3>2. QED
      BY <1>2, <2>1, <3>1, LeakCleanerMove
  <2>6. QED
    BY <2>2, <2>4, <2>5
<1>6. CASE CheckReferenced(c) \/ DeleteObject(c)
  <2> DEFINE next == IF o.pc = "delete" THEN "forget"
                     ELSE IF o.cur \in Referenced THEN "unqueue" ELSE "delete"
             r == [o EXCEPT !.pc = next]
  <2>1. /\ r \in CleanerRecords /\ r.pc = next /\ r.cur = o.cur /\ r.gone = o.gone
        /\ r.done = o.done /\ r.locks = o.locks
    BY <1>1 DEF CleanerRecords
  <2>2. /\ cleaner' = [cleaner EXCEPT ![c] = r] /\ UNCHANGED <<objects, queue, late, used, writer>>
        /\ s3' = IF o.pc = "delete" THEN s3 \ {o.cur} ELSE s3
    BY <1>6 DEF CheckReferenced, DeleteObject, dbVars, s3Vars
  <2>3. next = "forget" => o.cur \notin s3'
    BY <2>2
  <2> HIDE DEF r, next
  <2>4. QED
    BY <1>2, <2>1, <2>2, <2>3, LeakCleanerMove
<1>7. CASE DeleteFails(c)
  <2> DEFINE r == [o EXCEPT !.pc = "scan", !.cur = NoKey]
  <2>1. r \in CleanerRecords /\ r.pc = "scan" /\ r.gone = o.gone /\ r.done = o.done
          /\ r.locks = o.locks
    BY <1>1 DEF CleanerRecords, Pointers
  <2>2. /\ cleaner' = [cleaner EXCEPT ![c] = r] /\ UNCHANGED <<objects, queue, s3, used, writer>>
        /\ late' = late \/ (LateS3 /\ late' = late \cup {<<"delete", o.cur>>} /\ o.cur \in Keys)
    BY <1>1, <1>3, <1>7 DEF DeleteFails, dbVars
  <2> HIDE DEF r
  <2>3. QED
    <3>1. late' \subseteq late \cup ({"delete"} \X Keys) /\ (~LateS3 => late' = late)
      BY <2>2
    <3>2. QED
      BY <1>2, <2>1, <2>2, <3>1, LeakCleanerMove
<1>8. CASE Forget(c)
  <2> DEFINE r == [o EXCEPT !.pc = "unqueue", !.gone = @ \cup {o.cur}]
  <2>1. o.pc = "forget" /\ o.cur \in Keys
    BY <1>1, <1>3, <1>8 DEF Forget
  <2>2. /\ r \in CleanerRecords /\ r.pc = "unqueue" /\ r.gone = o.gone \cup {o.cur}
             /\ r.done = o.done
        /\ r.locks = o.locks
    BY <1>1, <2>1 DEF CleanerRecords
  <2>3. cleaner' = [cleaner EXCEPT ![c] = r] /\ UNCHANGED <<objects, queue, s3, late, used, writer>>
    BY <1>8 DEF Forget, dbVars, s3Vars
  <2> HIDE DEF r
  <2>4. QED
    BY <1>2, <2>1, <2>2, <2>3, LeakCleanerMove
<1>9. CASE Unqueue(c)
  <2> DEFINE r == [o EXCEPT !.pc = "scan", !.cur = NoKey, !.done = @ \cup {o.cur}]
  <2>1. o.cur \in o.locks /\ o.cur \in Keys
    BY <1>1, <1>3, <1>9 DEF Unqueue
  <2>2. /\ r \in CleanerRecords /\ r.pc = "scan" /\ r.gone = o.gone /\ r.done = o.done \cup {o.cur}
        /\ r.locks = o.locks
    BY <1>1, <2>1 DEF CleanerRecords, Pointers
  <2>3. cleaner' = [cleaner EXCEPT ![c] = r] /\ UNCHANGED <<objects, queue, s3, late, used, writer>>
    BY <1>9 DEF Unqueue, dbVars, s3Vars
  <2> HIDE DEF r
  <2>4. QED
    BY <1>2, <2>1, <2>2, <2>3, LeakCleanerMove
<1>10. CASE CommitBatch(c)
  <2>1. /\ cleaner' = [cleaner EXCEPT ![c] = NoClean] /\ UNCHANGED <<s3, late, used, writer>>
        /\ queue' = queue \ o.done
        /\ \A k \in Keys : objects'[k] = IF k \in o.gone THEN NoCell ELSE objects[k]
    BY <1>10 DEF CommitBatch, s3Vars
  <2>2. \A k \in Keys : \/ objects'[k] = objects[k] /\ (k \in queue => k \in queue')
                        \/ k \in o.locks /\ objects'[k] \in {NoCell, objects[k]}
    BY <1>1, <1>2, <2>1
  <2>3. QED
    BY <2>1, <2>2, NoCleanRecord, LeakCleanerMove
<1>11. CASE CrashBatch(c)
  <2>1. /\ cleaner' = [cleaner EXCEPT ![c] = NoClean] /\ UNCHANGED <<objects, queue, s3, used,
             writer>>
        /\ late' = late \/ (LateS3 /\ late' = late \cup {<<"delete", o.cur>>} /\ o.cur \in Keys)
    BY <1>1, <1>3, <1>11 DEF CrashBatch, dbVars
  <2>2. late' \subseteq late \cup ({"delete"} \X Keys) /\ (~LateS3 => late' = late)
    BY <2>1
  <2>3. QED
    BY <2>1, <2>2, NoCleanRecord, LeakCleanerMove
<1>12. QED
  BY <1>4, <1>5, <1>6, <1>7, <1>8, <1>9, <1>10, <1>11 DEF CleanerStep

\* S3 never answers late for the keys of an upload that is still running.
LEMMA LeakLateRequest ==
  ASSUME IInv, LeakInv, LateRequest
  PROVE  LeakInv'
<1>1. PICK r \in late :
        /\ late' = late \ {r}
        /\ s3' = IF r[1] = "put" THEN s3 \cup {r[2]} ELSE s3 \ {r[2]}
        /\ UNCHANGED <<objects, queue, used, writer, cleaner>>
  BY DEF LateRequest, dbVars
<1>2. r \in {"put", "delete"} \X Keys /\ LateS3
  BY DEF IInv, TypeOK, LeakInv, OnlyLateS3
<1>3. \A k : k \in s3' => k \in s3 \/ <<"put", k>> \in late
  BY <1>1, <1>2
<1>4. FreshKeysEmpty' /\ CleanersCollect' /\ OnlyLateS3'
  BY <1>1, <1>2, <1>3 DEF LeakInv, FreshKeysEmpty, CleanersCollect, OnlyLateS3
<1>5. UploadsQueued'
  BY <1>1, <1>3 DEF LeakInv, UploadsQueued, Publishing, Drawn
<1>6. QED
  BY <1>4, <1>5 DEF LeakInv

LEMMA LeakNext == IInv /\ LeakInv /\ [Next]_vars => LeakInv'
<1> SUFFICES ASSUME IInv, LeakInv, [Next]_vars PROVE LeakInv'
  OBVIOUS
<1>1. ASSUME NEW w \in Writers, \/ \E x \in Cells : BeginPut(w, x)
                              \/ \E x \in Cells, op \in {"clear", "drop"} : BeginRemove(w, op, x)
      PROVE  LeakInv'
  BY <1>1, LeakBegin
<1>2. ASSUME NEW w \in Writers, WriterStep(w) \/ Rollback(w)
      PROVE  LeakInv'
  BY <1>2, LeakWriterStep, LeakRegisterUpload, LeakCommit DEF WriterStep
<1>3. ASSUME NEW q \in Readers, \/ \E x \in Cells : StartRead(q, x)
                              \/ ReaderStep(q) \/ AbortRead(q)
      PROVE  LeakInv'
  <2>1. UNCHANGED <<objects, queue, s3, late, used, writer, cleaner>>
    BY <1>3 DEF StartRead, ReaderStep, AbortRead, CheckOwner, LockShared, Recheck, Fetch, dbVars,
         s3Vars
  <2>2. QED
    BY <2>1, LeakStutter
<1>4. ASSUME NEW c \in Cleaners, CleanerStep(c) \/ DeleteFails(c) \/ CrashBatch(c)
      PROVE  LeakInv'
  BY <1>4, LeakCleanerStep
<1>5. CASE LateRequest
  BY <1>5, LeakLateRequest
<1>6. CASE UNCHANGED vars
  BY <1>6, LeakStutter DEF vars
<1>7. QED
  BY <1>1, <1>2, <1>3, <1>4, <1>5, <1>6 DEF Next

\* An upload's registered keys are queued, whatever becomes of it.
THEOREM LeakInvariant == Spec => [](IInv /\ LeakInv)
BY InvInit, InvNext, LeakInit, LeakNext, PTL DEF Spec

\* An object that is not leaked leaks when it gets bytes, when its last pointer or
\* its upload goes, or when its queue row does.
LEMMA LeakCauses ==
  ASSUME NEW k \in Keys, Leaked(k)', ~Leaked(k)
  PROVE  \/ k \in s3' \ s3
         \/ k \notin used
         \/ k \in Referenced \ Referenced'
         \/ \E w \in Writers : k \in {writer[w].key, writer[w].pending}
         \/ k \in queue \ queue'
BY DEF Leaked, Garbage

\* Beginning a request takes no key away from anybody.
LEMMA LeakAtBegin ==
  ASSUME IInv, LeakInv, NEW k \in Keys, Leaked(k)', ~Leaked(k), NEW w \in Writers, NEW x \in Cells
  PROVE  /\ ~BeginPut(w, x)
         /\ \A op \in {"clear", "drop"} : ~BeginRemove(w, op, x)
<1> SUFFICES ASSUME BeginPut(w, x) \/ (\E op \in {"clear", "drop"} : BeginRemove(w, op, x))
             PROVE  FALSE
  OBVIOUS
<1>1. /\ UNCHANGED <<cell, queue, s3>> /\ writer[w].pc = "idle"
      /\ \A v \in Writers \ {w} : writer'[v] = writer[v]
  BY DEF BeginPut, BeginRemove, dbVars, s3Vars, IInv, TypeOK
<1>2. k \in s3 /\ k \in used /\ Referenced' = Referenced
  BY <1>1 DEF LeakInv, FreshKeysEmpty, Leaked, Referenced
<1>3. PICK v \in Writers : k \in {writer[v].key, writer[v].pending}
  BY <1>1, <1>2, LeakCauses
<1>4. v # w
  BY <1>1, <1>3, NoWriteRecord, BlobAssumption DEF IInv, WriterShape
<1>5. QED
  BY <1>1, <1>3, <1>4 DEF Leaked, Garbage

\* Until it ends a request keeps its keys, and sends bytes to no others.
LEMMA LeakAtWriterStep ==
  ASSUME IInv, LeakInv, NEW k \in Keys, Leaked(k)', ~Leaked(k), NEW w \in Writers,
         WriterStep(w) \/ Rollback(w)
  PROVE  LosesTrack(k)
<1> DEFINE o == writer[w]
<1>1. /\ o \in WriterRecords /\ writer \in [Writers -> WriterRecords] /\ used' = used
      /\ \A v \in Writers \ {w} : writer'[v] = writer[v]
      /\ queue \subseteq queue'
  BY DEF WriterStep, Rollback, AdvisoryLock, RegisterUpload, StagePut, StageClear, StageDrop,
       QueueRetired,
         PutPending, CopyToKey, Commit, dbVars, s3Vars, IInv, TypeOK
<1>2. k \in s3 => k \in used
  BY DEF LeakInv, FreshKeysEmpty
<1>3. /\ k \in s3' /\ k \notin queue' /\ k \notin queue /\ k \in used /\ k \notin Referenced'
      /\ \A v \in Writers : k \notin {writer'[v].key, writer'[v].pending}
  BY <1>1 DEF Leaked, Garbage
<1>4. ASSUME s3' = s3 PROVE k \notin {o.key, o.pending}
  <2>1. ASSUME k \in {o.key, o.pending}, Publishing(w) PROVE FALSE
    BY <1>3, <1>4, <2>1 DEF LeakInv, UploadsQueued, Drawn
  <2>2. ~Publishing(w) => o.key = NoKey /\ o.pending = NoKey
    BY <1>1, NoWriteRecord DEF LeakInv, UploadsQueued, IInv, WriterShape, Publishing
  <2>3. QED
    BY <2>1, <2>2, BlobAssumption
<1>5. \A v \in Writers \ {w} : k \notin {writer[v].key, writer[v].pending}
  BY <1>1, <1>3
<1>6. CASE Commit(w)
  <2>1. /\ s3' = s3 /\ queue' = queue \cup o.retired /\ o.pc = "copied" /\ writer'[w] = NoWrite
    BY <1>1, <1>6 DEF Commit, s3Vars
  <2>2. k \in Referenced
    BY <1>3, <1>4, <1>5, <2>1, LeakCauses
  <2>3. QED
    BY <1>3, <2>1, <2>2, NoWriteRecord DEF LosesTrack
<1>7. CASE AdvisoryLock(w) \/ RegisterUpload(w) \/ StagePut(w) \/ StageClear(w) \/ StageDrop(w)
             \/ Rollback(w)
  <2>1. s3' = s3 /\ cell' = cell
    BY <1>7 DEF AdvisoryLock, RegisterUpload, StagePut, StageClear, StageDrop, Rollback, dbVars,
         s3Vars
  <2>2. QED
    BY <1>3, <1>4, <1>5, <2>1, LeakCauses DEF Referenced
<1>8. CASE PutPending(w) \/ CopyToKey(w)
  <2>1. /\ s3' \subseteq s3 \cup {o.key, o.pending} /\ cell' = cell
        /\ writer'[w].key = o.key /\ writer'[w].pending = o.pending
    BY <1>1, <1>8 DEF PutPending, CopyToKey, dbVars, WriterRecords
  <2>2. QED
    BY <1>3, <1>5, <2>1, LeakCauses DEF Referenced
<1>9. QED
  BY <1>6, <1>7, <1>8 DEF WriterStep

\* A cleaner makes a key leak by taking it off the queue only.
LEMMA LeakAtCleanerStep ==
  ASSUME IInv, LeakInv, NEW k \in Keys, Leaked(k)', ~Leaked(k), NEW c \in Cleaners,
         CleanerStep(c) \/ DeleteFails(c) \/ CrashBatch(c)
  PROVE  LosesTrack(k)
<1>1. s3' \subseteq s3 /\ UNCHANGED <<cell, used, writer>>
  BY DEF CleanerStep, DeleteFails, CrashBatch, Claim, TryLock, CheckReferenced, DeleteObject,
       Forget,
         Unqueue, CommitBatch, dbVars, s3Vars
<1>2. k \in s3 /\ k \in queue \ queue'
  BY <1>1, LeakCauses DEF Leaked, Garbage, Referenced
<1>3. CommitBatch(c)
  BY <1>2 DEF CleanerStep, DeleteFails, CrashBatch, Claim, TryLock, CheckReferenced, DeleteObject,
       Forget,
              Unqueue, dbVars
<1>4. queue' = queue \ cleaner[c].done /\ cleaner'[c] = NoClean
  BY <1>3 DEF CommitBatch, IInv, TypeOK
<1>5. k \in cleaner[c].done \ cleaner'[c].done
  BY <1>2, <1>4, NoCleanRecord
<1>6. k \in cleaner[c].gone => LateS3
  BY <1>2 DEF LeakInv, CleanersCollect
<1>7. QED
  BY <1>2, <1>5, <1>6 DEF LosesTrack

\* The garbage of blob storage is never lost by an upload that fails or dies, by a
\* cleaner that crashes or by a storage error: what the cleanup cannot find again
\* was lost in one of the three races.
THEOREM LeaksAreRaces == Spec => LeaksOnlyByRace
<1>1. ASSUME IInv, LeakInv, [Next]_vars, NEW k \in Keys, Leaked(k)', ~Leaked(k)
      PROVE  LosesTrack(k)
  <2>1. ASSUME NEW w \in Writers, \/ \E x \in Cells : BeginPut(w, x)
                                \/ \E x \in Cells, op \in {"clear", "drop"} : BeginRemove(w, op, x)
        PROVE  FALSE
    BY <1>1, <2>1, LeakAtBegin
  <2>2. ASSUME NEW w \in Writers, WriterStep(w) \/ Rollback(w)
        PROVE  LosesTrack(k)
    BY <1>1, <2>2, LeakAtWriterStep
  <2>3. ASSUME NEW c \in Cleaners, CleanerStep(c) \/ DeleteFails(c) \/ CrashBatch(c)
        PROVE  LosesTrack(k)
    BY <1>1, <2>3, LeakAtCleanerStep
  <2>4. ASSUME NEW q \in Readers, \/ \E x \in Cells : StartRead(q, x)
                                \/ ReaderStep(q) \/ AbortRead(q)
        PROVE  FALSE
    <3>1. UNCHANGED <<cell, queue, s3, used, writer>>
      BY <2>4 DEF StartRead, ReaderStep, AbortRead, CheckOwner, LockShared, Recheck, Fetch, dbVars,
           s3Vars
    <3>2. QED
      BY <1>1, <3>1 DEF Leaked, Garbage, Referenced
  <2>5. CASE LateRequest
    <3>1. PICK r \in late :
            /\ late' = late \ {r}
            /\ s3' = IF r[1] = "put" THEN s3 \cup {r[2]} ELSE s3 \ {r[2]}
            /\ UNCHANGED <<cell, queue, used, writer>>
      BY <2>5 DEF LateRequest, dbVars
    <3>2. k \in s3' \ s3
      BY <1>1, <3>1 DEF Leaked, Garbage, Referenced
    <3>3. r \in {"put", "delete"} \X Keys /\ LateS3
      BY <1>1 DEF IInv, TypeOK, LeakInv, OnlyLateS3
    <3>4. r = <<"put", k>>
      BY <3>1, <3>2, <3>3
    <3>5. QED
      BY <3>1, <3>3, <3>4 DEF LosesTrack
  <2>6. CASE UNCHANGED vars
    BY <1>1, <2>6 DEF vars, Leaked, Garbage, Referenced
  <2>7. QED
    BY <1>1, <2>1, <2>2, <2>3, <2>4, <2>5, <2>6 DEF Next
<1>2. (IInv /\ LeakInv) /\ [Next]_vars =>
        [\A k \in Keys : Leaked(k)' /\ ~Leaked(k) => LosesTrack(k)]_vars
  BY <1>1
<1>3. QED
  BY LeakInvariant, <1>2, PTL DEF Spec, LeaksOnlyByRace
=============================================================================
