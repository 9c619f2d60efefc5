----------------------- MODULE MigrationRunnerProofs -----------------------
(***************************************************************************)
(* Proofs about MigrationRunner, for any set of files and texts and any    *)
(* number of runners.  The argument: what a runner has put behind it stays *)
(* as it has read it, because a row that has a checksum is never given     *)
(* another one and the primary key lets each file be recorded only once.   *)
(* And about TableMove: what the script has written stays what it was made *)
(* of until it commits, because of its locks, but for the owners of blobs, *)
(* which only the cleaner takes (second part).  And about SplitSql: in a   *)
(* text without what it does not know its scan meets the same semicolons   *)
(* as PostgreSQL's lexer (third part).                                     *)
(***************************************************************************)
EXTENDS MigrationRunner, TableMove, TLAPS, NaturalsInduction, WellFoundedInduction

\* The files a runner has put behind it are recorded and were executed as it
\* read them; it listed every file smaller than one it listed, or that file is
\* known to have been missing; the file in hand is the first one left.
Sound(rec) ==
    /\ rec \in RunnerRecords
    /\ rec.left \subseteq rec.listed
    /\ \A f \in rec.listed \ rec.left :
        /\ f \in Names(migrations)
        /\ \A i \in DOMAIN executed :
            executed[i].file = f => executed[i].text \in {Blank, rec.read[f]}
    /\ \A f \in Files, g \in rec.listed : f < g => f \in rec.listed \cup missed
    /\ rec.at \in {"filling", "executing"} =>
        First(rec.file, rec.left) /\ rec.text \in Texts /\ rec.read[rec.file] = rec.text
    /\ rec.at = "filling" =>
        /\ rec.file \in Names(migrations)
        /\ \A i \in DOMAIN executed : executed[i].file = rec.file => executed[i].text = Blank

\* Nothing is executed before an earlier file, unless that one was missing.
EarlierFirst ==
    \A i \in DOMAIN executed, f \in Files :
        f < executed[i].file => f \in missed \cup Names(migrations)

IInv ==
    /\ TypeOK /\ AppliedOnce /\ RecordMatchesEffects /\ AppliedInOrder /\ EarlierFirst
    /\ \A r \in Runners : Sound(runner[r])

-----------------------------------------------------------------------------
LEMMA FirstIsLeast ==
    ASSUME NEW S \in SUBSET Files, NEW f, First(f, S), NEW g, g < f
    PROVE  g \notin S
<1>1. f \in Nat /\ (g \in S => g \in Nat /\ f <= g)
  BY RunnerConstants DEF First
<1> QED
  BY <1>1

LEMMA IdleIsSound == Sound(Idle)
BY DEF Sound, Idle, RunnerRecords, Trees

LEMMA InitHolds == Init => IInv
<1> SUFFICES ASSUME Init PROVE IInv
  OBVIOUS
<1>1. migrations \in [Files -> Texts \cup {Blank, None}]
  BY DEF Init
<1>2. CASE 1 \in Names(migrations)
  <2>1. executed = <<[file |-> 1, text |-> Blank]>> /\ 1 \in Files
    BY <1>2 DEF Init, Names
  <2>2. executed \in Seq(Effects) /\ DOMAIN executed = {1}
        /\ executed[1].file = 1 /\ executed[1].text = Blank
    BY <2>1 DEF Effects
  <2>3. Names(migrations) = {1}
    BY <1>2 DEF Init, Names
  <2>4. \A f \in Files : ~(f < 1)
    BY RunnerConstants
  <2>5. TypeOK
    BY <1>1, <2>2, RunnerConstants, IdleIsSound DEF Init, TypeOK, Trees, Sound, Idle
  <2> QED
    BY <2>2, <2>3, <2>4, <2>5, IdleIsSound
       DEF IInv, Init, AppliedOnce, Done, RecordMatchesEffects, AppliedInOrder, EarlierFirst
<1>3. CASE 1 \notin Names(migrations)
  <2>1. executed = <<>>
    BY <1>3 DEF Init
  <2>2. executed \in Seq(Effects) /\ DOMAIN executed = {}
    BY <2>1
  <2>3. Names(migrations) = {}
    BY <1>3 DEF Init, Names
  <2>4. TypeOK
    BY <1>1, <2>2, RunnerConstants, IdleIsSound DEF Init, TypeOK, Trees, Sound, Idle
  <2> QED
    BY <2>2, <2>3, <2>4, IdleIsSound
       DEF IInv, Init, AppliedOnce, Done, RecordMatchesEffects, AppliedInOrder, EarlierFirst
<1> QED
  BY <1>2, <1>3

-----------------------------------------------------------------------------
(* Steps that leave the database alone. *)

\* What is sound stays so when files turn out to have been missing.
LEMMA SoundLater ==
    ASSUME NEW rec, Sound(rec), migrations' = migrations, executed' = executed,
           missed \subseteq missed'
    PROVE  Sound(rec)'
BY DEF Sound, Names

LEMMA QuietStep ==
    ASSUME IInv, migrations' = migrations, executed' = executed,
           missed \subseteq missed', missed' \subseteq Files,
           tree' \in Trees, sums' \in Trees,
           starts' \in 0..MaxStarts, edits' \in 0..MaxEdits,
           \/ runner' = runner
           \/ \E r \in Runners, rec \in RunnerRecords :
                Sound(rec)' /\ runner' = [runner EXCEPT ![r] = rec]
    PROVE  IInv'
<1>1. \A p \in Runners : Sound(runner[p])'
  <2>1. SUFFICES ASSUME NEW p \in Runners PROVE Sound(runner[p])'
    OBVIOUS
  <2>2. runner \in [Runners -> RunnerRecords]
    BY DEF IInv, TypeOK
  <2> DEFINE was == runner[p]
  <2>3. Sound(was)
    BY DEF IInv
  <2> HIDE DEF was
  <2>4. \A rec : Sound(rec) => Sound(rec)'
    BY SoundLater
  <2>5. CASE runner' = runner
    BY <2>3, <2>5 DEF was, IInv, Sound, Names
  <2>6. ASSUME NEW r \in Runners, NEW rec \in RunnerRecords,
               Sound(rec)', runner' = [runner EXCEPT ![r] = rec]
        PROVE  Sound(runner[p])'
    <3>1. CASE p = r
      BY <2>2, <2>6, <3>1 DEF Sound
    <3>2. CASE p # r
      BY <2>2, <2>3, <2>6, <3>2 DEF was, Sound, Names
    <3> QED
      BY <3>1, <3>2
  <2> QED
    BY <2>5, <2>6
<1>2. runner' \in [Runners -> RunnerRecords]
  BY DEF IInv, TypeOK
<1>3. TypeOK'
  BY <1>1, <1>2 DEF IInv, TypeOK, Sound, First
<1>4. AppliedOnce' /\ RecordMatchesEffects'
  BY DEF IInv, AppliedOnce, RecordMatchesEffects, Done, Names
<1>5. AppliedInOrder' /\ EarlierFirst'
  BY DEF IInv, AppliedInOrder, EarlierFirst, Names
<1> QED
  BY <1>1, <1>3, <1>4, <1>5 DEF IInv

LEMMA Known ==
    ASSUME IInv, NEW r \in Runners
    PROVE  /\ runner[r] \in RunnerRecords /\ runner \in [Runners -> RunnerRecords]
           /\ Sound(runner[r])
           /\ runner[r].left \subseteq Files /\ runner[r].left \subseteq runner[r].listed
           /\ tree \in Trees /\ migrations \in [Files -> Texts \cup {Blank, None}]
BY DEF IInv, TypeOK, RunnerRecords

\* A runner that gives up, and one that starts.
LEMMA IdleStep ==
    ASSUME IInv, NEW r \in Runners, Goes(r, Idle),
           UNCHANGED <<tree, sums, migrations, executed, starts, edits, missed>>
    PROVE  IInv'
<1>1. Idle \in RunnerRecords
  BY IdleIsSound DEF Sound
<1>2. Sound(Idle)'
  BY IdleIsSound, SoundLater
<1> QED
  BY <1>1, <1>2, QuietStep DEF IInv, TypeOK, Goes

LEMMA StartKeeps ==
    ASSUME IInv, NEW r \in Runners, Start(r)
    PROVE  IInv'
<1>1. PICK mode \in {"full", "apply-only", "test-only"} :
          Goes(r, [Idle EXCEPT !.mode = mode, !.at = "verify"])
  BY DEF Start
<1> DEFINE rec == [Idle EXCEPT !.mode = mode, !.at = "verify"]
<1>2. rec \in RunnerRecords /\ Sound(rec)'
  BY DEF Sound, Idle, RunnerRecords, Trees
<1>3. starts' \in 0..MaxStarts
  BY RunnerConstants DEF Start, IInv, TypeOK
<1> HIDE DEF rec
<1> QED
  BY <1>1, <1>2, <1>3, QuietStep DEF rec, Start, Goes, IInv, TypeOK

\* A runner that has not listed the files has put none behind it.
LEMMA Unlisted ==
    ASSUME NEW r \in Runners, IInv, runner[r].at \in {"verify", "test"},
           NEW at \in {"test", "connect"}, NEW t \in Trees \cup {None},
           Goes(r, [runner[r] EXCEPT !.at = at, !.tried = t]),
           UNCHANGED <<tree, sums, migrations, executed, starts, edits, missed>>
    PROVE  IInv'
<1>1. PICK was : was = runner[r]
  OBVIOUS
<1>2. Sound(was) /\ was \in RunnerRecords
  BY <1>1, Known
<1>3. PICK rec : rec = [was EXCEPT !.at = at, !.tried = t]
  OBVIOUS
<1>4. /\ rec \in RunnerRecords /\ rec.listed = was.listed /\ rec.left = was.left
      /\ rec.read = was.read /\ rec.at \notin {"filling", "executing"}
  BY <1>2, <1>3 DEF RunnerRecords
<1>5. Sound(rec)
  BY <1>2, <1>4 DEF Sound
<1>6. Sound(rec)'
  BY <1>5, SoundLater
<1> QED
  BY <1>1, <1>3, <1>4, <1>6, QuietStep DEF Goes, IInv, TypeOK

LEMMA ChecksumVerifyKeeps ==
    ASSUME IInv, NEW r \in Runners, ChecksumVerify(r)
    PROVE  IInv'
<1>1. CASE Goes(r, Idle)
  BY <1>1, IdleStep DEF ChecksumVerify
<1>2. CASE ~Goes(r, Idle)
  <2> DEFINE at == IF runner[r].mode = "apply-only" THEN "connect" ELSE "test"
  <2>1. Goes(r, [runner[r] EXCEPT !.at = at])
    BY <1>2 DEF ChecksumVerify
  <2>2. runner[r] = [runner[r] EXCEPT !.tried = runner[r].tried]
        /\ runner[r].tried \in Trees \cup {None}
    BY Known DEF RunnerRecords
  <2>3. [runner[r] EXCEPT !.at = at] = [runner[r] EXCEPT !.at = at, !.tried = runner[r].tried]
    BY Known DEF RunnerRecords
  <2> QED
    BY <2>1, <2>2, <2>3, Unlisted DEF ChecksumVerify
<1> QED
  BY <1>1, <1>2

LEMMA TestKeeps ==
    ASSUME IInv, NEW r \in Runners, Test(r)
    PROVE  IInv'
<1>1. CASE Goes(r, Idle)
  BY <1>1, IdleStep DEF Test
<1>2. CASE ~Goes(r, Idle)
  BY <1>2, Known, Unlisted DEF Test
<1> QED
  BY <1>1, <1>2

LEMMA ConnectKeeps ==
    ASSUME IInv, NEW r \in Runners, Connect(r)
    PROVE  IInv'
<1>1. PICK was : was = runner[r]
  OBVIOUS
<1>2. PICK rec : rec = [was EXCEPT !.at = "next", !.listed = Names(tree), !.left = Names(tree)]
  OBVIOUS
<1>3. Goes(r, Idle) \/ Goes(r, rec)
  BY <1>1, <1>2 DEF Connect
<1>4. missed' = missed \cup {f \in Files \ Names(tree) : \E g \in Names(tree) : g > f}
  BY DEF Connect
<1>5. missed \subseteq missed' /\ missed' \subseteq Files
  BY <1>4 DEF IInv, TypeOK
<1>6. Sound(Idle)' /\ Idle \in RunnerRecords
  BY <1>5, IdleIsSound, SoundLater DEF Connect, Sound
<1>7. Names(tree) \subseteq Files
  BY DEF Names
<1>8. rec \in RunnerRecords /\ rec.listed = Names(tree) /\ rec.left = Names(tree) /\ rec.at = "next"
  BY <1>1, <1>2, <1>7, Known DEF RunnerRecords
<1>9. \A f \in Files, g \in rec.listed : f < g => f \in rec.listed \cup missed'
  BY <1>4, <1>7, <1>8, RunnerConstants
<1>10. Sound(rec)'
  BY <1>8, <1>9 DEF Sound
<1>11. \E new \in RunnerRecords : Sound(new)' /\ runner' = [runner EXCEPT ![r] = new]
  BY <1>3, <1>6, <1>8, <1>10 DEF Goes
<1> QED
  BY <1>5, <1>11, QuietStep DEF Connect, IInv, TypeOK

LEMMA SkipKeeps ==
    ASSUME IInv, NEW r \in Runners, Skip(r)
    PROVE  IInv'
<1>0. PICK was : was = runner[r]
  OBVIOUS
<1>1. PICK f \in Files : /\ Looks(r, f) /\ migrations[f] = tree[f]
                         /\ Goes(r, [was EXCEPT !.left = @ \ {f}, !.read[f] = tree[f]])
  BY <1>0 DEF Skip
<1>2. /\ Sound(was) /\ was \in RunnerRecords /\ tree[f] \in Texts /\ tree[f] # None
      /\ was.at = "next" /\ First(f, was.left)
  BY <1>0, <1>1, Known DEF Looks, Trees
<1>r. PICK rec : rec = [was EXCEPT !.left = @ \ {f}, !.read[f] = tree[f]]
  OBVIOUS
<1>3. /\ rec \in RunnerRecords /\ rec.at = "next" /\ rec.listed = was.listed
      /\ rec.left = was.left \ {f} /\ rec.read = [was.read EXCEPT ![f] = tree[f]]
  BY <1>2, <1>r DEF RunnerRecords, Trees
<1>4. f \in Names(migrations)
  BY <1>1, <1>2 DEF Names
<1>5. \A i \in DOMAIN executed : executed[i].file = f => executed[i].text \in {Blank, tree[f]}
  BY <1>1 DEF IInv, RecordMatchesEffects
<1>6. was.read \in Trees
  BY <1>2 DEF RunnerRecords
<1>7. \A g \in rec.listed \ rec.left :
        /\ g \in Names(migrations)
        /\ \A i \in DOMAIN executed : executed[i].file = g =>
             executed[i].text \in {Blank, rec.read[g]}
  <2> SUFFICES ASSUME NEW g \in rec.listed \ rec.left
               PROVE  /\ g \in Names(migrations)
                      /\ \A i \in DOMAIN executed :
                           executed[i].file = g => executed[i].text \in {Blank, rec.read[g]}
    OBVIOUS
  <2>1. CASE g = f
    BY <1>3, <1>4, <1>5, <1>6, <2>1 DEF Trees
  <2>2. CASE g # f
    <3>1. g \in was.listed \ was.left /\ rec.read[g] = was.read[g]
      BY <1>3, <1>6, <2>2 DEF Trees
    <3> QED
      BY <1>2, <3>1 DEF Sound
  <2> QED
    BY <2>1, <2>2
<1>8. Sound(rec)
  BY <1>2, <1>3, <1>7 DEF Sound
<1>9. Sound(rec)'
  BY <1>8, SoundLater DEF Skip
<1> QED
  BY <1>0, <1>1, <1>r, <1>3, <1>9, QuietStep DEF Skip, Goes, IInv, TypeOK

\* Taking a file in hand.
LEMMA TakeKeeps ==
    ASSUME IInv, NEW r \in Runners, NEW f \in Files, Looks(r, f),
           NEW at \in {"filling", "executing"},
           at = "filling" => migrations[f] = Blank,
           Goes(r, [runner[r] EXCEPT !.at = at, !.file = f, !.text = tree[f], !.read[f] = tree[f]]),
           UNCHANGED <<tree, sums, migrations, executed, starts, edits, missed>>
    PROVE  IInv'
<1>0. PICK was : was = runner[r]
  OBVIOUS
<1>2. /\ Sound(was) /\ was \in RunnerRecords /\ tree[f] \in Texts
      /\ was.at = "next" /\ First(f, was.left)
  BY <1>0, Known DEF Looks, Trees
<1>1. PICK rec : rec = [was EXCEPT !.at = at, !.file = f, !.text = tree[f], !.read[f] = tree[f]]
  OBVIOUS
<1>r. runner' = [runner EXCEPT ![r] = rec]
  BY <1>0, <1>1 DEF Goes
<1>3. /\ rec \in RunnerRecords /\ rec.at = at /\ rec.listed = was.listed /\ rec.file = f
      /\ rec.text = tree[f] /\ rec.left = was.left
  BY <1>1, <1>2 DEF RunnerRecords, Trees
<1>4. was.read \in Trees /\ rec.read = [was.read EXCEPT ![f] = tree[f]]
  BY <1>1, <1>2 DEF RunnerRecords
<1>5. f \in was.left /\ was.left \subseteq was.listed
  BY <1>2 DEF First, Sound
<1>6. at = "filling" =>
        /\ f \in Names(migrations)
        /\ \A i \in DOMAIN executed : executed[i].file = f => executed[i].text = Blank
  BY RunnerConstants DEF Names, IInv, RecordMatchesEffects
<1>7. \A g \in rec.listed \ rec.left : g \in was.listed \ was.left /\ rec.read[g] = was.read[g]
  BY <1>3, <1>4, <1>5 DEF Trees, RunnerRecords, Sound
<1>8. rec.read[f] = tree[f]
  BY <1>4 DEF Trees
<1>9. Sound(rec)
  BY <1>2, <1>3, <1>6, <1>7, <1>8 DEF Sound
<1>10. Sound(rec)'
  BY <1>9, SoundLater
<1> QED
  BY <1>r, <1>3, <1>10, QuietStep DEF IInv, TypeOK

LEMMA FinishKeeps ==
    ASSUME IInv, NEW r \in Runners, Mismatch(r) \/ Finish(r) \/ Fail(r)
    PROVE  IInv'
BY IdleStep DEF Mismatch, Finish, Fail

LEMMA TreeKeeps ==
    ASSUME IInv, Edit \/ Hash
    PROVE  IInv'
<1>1. tree' \in Trees /\ sums' \in Trees
  BY DEF Edit, Hash, IInv, TypeOK, Trees
<1>2. edits' \in 0..MaxEdits
  BY RunnerConstants DEF Edit, Hash, IInv, TypeOK
<1>3. /\ missed' = missed /\ starts' = starts /\ runner' = runner
      /\ migrations' = migrations /\ executed' = executed
  BY DEF Edit, Hash
<1> QED
  BY <1>1, <1>2, <1>3, QuietStep DEF IInv, TypeOK

-----------------------------------------------------------------------------
(* Steps that change the database. *)

\* A row that has a checksum, or has just been given one, keeps runners sound.
LEMMA FillSound ==
    ASSUME IInv, NEW f \in Files, NEW t \in Texts, migrations' = [migrations EXCEPT ![f] = t],
           executed' = executed, missed' = missed, NEW rec, Sound(rec)
    PROVE  Sound(rec)'
<1>1. Names(migrations) \subseteq Names(migrations')
  BY RunnerConstants DEF IInv, TypeOK, Names
<1> QED
  BY <1>1 DEF Sound

LEMMA FillKeeps ==
    ASSUME IInv, NEW r \in Runners, Fill(r)
    PROVE  IInv'
<1>1. PICK was : was = runner[r]
  OBVIOUS
<1>2. /\ Sound(was) /\ was \in RunnerRecords /\ was.at = "filling"
      /\ runner \in [Runners -> RunnerRecords]
  BY <1>1, Known DEF Fill
<1>3. PICK rec : rec = [was EXCEPT !.at = "next", !.left = @ \ {was.file}, !.file = 0,
             !.text = None]
  OBVIOUS
<1>4. /\ rec \in RunnerRecords /\ rec.at = "next" /\ rec.listed = was.listed
      /\ rec.left = was.left \ {was.file} /\ rec.read = was.read
  BY <1>2, <1>3 DEF RunnerRecords
<1>5. /\ was.file \in was.left /\ was.file \in Files /\ was.text \in Texts
      /\ was.file \in Names(migrations)
      /\ \A i \in DOMAIN executed : executed[i].file = was.file => executed[i].text = Blank
  BY <1>2 DEF Sound, First, Names
<1>6. /\ migrations' = [migrations EXCEPT ![was.file] = was.text]
      /\ runner' = [runner EXCEPT ![r] = rec]
      /\ UNCHANGED <<tree, sums, executed, starts, edits, missed>>
  BY <1>1, <1>3 DEF Fill, Goes
<1>7. Sound(rec)
  BY <1>2, <1>4, <1>5 DEF Sound
<1>8. \A p \in Runners : Sound(runner[p])'
  <2> SUFFICES ASSUME NEW p \in Runners PROVE Sound(runner[p])'
    OBVIOUS
  <2>1. PICK new : new = runner'[p]
    OBVIOUS
  <2>2. Sound(new)
    BY <1>2, <1>4, <1>6, <1>7, <2>1 DEF IInv
  <2>3. Sound(new)'
    BY <1>5, <1>6, <2>2, FillSound
  <2> QED
    BY <2>1, <2>3 DEF Sound
<1>9. /\ migrations' \in [Files -> Texts \cup {Blank, None}]
      /\ Names(migrations') = Names(migrations)
  BY <1>5, <1>6, RunnerConstants DEF IInv, TypeOK, Names
<1>10. runner' \in [Runners -> RunnerRecords]
  BY <1>2, <1>4, <1>6
<1>11. TypeOK'
  BY <1>6, <1>8, <1>9, <1>10 DEF IInv, TypeOK, Sound, First
<1>12. AppliedOnce' /\ AppliedInOrder' /\ EarlierFirst'
  <2>1. Done' = Done
    BY <1>6 DEF Done
  <2>2. AppliedOnce'
    BY <1>6, <1>9, <2>1 DEF IInv, AppliedOnce
  <2> QED
    BY <1>6, <1>9, <2>2 DEF IInv, AppliedInOrder, EarlierFirst
<1>13. RecordMatchesEffects'
  <2> SUFFICES ASSUME NEW i \in DOMAIN executed
               PROVE  executed[i].text \in {Blank, migrations'[executed[i].file]}
    BY <1>6 DEF RecordMatchesEffects
  <2>1. executed[i] \in Effects
    BY DEF IInv, TypeOK
  <2>2. CASE executed[i].file = was.file
    BY <1>5, <2>2
  <2>3. CASE executed[i].file # was.file
    BY <1>5, <1>6, <2>1, <2>3 DEF IInv, TypeOK, RecordMatchesEffects, Effects
  <2> QED
    BY <2>2, <2>3
<1> QED
  BY <1>8, <1>11, <1>12, <1>13 DEF IInv

\* What Record adds: one execution, at the end, of a file not done before.
LEMMA Recorded ==
    ASSUME IInv, NEW r \in Runners, Record(r), NEW was, was = runner[r]
    PROVE  /\ was.file \in Files /\ was.text \in Texts /\ migrations[was.file] = None
           /\ migrations' = [migrations EXCEPT ![was.file] = was.text]
           /\ Names(migrations') = Names(migrations) \cup {was.file}
           /\ was.file \notin Names(migrations)
           /\ DOMAIN executed = 1..Len(executed) /\ Len(executed) \in Nat
           /\ DOMAIN executed' = 1..(Len(executed) + 1)
           /\ \A i \in DOMAIN executed :
                /\ executed'[i] = executed[i] /\ executed[i] \in Effects
                /\ executed[i].file \in Names(migrations)
           /\ executed'[Len(executed) + 1].file = was.file
           /\ executed'[Len(executed) + 1].text = was.text
           /\ executed' \in Seq(Effects)
           /\ migrations' \in [Files -> Texts \cup {Blank, None}]
<1>1. /\ Sound(was) /\ was \in RunnerRecords /\ was.at = "executing"
      /\ migrations \in [Files -> Texts \cup {Blank, None}]
      /\ executed \in Seq(Effects)
  BY Known DEF Record, IInv, TypeOK
<1>2. was.file \in Files /\ was.text \in Texts /\ migrations[was.file] = None
  BY <1>1 DEF Sound, First, RunnerRecords, Record
<1>3. migrations' = [migrations EXCEPT ![was.file] = was.text]
  BY DEF Record
<1>4. executed' = Append(executed, [file |-> was.file, text |-> was.text])
  BY DEF Record
<1>5. [file |-> was.file, text |-> was.text] \in Effects
  BY <1>2 DEF Effects
<1>6. /\ Names(migrations') = Names(migrations) \cup {was.file}
      /\ was.file \notin Names(migrations)
  BY <1>1, <1>2, <1>3, RunnerConstants DEF Names
<1>7. /\ DOMAIN executed = 1..Len(executed) /\ Len(executed) \in Nat
      /\ DOMAIN executed' = 1..(Len(executed) + 1)
      /\ \A i \in DOMAIN executed : executed'[i] = executed[i] /\ executed[i] \in Effects
      /\ executed'[Len(executed) + 1] = [file |-> was.file, text |-> was.text]
      /\ executed' \in Seq(Effects)
  BY <1>1, <1>4, <1>5
<1>8. \A i \in DOMAIN executed : executed[i].file \in Names(migrations)
  BY DEF IInv, AppliedOnce, Done
<1>9. migrations' \in [Files -> Texts \cup {Blank, None}]
  BY <1>1, <1>2, <1>3
<1>10. executed'[Len(executed) + 1].file = was.file /\ executed'[Len(executed) + 1].text = was.text
  BY <1>7
<1>11. \A i \in DOMAIN executed : executed'[i] = executed[i] /\ executed[i] \in Effects
                                  /\ executed[i].file \in Names(migrations)
  BY <1>7, <1>8
<1> QED
  BY <1>2, <1>3, <1>6, <1>7, <1>9, <1>10, <1>11

\* Another runner has put the recorded file neither behind it nor, without its
\* checksum, in hand.
LEMMA RecordSound ==
    ASSUME IInv, NEW r \in Runners, Record(r), NEW rec, Sound(rec)
    PROVE  Sound(rec)'
<1>1. PICK was : was = runner[r]
  OBVIOUS
<1>2. missed' = missed
  BY DEF Record
<1>3. \A f \in Names(migrations), i \in DOMAIN executed' :
        executed'[i].file = f => i \in DOMAIN executed /\ executed'[i] = executed[i]
  BY <1>1, Recorded
<1>4. Names(migrations) \subseteq Names(migrations')
  BY <1>1, Recorded
<1> QED
  BY <1>2, <1>3, <1>4 DEF Sound

LEMMA RecordKeeps ==
    ASSUME IInv, NEW r \in Runners, Record(r)
    PROVE  IInv'
<1>1. PICK was : was = runner[r]
  OBVIOUS
<1>2. /\ Sound(was) /\ was \in RunnerRecords /\ was.at = "executing"
      /\ runner \in [Runners -> RunnerRecords]
  BY <1>1, Known DEF Record
<1>3. PICK rec : rec = [was EXCEPT !.at = "next", !.left = @ \ {was.file}, !.file = 0,
             !.text = None]
  OBVIOUS
<1>4. /\ rec \in RunnerRecords /\ rec.at = "next" /\ rec.listed = was.listed
      /\ rec.left = was.left \ {was.file} /\ rec.read = was.read
  BY <1>2, <1>3 DEF RunnerRecords
<1>5. /\ runner' = [runner EXCEPT ![r] = rec]
      /\ UNCHANGED <<tree, sums, starts, edits, missed>>
  BY <1>1, <1>3 DEF Record, Goes
<1>6. /\ First(was.file, was.left) /\ was.read[was.file] = was.text
      /\ was.left \subseteq was.listed /\ was.listed \subseteq Files
  BY <1>2 DEF Sound, RunnerRecords
<1> DEFINE n == Len(executed) + 1
<1>7. Sound(was)'
  BY <1>2, RecordSound
<1>8. Sound(rec)'
  <2>1. \A f \in rec.listed \ rec.left : f = was.file \/ f \in was.listed \ was.left
    BY <1>4
  <2>2. \A i \in DOMAIN executed' : executed'[i].file = was.file => executed'[i].text = was.text
    BY <1>1, Recorded
  <2>3. was.file \in Names(migrations')
    BY <1>1, Recorded
  <2> QED
    BY <1>4, <1>6, <1>7, <2>1, <2>2, <2>3 DEF Sound
<1>9. \A p \in Runners : Sound(runner[p])'
  <2> SUFFICES ASSUME NEW p \in Runners PROVE Sound(runner[p])'
    OBVIOUS
  <2>1. PICK new : new = runner'[p]
    OBVIOUS
  <2>2. CASE p = r
    <3>1. new = rec
      BY <1>2, <1>5, <2>1, <2>2
    <3> QED
      BY <1>8, <2>1, <3>1 DEF Sound
  <2>3. CASE p # r
    <3>1. new = runner[p] /\ Sound(runner[p])
      BY <1>2, <1>5, <2>1, <2>3 DEF IInv
    <3>2. Sound(new)
      BY <3>1
    <3>3. Sound(new)'
      BY <3>2, RecordSound
    <3> QED
      BY <2>1, <3>3 DEF Sound
  <2> QED
    BY <2>2, <2>3
<1>10. TypeOK'
  <2>1. runner' \in [Runners -> RunnerRecords]
    BY <1>2, <1>4, <1>5
  <2>2. executed' \in Seq(Effects) /\ migrations' \in [Files -> Texts \cup {Blank, None}]
    BY <1>1, Recorded
  <2> QED
    BY <1>5, <1>9, <2>1, <2>2 DEF IInv, TypeOK, Sound, First
<1>11. AppliedOnce'
  <2>1. \A i, j \in DOMAIN executed' : executed'[i].file = executed'[j].file => i = j
    BY <1>1, Recorded DEF IInv, AppliedOnce
  <2>2. Done' = Done \cup {was.file}
    BY <1>1, Recorded DEF Done
  <2> QED
    BY <1>1, <2>1, <2>2, Recorded DEF IInv, AppliedOnce
<1>12. RecordMatchesEffects'
  <2> SUFFICES ASSUME NEW i \in DOMAIN executed'
               PROVE  executed'[i].text \in {Blank, migrations'[executed'[i].file]}
    BY DEF RecordMatchesEffects
  <2>1. CASE i \in DOMAIN executed
    <3>1. /\ executed'[i] = executed[i] /\ executed[i].file # was.file
          /\ executed[i].file \in Files
      BY <1>1, <2>1, Recorded DEF Effects
    <3>2. migrations'[executed[i].file] = migrations[executed[i].file]
      BY <1>1, <3>1, Recorded DEF IInv, TypeOK
    <3> QED
      BY <2>1, <3>1, <3>2 DEF IInv, RecordMatchesEffects
  <2>2. CASE i \notin DOMAIN executed
    <3>1. executed'[i].file = was.file /\ executed'[i].text = was.text /\ was.file \in Files
      BY <1>1, <2>2, Recorded
    <3>2. migrations'[was.file] = was.text
      BY <1>1, Recorded DEF IInv, TypeOK
    <3> QED
      BY <3>1, <3>2
  <2> QED
    BY <2>1, <2>2
<1>13. \A f \in Files : f < was.file => f \in missed \cup Names(migrations)
  <2> SUFFICES ASSUME NEW f \in Files, f < was.file
               PROVE  f \in missed \cup Names(migrations)
    OBVIOUS
  <2>1. f \in was.listed \cup missed
    BY <1>2, <1>6 DEF Sound, First
  <2>2. f \notin was.left
    BY <1>6, FirstIsLeast DEF Sound
  <2> QED
    BY <1>2, <2>1, <2>2 DEF Sound
<1>14. EarlierFirst'
  BY <1>1, <1>5, <1>13, Recorded DEF IInv, EarlierFirst
<1>15. AppliedInOrder'
  <2> SUFFICES ASSUME NEW i \in DOMAIN executed', NEW j \in DOMAIN executed', i < j
               PROVE  executed'[i].file < executed'[j].file \/ executed'[j].file \in missed'
    BY DEF AppliedInOrder
  <2>1. i \in DOMAIN executed /\ executed'[i] = executed[i]
          /\ executed[i].file \in Names(migrations)
    BY <1>1, Recorded
  <2>2. CASE j \in DOMAIN executed
    BY <1>1, <1>5, <2>1, <2>2, Recorded DEF IInv, AppliedInOrder
  <2>3. CASE j \notin DOMAIN executed
    <3>1. executed'[j].file = was.file /\ was.file \in Files /\ was.file \notin Names(migrations)
      BY <1>1, <2>3, Recorded
    <3>2. executed[i].file \in Nat /\ was.file \in Nat /\ executed[i].file # was.file
      BY <2>1, <3>1, RunnerConstants DEF Names
    <3>3. was.file < executed[i].file => was.file \in missed
      BY <2>1, <3>1 DEF IInv, EarlierFirst
    <3> QED
      BY <1>5, <2>1, <3>1, <3>2, <3>3
  <2> QED
    BY <2>2, <2>3
<1> QED
  BY <1>9, <1>10, <1>11, <1>12, <1>14, <1>15 DEF IInv

-----------------------------------------------------------------------------
\* Every step keeps the invariant.
LEMMA NextKeeps == IInv /\ [Next]_vars => IInv'
<1> SUFFICES ASSUME IInv, [Next]_vars PROVE IInv'
  OBVIOUS
<1>1. CASE UNCHANGED vars
  BY <1>1, QuietStep DEF vars, IInv, TypeOK
<1>2. ASSUME NEW r \in Runners, Run(r) PROVE IInv'
  <2>1. CASE LookBlank(r)
    BY <2>1, TakeKeeps DEF LookBlank
  <2>2. CASE Execute(r)
    BY <2>2, TakeKeeps DEF Execute
  <2> QED
    BY <1>2, <2>1, <2>2, StartKeeps, ChecksumVerifyKeeps, TestKeeps, ConnectKeeps, SkipKeeps,
       FillKeeps, RecordKeeps, FinishKeeps DEF Run
<1> QED
  BY <1>1, <1>2, TreeKeeps DEF Next

\* The inductive invariant of the migration runners.
THEOREM Invariant == Spec => []IInv
BY InitHolds, NextKeeps, PTL DEF Spec

\* Types, for any set of files, texts and runners.
THEOREM TypeCorrect == Spec => []TypeOK
<1>1. IInv => TypeOK
  BY DEF IInv
<1> QED
  BY <1>1, Invariant, PTL

\* No migration takes effect twice, and those that have are those recorded.
THEOREM AppliesOnce == Spec => []AppliedOnce
<1>1. IInv => AppliedOnce
  BY DEF IInv
<1> QED
  BY <1>1, Invariant, PTL

\* The recorded checksum is of the text that was executed.
THEOREM RecordsMatch == Spec => []RecordMatchesEffects
<1>1. IInv => RecordMatchesEffects
  BY DEF IInv
<1> QED
  BY <1>1, Invariant, PTL

\* Versions take effect in order, but for files that were missing.
THEOREM AppliesInOrder == Spec => []AppliedInOrder
<1>1. IInv => AppliedInOrder
  BY DEF IInv
<1> QED
  BY <1>1, Invariant, PTL

\* A step that makes a migration take effect finds the history its runner read.
THEOREM AppliesOnReadHistory == Spec => OnReadHistory
<1> DEFINE Step ==
      \A r \in Runners : runner[r].at = "executing" /\ executed' # executed
        /\ runner'[r].at = "next" =>
          \A i \in DOMAIN executed :
              LET e == executed[i] IN
              e.file < runner[r].file /\ e.file \in runner[r].listed =>
                  e.text \in {Blank, runner[r].read[e.file]}
<1>1. IInv => Step
  <2> SUFFICES ASSUME IInv, NEW r \in Runners, runner[r].at = "executing",
                      NEW i \in DOMAIN executed,
                      executed[i].file < runner[r].file, executed[i].file \in runner[r].listed
               PROVE  executed[i].text \in {Blank, runner[r].read[executed[i].file]}
    OBVIOUS
  <2>1. Sound(runner[r]) /\ runner[r].listed \subseteq Files /\ runner[r].left \subseteq Files
    BY Known DEF RunnerRecords
  <2>2. First(runner[r].file, runner[r].left)
    BY <2>1 DEF Sound
  <2>3. executed[i].file \notin runner[r].left
    BY <2>1, <2>2, FirstIsLeast
  <2> QED
    BY <2>1, <2>3 DEF Sound
<1>2. IInv => [Step]_vars
  BY <1>1
<1>3. []IInv => [][Step]_vars
  BY <1>2, PTL
<1> QED
  BY <1>3, Invariant, PTL DEF OnReadHistory

-----------------------------------------------------------------------------
(***************************************************************************)
(* TableMove, the script that copies what V66 archived into the storage of *)
(* V67 and later, for any archive, any number of tables, rows, views and   *)
(* runs, and whatever users do meanwhile.  The argument: what the script   *)
(* has written stays what it was made of until the commit, because its row *)
(* locks keep users from the same rows, views and counter; what it finds   *)
(* in the comparison therefore still holds when it commits.  The owners of *)
(* blobs are not locked: one may go, but only if the cleaner takes it, and *)
(* the cleaner only takes what has been on its queue.  The numbers a table *)
(* has given out are behind its mark, which the script only raises.        *)
(***************************************************************************)

\* What V66 left behind.
ArchiveOK ==
    /\ old \in [rows : [RowIds -> {"old", "raw", Absent}],
                views : [ViewIds -> {Absent, [config |-> "own", seeded |-> FALSE]}],
                mark : 0..MaxRow, blobs : Partial(Keys, RowIds), cells : SUBSET Keys]
    /\ \A i \in Present(old.rows) : i <= old.mark
    /\ Present(old.views) # {}
    /\ \A k \in DOMAIN old.blobs : old.blobs[k] \in Present(old.rows)
    /\ \A k \in DOMAIN old.blobs : k \in old.cells \cup retired

\* The numbers a table has given out are behind its mark, and so is the archive
\* once it has come across: the rows users add then are above it.
NumbersBehindMarks ==
    /\ \A t \in Tables : t > ids => tables[t] = Absent /\ issued[t] = {}
    /\ \A t \in Present(tables) :
        /\ issued[t] \subseteq 1..tables[t].mark
        /\ tables[t].moved => tables[t].mark >= old.mark
    /\ \A x \in kept :
        /\ tables[x[1]] # Absent
        /\ tables[x[1]].moved
        /\ tables[x[1]].rows[x[2]] # Absent
        /\ x[2] > old.mark

\* A key that has never been on the queue is in the cell of its owner.
OwnersAsArchived ==
    \A k \in Present(owner) :
        /\ k \in DOMAIN old.blobs /\ owner[k][2] = old.blobs[k]
        /\ k \in retired \/ Refers(owner[k][1], owner[k][2], k)

\* The statements that have been executed, by the one that is next.
RowsDone == {"seeded", "views", "counters", "blobs", "indexes", "verify", "commit"}
SeedsDone == RowsDone \ {"seeded"}
ViewsDone == SeedsDone \ {"views"}
CounterDone == ViewsDone \ {"counters"}
KeysDone == CounterDone \ {"blobs"}

\* The transaction has written nothing yet, and a table it has made is its own.
\* It has no target only if users changed something since it began.
MoverSound ==
    /\ mover.target <= ids
    /\ mover.since <= changes
    /\ mover.private => mover.target # 0 /\ tables[mover.target] = Absent /\ Named = {}
         /\ issued[mover.target] = {}
    /\ mover.at \notin RowsDone => DOMAIN mover.rows = {} /\ mover.mark = 0
    /\ mover.at \notin SeedsDone => DOMAIN mover.views = {}
    /\ \A k \in mover.keys : k \in DOMAIN old.blobs /\ owner[k] = Absent
    /\ mover.at = "map" /\ Named = {} /\ ~mover.private => mover.since # changes
    /\ mover.at \in {"rows"} \cup RowsDone /\ mover.target = 0 => mover.since # changes
    /\ mover.at = "commit" /\ mover.target # 0 => Here

\* What it has written stays what it was made of, because of its locks. Owners are
\* not locked: those it found may go, if the key has been on the queue.
CopySound ==
    /\ mover.at \in RowsDone =>
        /\ DOMAIN mover.rows = Present(old.rows)
        /\ \A i \in Present(old.rows) : mover.rows[i] = Canonical(old.rows[i])
    /\ \A v \in DOMAIN mover.views : old.views[v] = Absent =>
        /\ mover.views[v] = Absent
        /\ ~mover.private
        /\ tables[mover.target].views[v] # Absent
        /\ tables[mover.target].views[v].seeded
    /\ mover.since = changes /\ mover.at \in SeedsDone =>
        \A v \in ViewIds : Target.views[v] = Placeholder => old.views[v] # Absent
    /\ mover.at \in ViewsDone =>
        \A v \in Present(old.views) : v \in DOMAIN mover.views /\ mover.views[v] = old.views[v]
    /\ mover.mark > 0 /\ ~mover.private => mover.mark >= tables[mover.target].mark
    /\ mover.at \in CounterDone => Target.mark >= old.mark
    /\ mover.at \in KeysDone =>
        \A k \in DOMAIN old.blobs \ mover.keys : owner[k] = Absent => k \in retired
    /\ mover.at = "commit" =>
        /\ \A i \in Present(old.rows) : Canonical(old.rows[i]) = old.rows[i]
        /\ \A k \in DOMAIN old.blobs : Owns(k) = <<mover.target, old.blobs[k]>> \/ Forgotten(k)

\* The inductive invariant of TableMove.
MoveInv ==
    /\ MoveTypeOK
    /\ ArchiveOK
    /\ NumbersBehindMarks
    /\ OwnersAsArchived
    /\ MoverSound
    /\ Here => CopySound

\* A set of numbers has a least one.
LEMMA Least == ASSUME NEW T \in SUBSET Nat, T # {} PROVE \E x \in T : \A y \in T : x <= y
<1>1. IsWellFoundedOn(OpToRel(<, Nat), Nat)
  BY NatLessThanWellFounded
<1>2. PICK x \in T : \A y \in T : ~(<<y, x>> \in OpToRel(<, Nat))
  BY <1>1, WFMin
<1>3. \A y \in T : ~(y < x)
  BY <1>2 DEF OpToRel
<1>. QED
  BY <1>3

\* The highest number of a set, or 0.
LEMMA TopOf ==
  ASSUME NEW n \in Nat, NEW S \in SUBSET (1..n)
  PROVE  Top(S) \in S \cup {0} /\ \A x \in S : x <= Top(S)
<1> DEFINE T == {n - x : x \in S \cup {0}}
<1>1. T \in SUBSET Nat /\ T # {}
  OBVIOUS
<1>2. PICK d \in T : \A y \in T : d <= y
  BY <1>1, Least
<1>3. PICK m \in S \cup {0} : d = n - m
  OBVIOUS
<1>4. \A x \in S \cup {0} : m >= x
  <2> TAKE x \in S \cup {0}
  <2>1. n - m <= n - x
    BY <1>2, <1>3
  <2>. QED
    BY <2>1
<1>. HIDE DEF T
<1>5. \E k \in S \cup {0} : \A x \in S \cup {0} : k >= x
  BY <1>4
<1>6. Max(S \cup {0}) \in S \cup {0} /\ \A x \in S \cup {0} : Max(S \cup {0}) >= x
  BY <1>5 DEF Max
<1>7. \A x \in S \cup {0} : x \in Int
  OBVIOUS
<1>. QED
  BY <1>6, <1>7 DEF Top

\* greatest() of two counters.
LEMMA MaxOfTwo ==
  ASSUME NEW a \in Nat, NEW b \in Nat
  PROVE  Max({a, b}) \in {a, b} /\ Max({a, b}) >= a /\ Max({a, b}) >= b
<1>1. \E m \in {a, b} : \A x \in {a, b} : m >= x
  <2>1. CASE a >= b
    BY <2>1
  <2>2. CASE b >= a
    BY <2>2
  <2>. QED
    BY <2>1, <2>2
<1>. QED
  BY <1>1 DEF Max

\* What the type invariant says, in the form the proofs use.
LEMMA MoveTypes ==
  ASSUME MoveTypeOK
  PROVE  /\ Tables \subseteq Nat \ {0} /\ RowIds \subseteq Nat \ {0}
         /\ \A t : t \in Present(tables) <=> t \in Tables /\ tables[t] # Absent
         /\ \A t \in Present(tables) : tables[t] \in Table /\ t <= ids
         /\ ids \in Nat /\ ids \in 0..MaxTables /\ changes \in Nat /\ changes \in 0..MaxChanges
         /\ runs \in 0..MaxRuns
         /\ \A t : t \in Named <=> t \in Tables /\ tables[t] # Absent /\ tables[t].named
         /\ \A k : k \in Present(owner) <=> k \in Keys /\ owner[k] # Absent
         /\ mover \in Movers
         /\ mover.target \in Nat /\ mover.mark \in Nat
         /\ mover.target # 0 => mover.target \in Tables
         /\ Absent \notin Data \cup Views \cup Table \cup (Tables \X RowIds)
<1>1. /\ Tables \subseteq Nat \ {0} /\ RowIds \subseteq Nat \ {0}
      /\ Absent \notin Data \cup Views \cup Table \cup (Tables \X RowIds)
  BY MoveConstants DEF Tables, RowIds
<1>2. DOMAIN tables = Tables /\ DOMAIN owner = Keys
  BY DEF MoveTypeOK
<1>3. /\ \A t : t \in Present(tables) <=> t \in Tables /\ tables[t] # Absent
      /\ \A k : k \in Present(owner) <=> k \in Keys /\ owner[k] # Absent
  BY <1>2 DEF Present
<1>4. \A t : t \in Named <=> t \in Tables /\ tables[t] # Absent /\ tables[t].named
  BY <1>3 DEF Named
<1>5. \A t \in Present(tables) : tables[t] \in Table /\ t <= ids
  BY <1>3 DEF MoveTypeOK
<1>6. /\ ids \in Nat /\ ids \in 0..MaxTables /\ changes \in Nat /\ changes \in 0..MaxChanges
      /\ runs \in 0..MaxRuns
  BY DEF MoveTypeOK
<1>7. mover \in Movers
  BY DEF MoveTypeOK
<1>8. /\ mover.target \in 0..MaxTables /\ mover.mark \in 0..MaxRow
  BY <1>7 DEF Movers
<1>9. /\ mover.target \in Nat /\ mover.mark \in Nat
      /\ mover.target # 0 => mover.target \in Tables
  BY <1>8, MoveConstants DEF Tables
<1>. QED
  BY <1>1, <1>3, <1>4, <1>5, <1>6, <1>7, <1>9

\* Functions on a part of a set.
LEMMA PartialMap ==
  ASSUME NEW S, NEW T, NEW f \in Partial(S, T)
  PROVE  f \in [DOMAIN f -> T] /\ DOMAIN f \in SUBSET S
BY DEF Partial

LEMMA IsPartial ==
  ASSUME NEW S, NEW T, NEW X \in SUBSET S, NEW f \in [X -> T]
  PROVE  f \in Partial(S, T)
BY DEF Partial

LEMMA EmptyPartial == ASSUME NEW S, NEW T PROVE <<>> \in Partial(S, T) /\ DOMAIN <<>> = {}
<1>1. <<>> \in [{} -> T]
  OBVIOUS
<1>. QED
  BY <1>1 DEF Partial

\* What the transaction has written.
LEMMA MoverMaps ==
  ASSUME MoveTypeOK
  PROVE  /\ mover.rows \in [DOMAIN mover.rows -> Data] /\ DOMAIN mover.rows \subseteq RowIds
         /\ mover.views \in [DOMAIN mover.views -> Views \cup {Absent}]
         /\ DOMAIN mover.views \subseteq ViewIds
BY PartialMap DEF MoveTypeOK, Movers

LEMMA EmptyIsTable == EmptyTable \in Table
BY MoveConstants DEF EmptyTable, Table

\* The target, field by field.
TargetFacts ==
    /\ Target \in Table
    /\ \A i \in RowIds : Target.rows[i] = IF i \in DOMAIN mover.rows THEN mover.rows[i]
            ELSE IF mover.private THEN Absent ELSE tables[mover.target].rows[i]
    /\ \A v \in ViewIds : Target.views[v] = IF v \in DOMAIN mover.views THEN mover.views[v]
            ELSE IF mover.private THEN Absent ELSE tables[mover.target].views[v]
    /\ Target.mark = IF mover.mark > 0 THEN mover.mark
            ELSE IF mover.private THEN 0 ELSE tables[mover.target].mark
    /\ Target.named = IF mover.private THEN TRUE ELSE tables[mover.target].named

LEMMA TargetIsTable == MoveTypeOK /\ Here => TargetFacts
<1> SUFFICES ASSUME MoveTypeOK, Here PROVE TargetFacts
  OBVIOUS
<1> DEFINE base == IF mover.private THEN [EmptyTable EXCEPT !.moved = TRUE]
                   ELSE tables[mover.target]
<1>1. base \in Table
  BY MoveTypes, EmptyIsTable DEF Here, Table
<1>2. base.rows \in [RowIds -> Data \cup {Absent}]
        /\ base.views \in [ViewIds -> Views \cup {Absent}] /\ base.mark \in 0..MaxRow
  BY <1>1 DEF Table
<1>3. mover.private => base.mark = 0 /\ base.named = TRUE /\ base.rows = [i \in RowIds |-> Absent]
        /\ base.views = [v \in ViewIds |-> Absent]
  BY DEF EmptyTable
<1>4. ~mover.private => base = tables[mover.target]
  OBVIOUS
<1>5. mover.mark \in 0..MaxRow
  BY MoveTypes DEF Movers
<1>6. Target = [base EXCEPT !.rows = Over(base.rows, mover.rows),
        !.views = Over(base.views, mover.views),
                 !.mark = IF mover.mark > 0 THEN mover.mark ELSE base.mark]
  BY DEF Target
<1>. HIDE DEF base
<1>7. Over(base.rows, mover.rows) = [i \in RowIds |->
        IF i \in DOMAIN mover.rows THEN mover.rows[i] ELSE base.rows[i]]
  BY <1>2 DEF Over
<1>8. Over(base.views, mover.views) = [v \in ViewIds |->
        IF v \in DOMAIN mover.views THEN mover.views[v] ELSE base.views[v]]
  BY <1>2 DEF Over
<1>9. Over(base.rows, mover.rows) \in [RowIds -> Data \cup {Absent}]
  BY <1>2, <1>7, MoverMaps
<1>10. Over(base.views, mover.views) \in [ViewIds -> Views \cup {Absent}]
  BY <1>2, <1>8, MoverMaps
<1>11. Target \in Table
  BY <1>1, <1>5, <1>6, <1>9, <1>10 DEF Table
<1>12. /\ Target.rows = Over(base.rows, mover.rows) /\ Target.views = Over(base.views, mover.views)
       /\ Target.mark = IF mover.mark > 0 THEN mover.mark ELSE base.mark
       /\ Target.named = base.named
  BY <1>1, <1>6 DEF Table
<1>13. \A i \in RowIds :
         Target.rows[i] = IF i \in DOMAIN mover.rows THEN mover.rows[i] ELSE base.rows[i]
  BY <1>7, <1>12
<1>14. \A v \in ViewIds :
         Target.views[v] = IF v \in DOMAIN mover.views THEN mover.views[v] ELSE base.views[v]
  BY <1>8, <1>12
<1>15. \A i \in RowIds :
         base.rows[i] = IF mover.private THEN Absent ELSE tables[mover.target].rows[i]
  BY <1>3, <1>4
<1>16. \A v \in ViewIds :
         base.views[v] = IF mover.private THEN Absent ELSE tables[mover.target].views[v]
  BY <1>3, <1>4
<1>17. /\ base.mark = IF mover.private THEN 0 ELSE tables[mover.target].mark
       /\ base.named = IF mover.private THEN TRUE ELSE tables[mover.target].named
  BY <1>3, <1>4
<1>. QED
  BY <1>11, <1>12, <1>13, <1>14, <1>15, <1>16, <1>17 DEF TargetFacts

\* The same in the next state.
LEMMA TargetNext == MoveTypeOK' /\ Here' => TargetFacts'
BY TargetIsTable, PTL

LEMMA RestIsMover == AtRest \in Movers
BY EmptyPartial, MoveConstants DEF AtRest, Movers, Stages

LEMMA MoveStart == MoveInit => MoveInv
<1> SUFFICES ASSUME MoveInit PROVE MoveInv
  OBVIOUS
<1>1. PICK seeds \in BOOLEAN :
        /\ ids = IF seeds THEN 1 ELSE 0
        /\ tables = [t \in Tables |-> IF seeds /\ t = 1
                                      THEN [EmptyTable EXCEPT !.views[1] = Placeholder] ELSE Absent]
  BY DEF MoveInit
<1>2. [EmptyTable EXCEPT !.views[1] = Placeholder] \in Table
  BY EmptyIsTable DEF Table, EmptyTable, Placeholder, Views
<1>3. [EmptyTable EXCEPT !.views[1] = Placeholder].moved = FALSE
  BY DEF EmptyTable
<1>4. /\ \A t \in Tables : tables[t] # Absent => t = 1 /\ seeds /\ tables[t].moved = FALSE
      /\ \A t \in Tables : tables[t] \in Table \cup {Absent}
  BY <1>1, <1>2, <1>3
<1>5. DOMAIN tables = Tables /\ DOMAIN owner = Keys
  BY <1>1 DEF MoveInit
<1>6. MoveTypeOK
  <2>1. tables \in [Tables -> Table \cup {Absent}]
    BY <1>1, <1>4
  <2>2. ids \in 0..MaxTables /\ \A t \in Present(tables) : t <= ids
    BY <1>1, <1>4, <1>5, MoveConstants DEF Present
  <2>3. \A t, u \in Named : t = u
    BY <1>4, <1>5 DEF Named, Present
  <2>4. \A k \in Present(owner) : FALSE
    BY DEF MoveInit, Present
  <2>. QED
    BY <2>1, <2>2, <2>3, <2>4, RestIsMover, MoveConstants DEF MoveTypeOK, MoveInit
<1>7. ArchiveOK
  <2>1. \A k \in DOMAIN old.blobs : k \in old.cells \cup retired
    BY DEF MoveInit
  <2>. QED
    BY <2>1, MoveConstants DEF MoveInit, ArchiveOK
<1>8. NumbersBehindMarks
  BY <1>1, <1>4, <1>5, MoveConstants DEF NumbersBehindMarks, MoveInit, Present, Tables
<1>9. OwnersAsArchived
  BY DEF OwnersAsArchived, MoveInit, Present
<1>10. MoverSound
  BY <1>6 DEF MoverSound, MoveInit, AtRest, RowsDone, SeedsDone, MoveTypeOK
<1>11. ~Here
  BY DEF Here, MoveInit, AtRest
<1>. QED
  BY <1>6, <1>7, <1>8, <1>9, <1>10, <1>11 DEF MoveInv

\* A step of the script other than Commit.
LEMMA ScriptLeaves ==
  ASSUME MoveInv, UNCHANGED <<old, tables, owner, changes, issued, kept, cleaning>>,
         ids' \in ids..MaxTables, runs' \in 0..MaxRuns, mover' \in Movers
  PROVE  /\ MoveTypeOK' /\ ArchiveOK' /\ NumbersBehindMarks' /\ OwnersAsArchived'
         /\ Present(tables)' = Present(tables) /\ Named' = Named
<1>1. Present(tables)' = Present(tables) /\ Present(owner)' = Present(owner)
        /\ UNCHANGED <<queue, doomed, retired>>
  BY DEF Present, cleaning
<1>2. Named' = Named
  BY <1>1 DEF Named
<1>3. MoveTypeOK'
  BY <1>1, <1>2, MoveTypes DEF MoveInv, MoveTypeOK
<1>4. ArchiveOK'
  BY <1>1 DEF MoveInv, ArchiveOK, Present
<1>5. NumbersBehindMarks'
  BY <1>1, MoveTypes DEF MoveInv, NumbersBehindMarks
<1>6. OwnersAsArchived'
  BY <1>1 DEF MoveInv, OwnersAsArchived, Refers
<1>. QED
  BY <1>1, <1>2, <1>3, <1>4, <1>5, <1>6

\* To end a run is sound at any time.
LEMMA RestSound ==
  ASSUME MoveInv, mover' = AtRest, ids' = ids, changes' = changes
  PROVE  MoverSound' /\ ~Here'
BY MoveTypes DEF MoveInv, MoverSound, AtRest, Here, RowsDone, SeedsDone

LEMMA RollbackKeeps == ASSUME MoveInv, Rollback PROVE MoveInv'
<1>1. MoveTypeOK' /\ ArchiveOK' /\ NumbersBehindMarks' /\ OwnersAsArchived'
  BY ScriptLeaves, RestIsMover DEF Rollback, MoveInv, MoveTypeOK
<1>. QED
  BY <1>1, RestSound DEF Rollback, MoveInv

LEMMA BeginKeeps == ASSUME MoveInv, Begin PROVE MoveInv'
<1>1. mover' \in Movers
  BY RestIsMover DEF Begin, Movers, Stages, MoveInv, MoveTypeOK
<1>2. MoveTypeOK' /\ ArchiveOK' /\ NumbersBehindMarks' /\ OwnersAsArchived'
  BY <1>1, ScriptLeaves, MoveConstants DEF Begin, MoveInv, MoveTypeOK
<1>3. MoverSound'
  BY MoveTypes DEF Begin, AtRest, MoverSound, MoveInv, RowsDone, SeedsDone
<1>4. ~Here'
  BY DEF Begin, AtRest, Here
<1>. QED
  BY <1>2, <1>3, <1>4 DEF MoveInv

LEMMA InsertTablesKeeps == ASSUME MoveInv, InsertTables PROVE MoveInv'
<1>0. mover \in Movers /\ ids \in 0..MaxTables /\ MaxTables \in Nat
  BY MoveTypes, MoveConstants DEF MoveInv
<1>1. mover' \in Movers /\ ids' \in ids..MaxTables
  <2>1. CASE Named = {}
    <3>1. ids' = ids + 1 /\ ids + 1 \in 0..MaxTables
      BY <1>0, <2>1 DEF InsertTables
    <3>2. mover' = [mover EXCEPT !.at = "map", !.private = TRUE, !.target = ids + 1]
      BY <2>1 DEF InsertTables
    <3>3. mover' \in Movers
      BY <1>0, <3>1, <3>2 DEF Movers, Stages
    <3>. QED
      BY <1>0, <3>1, <3>3
  <2>2. CASE Named # {}
    BY <1>0, <2>2 DEF InsertTables, Movers, Stages
  <2>. QED
    BY <2>1, <2>2
<1>2. /\ MoveTypeOK' /\ ArchiveOK' /\ NumbersBehindMarks' /\ OwnersAsArchived'
      /\ Named' = Named
  BY <1>1, ScriptLeaves DEF InsertTables, MoveInv, MoveTypeOK
<1>4. /\ mover'.at = "map"
      /\ mover'.rows = mover.rows /\ mover'.views = mover.views /\ mover'.mark = mover.mark
      /\ mover'.keys = mover.keys /\ mover'.since = mover.since
  BY <1>0 DEF InsertTables, Movers
<1>5. \/ mover'.private = mover.private /\ mover'.target = mover.target /\ ids' = ids
      \/ mover'.private = TRUE /\ mover'.target = ids + 1 /\ ids' = ids + 1 /\ Named = {}
  BY <1>0 DEF InsertTables, Movers
<1>6. MoverSound'
  BY <1>1, <1>2, <1>4, <1>5, MoveTypes
     DEF InsertTables, MoveInv, MoverSound, NumbersBehindMarks, RowsDone, SeedsDone, Tables
<1>7. CopySound'
  BY <1>4 DEF InsertTables, CopySound, MoveInv, MoverSound, RowsDone, SeedsDone, ViewsDone,
       CounterDone, KeysDone
<1>. QED
  BY <1>2, <1>6, <1>7 DEF MoveInv

LEMMA CopyTablesKeeps == ASSUME MoveInv, CopyTables PROVE MoveInv'
<1>0. Named \in SUBSET (1..MaxTables) /\ MaxTables \in Nat
  BY MoveTypes, MoveConstants DEF MoveInv, Tables
<1>1. Top(Named) \in Named \cup {0} /\ (Top(Named) = 0 => Named = {})
  BY <1>0, TopOf
<1>2. Top(Named) \in 0..MaxTables /\ Top(Named) <= ids
  BY <1>0, <1>1, MoveTypes DEF MoveInv, Present
<1>3. mover' \in Movers /\ mover \in Movers
  BY <1>2 DEF CopyTables, Movers, Stages, MoveInv, MoveTypeOK
<1>4. /\ MoveTypeOK' /\ ArchiveOK' /\ NumbersBehindMarks' /\ OwnersAsArchived'
      /\ Named' = Named
  BY <1>3, ScriptLeaves DEF CopyTables, MoveInv, MoveTypeOK
<1>5. /\ mover'.at = "rows"
      /\ mover'.rows = mover.rows /\ mover'.views = mover.views /\ mover'.mark = mover.mark
      /\ mover'.keys = mover.keys /\ mover'.since = mover.since
      /\ mover'.private = mover.private
      /\ mover'.target = IF mover.private THEN mover.target ELSE Top(Named)
  BY <1>3 DEF CopyTables, Movers
<1>6. MoverSound'
  BY <1>1, <1>2, <1>4, <1>5 DEF CopyTables, MoveInv, MoverSound, RowsDone, SeedsDone
<1>7. CopySound'
  BY <1>5 DEF CopyTables, CopySound, MoveInv, MoverSound, RowsDone, SeedsDone, ViewsDone,
       CounterDone, KeysDone
<1>. QED
  BY <1>4, <1>6, <1>7 DEF MoveInv

LEMMA ArchiveFacts ==
  ASSUME ArchiveOK
  PROVE  /\ Present(old.rows) \subseteq RowIds
         /\ \A i \in Present(old.rows) : old.rows[i] \in {"old", "raw"}
              /\ Canonical(old.rows[i]) \in Data
         /\ Present(old.views) \subseteq ViewIds
         /\ \A v \in ViewIds : old.views[v] # Absent =>
                v \in Present(old.views) /\ old.views[v] = [config |-> "own", seeded |-> FALSE]
         /\ \A v \in Present(old.views) : old.views[v] # Absent
         /\ old.mark \in Nat /\ old.mark \in 0..MaxRow
         /\ DOMAIN old.blobs \subseteq Keys
         /\ \A k \in DOMAIN old.blobs : old.blobs[k] \in RowIds
<1>1. /\ old.rows \in [RowIds -> {"old", "raw", Absent}]
      /\ old.views \in [ViewIds -> {Absent, [config |-> "own", seeded |-> FALSE]}]
      /\ old.mark \in 0..MaxRow /\ old.blobs \in Partial(Keys, RowIds)
  BY DEF ArchiveOK
<1>2. DOMAIN old.blobs \subseteq Keys /\ \A k \in DOMAIN old.blobs : old.blobs[k] \in RowIds
  BY <1>1, PartialMap
<1>3. /\ Present(old.rows) \subseteq RowIds /\ Present(old.views) \subseteq ViewIds
      /\ \A i \in Present(old.rows) : old.rows[i] \in {"old", "raw"}
  BY <1>1 DEF Present
<1>4. \A i \in Present(old.rows) : Canonical(old.rows[i]) \in Data
  BY <1>3 DEF Canonical, Data
<1>5. /\ \A v \in ViewIds : old.views[v] # Absent =>
                v \in Present(old.views) /\ old.views[v] = [config |-> "own", seeded |-> FALSE]
      /\ \A v \in Present(old.views) : old.views[v] # Absent
  BY <1>1 DEF Present
<1>6. old.mark \in Nat
  BY <1>1, MoveConstants
<1>. QED
  BY <1>1, <1>2, <1>3, <1>4, <1>5, <1>6

\* A view that was copied is neither missing nor a placeholder.
LEMMA ViewsAreSome ==
  /\ Placeholder \in Views \ {Absent}
  /\ [config |-> "own", seeded |-> FALSE] \in Views \ {Absent, Placeholder}
<1>1. Absent \notin Views
  BY MoveConstants
<1>2. Placeholder \in Views /\ [config |-> "own", seeded |-> FALSE] \in Views
  BY DEF Placeholder, Views
<1>3. [config |-> "own", seeded |-> FALSE] # Placeholder
  BY DEF Placeholder
<1>. QED
  BY <1>1, <1>2, <1>3

\* A step of the script between "map" and "commit", field by field.
LEMMA InRun ==
  ASSUME MoveInv, UNCHANGED <<old, tables, ids, owner, runs, changes, issued, kept, cleaning>>,
         mover' \in Movers, mover.at \in {"rows"} \cup RowsDone, mover'.at \in RowsDone,
         mover'.at = "commit" /\ mover.target # 0 => Here,
         mover'.target = mover.target, mover'.private = mover.private, mover'.since = mover.since
  PROVE  /\ MoveTypeOK' /\ ArchiveOK' /\ NumbersBehindMarks' /\ OwnersAsArchived'
         /\ Here' = Here
         /\ (/\ mover'.at \notin RowsDone => DOMAIN mover'.rows = {} /\ mover'.mark = 0
             /\ mover'.at \notin SeedsDone => DOMAIN mover'.views = {}
             /\ \A k \in mover'.keys : k \in DOMAIN old.blobs /\ owner[k] = Absent) => MoverSound'
         /\ Present(old.rows)' = Present(old.rows) /\ Present(old.views)' = Present(old.views)
         /\ Here => TargetFacts /\ TargetFacts'
<1>1. /\ MoveTypeOK' /\ ArchiveOK' /\ NumbersBehindMarks' /\ OwnersAsArchived' /\ Named' = Named
  BY ScriptLeaves, MoveTypes DEF MoveInv
<1>2. Here' = Here
  BY DEF Here
<1>3. Here => TargetFacts /\ TargetFacts'
  BY <1>1, <1>2, TargetIsTable, TargetNext DEF MoveInv
<1>4. Present(old.rows)' = Present(old.rows) /\ Present(old.views)' = Present(old.views)
  BY DEF Present
<1>. QED
  BY <1>1, <1>2, <1>3, <1>4 DEF MoverSound, MoveInv, RowsDone, SeedsDone

LEMMA InsertRowsKeeps == ASSUME MoveInv, InsertRows PROVE MoveInv'
<1> DEFINE archived == Present(old.rows)
           copies == [i \in archived |-> Canonical(old.rows[i])]
<1>0. mover \in Movers
  BY MoveTypes DEF MoveInv
<1>a. archived \in SUBSET RowIds /\ copies \in [archived -> Data] /\ RowIds = 1..MaxRow
  /\ MaxRow \in Nat
  BY ArchiveFacts, MoveConstants DEF MoveInv, RowIds
<1>b. copies \in Partial(RowIds, Data) /\ <<>> \in Partial(RowIds, Data) /\ DOMAIN <<>> = {}
  BY <1>a, IsPartial, EmptyPartial
<1>c. Top(archived) \in 0..MaxRow
  <2>1. archived \in SUBSET (1..MaxRow) /\ MaxRow \in Nat
    BY <1>a
  <2>2. Top(archived) \in archived \cup {0}
    BY <2>1, TopOf
  <2>. QED
    BY <2>1, <2>2
<1>d. Here => Target.mark \in 0..MaxRow
  BY TargetIsTable DEF MoveInv, TargetFacts, Table
<1>e. Here => /\ Max({Target.mark, Top(archived)}) \in 0..MaxRow
              /\ Max({Target.mark, Top(archived)}) >= Target.mark
  BY <1>a, <1>c, <1>d, MaxOfTwo
<1> DEFINE rows == IF Here THEN copies ELSE <<>>
           mark == IF Here /\ archived # {} THEN Max({Target.mark, Top(archived)}) ELSE 0
<1>1. rows \in Partial(RowIds, Data) /\ mark \in 0..MaxRow
  BY <1>a, <1>b, <1>e
<1>2. Here => DOMAIN rows = archived /\ \A i \in archived : rows[i] = Canonical(old.rows[i])
  OBVIOUS
<1>3. Here /\ mark > 0 => mark >= Target.mark
  BY <1>e
<1>4. mover' = [mover EXCEPT !.at = "seeded", !.rows = rows, !.mark = mark]
  BY DEF InsertRows
<1>. HIDE DEF rows, mark, copies
<1>5. /\ mover' \in Movers
      /\ mover'.at = "seeded" /\ mover'.rows = rows /\ mover'.mark = mark
      /\ mover'.target = mover.target /\ mover'.private = mover.private
           /\ mover'.since = mover.since
      /\ mover'.views = mover.views /\ mover'.keys = mover.keys
  BY <1>0, <1>1, <1>4 DEF Movers, Stages
<1>6. /\ MoveTypeOK' /\ ArchiveOK' /\ NumbersBehindMarks' /\ OwnersAsArchived'
      /\ Here' = Here /\ (Here => TargetFacts /\ TargetFacts')
  BY <1>5, InRun DEF InsertRows, RowsDone
<1>7. MoverSound'
  <2>1. DOMAIN mover.views = {} /\ \A k \in mover.keys : k \in DOMAIN old.blobs /\ owner[k] = Absent
    BY DEF InsertRows, MoveInv, MoverSound, SeedsDone, RowsDone
  <2>. QED
    BY <1>5, <2>1, InRun DEF InsertRows, RowsDone
<1>8. ASSUME Here PROVE CopySound'
  <2>1. DOMAIN mover.views = {} /\ mover.mark = 0
          /\ Target.mark = IF mover.private THEN 0 ELSE tables[mover.target].mark
    BY <1>6, <1>8 DEF InsertRows, MoveInv, MoverSound, SeedsDone, RowsDone, TargetFacts
  <2>2. Present(old.rows)' = archived /\ UNCHANGED <<old, tables>>
    BY DEF InsertRows, Present
  <2>. QED
    BY <1>2, <1>3, <1>5, <1>8, <2>1, <2>2
       DEF CopySound, RowsDone, SeedsDone, ViewsDone, CounterDone, KeysDone
<1>. QED
  BY <1>6, <1>7, <1>8 DEF MoveInv

LEMMA DeleteSeededViewsKeeps == ASSUME MoveInv, DeleteSeededViews PROVE MoveInv'
<1> DEFINE seeds == {v \in ViewIds : Seeded(v) /\ old.views[v] = Absent}
           views == IF Here THEN [v \in seeds |-> Absent] ELSE <<>>
<1>0. mover \in Movers
  BY MoveTypes DEF MoveInv
<1>1. views \in Partial(ViewIds, Views \cup {Absent})
  <2>1. [v \in seeds |-> Absent] \in [seeds -> Views \cup {Absent}] /\ seeds \in SUBSET ViewIds
    OBVIOUS
  <2>2. [v \in seeds |-> Absent] \in Partial(ViewIds, Views \cup {Absent})
    BY <2>1, IsPartial
  <2>. QED
    BY <2>2, EmptyPartial
<1>2. Here => DOMAIN views = seeds /\ \A v \in seeds : views[v] = Absent
  OBVIOUS
<1>3. mover' = [mover EXCEPT !.at = "views", !.views = views]
  BY DEF DeleteSeededViews
<1>. HIDE DEF views
<1>5. /\ mover' \in Movers
      /\ mover'.at = "views" /\ mover'.views = views
      /\ mover'.target = mover.target /\ mover'.private = mover.private
           /\ mover'.since = mover.since
      /\ mover'.rows = mover.rows /\ mover'.keys = mover.keys /\ mover'.mark = mover.mark
  BY <1>0, <1>1, <1>3 DEF Movers, Stages
<1>6. /\ MoveTypeOK' /\ ArchiveOK' /\ NumbersBehindMarks' /\ OwnersAsArchived'
      /\ Here' = Here /\ (Here => TargetFacts /\ TargetFacts')
  BY <1>5, InRun DEF DeleteSeededViews, RowsDone
<1>7. MoverSound'
  <2>1. \A k \in mover.keys : k \in DOMAIN old.blobs /\ owner[k] = Absent
    BY DEF MoveInv, MoverSound
  <2>. QED
    BY <1>5, <2>1, InRun DEF DeleteSeededViews, RowsDone, SeedsDone
<1>8. ASSUME Here PROVE CopySound'
  <2>1. /\ DOMAIN mover.views = {}
        /\ \A v \in ViewIds :
             Target.views[v] = IF mover.private THEN Absent ELSE tables[mover.target].views[v]
    BY <1>6, <1>8 DEF DeleteSeededViews, MoveInv, MoverSound, SeedsDone, RowsDone, TargetFacts
  <2>2. /\ DOMAIN mover.rows = Present(old.rows)
        /\ \A i \in Present(old.rows) : mover.rows[i] = Canonical(old.rows[i])
        /\ mover.mark > 0 /\ ~mover.private => mover.mark >= tables[mover.target].mark
    BY <1>8 DEF DeleteSeededViews, CopySound, MoveInv, RowsDone
  <2>3. Present(old.rows)' = Present(old.rows) /\ UNCHANGED <<old, tables>>
    BY DEF DeleteSeededViews, Present
  <2>4. \A v \in seeds : ~mover.private /\ old.views[v] = Absent
                          /\ tables[mover.target].views[v] # Absent
                               /\ tables[mover.target].views[v].seeded
    BY <2>1 DEF Seeded
  <2>5. \A v \in ViewIds : Target'.views[v] = Placeholder => old.views[v] # Absent
    <3>1. SUFFICES ASSUME NEW v \in ViewIds, Target'.views[v] = Placeholder,
                            old.views[v] = Absent PROVE FALSE
      OBVIOUS
    <3>2. Target'.views[v] = IF v \in seeds THEN Absent ELSE Target.views[v]
      BY <1>2, <1>5, <1>6, <1>8, <2>1, <2>3 DEF TargetFacts
    <3>3. Placeholder # Absent
      BY ViewsAreSome
    <3>4. v \notin seeds /\ Target.views[v] = Placeholder
      BY <3>1, <3>2, <3>3
    <3>5. Seeded(v)
      BY <3>3, <3>4 DEF Seeded, Placeholder
    <3>. QED
      BY <3>1, <3>4, <3>5
  <2>. HIDE DEF seeds
  <2>. QED
    BY <1>2, <1>5, <1>8, <2>2, <2>3, <2>4, <2>5
       DEF CopySound, RowsDone, SeedsDone, ViewsDone, CounterDone, KeysDone
<1>. QED
  BY <1>6, <1>7, <1>8 DEF MoveInv

LEMMA InsertViewsKeeps == ASSUME MoveInv, InsertViews PROVE MoveInv'
<1> DEFINE copied == [v \in DOMAIN mover.views \cup CopiedViews |->
                         IF v \in CopiedViews THEN old.views[v] ELSE Absent]
           views == IF Here THEN copied ELSE <<>>
<1>0. mover \in Movers /\ DOMAIN mover.views \subseteq ViewIds
  BY MoveTypes, MoverMaps DEF MoveInv
<1>a. /\ CopiedViews \subseteq ViewIds
      /\ \A v \in CopiedViews : old.views[v] \in Views \ {Absent, Placeholder}
      /\ \A v \in ViewIds : v \in CopiedViews <=> old.views[v] # Absent
  BY ArchiveFacts, ViewsAreSome DEF MoveInv, CopiedViews
<1>1. views \in Partial(ViewIds, Views \cup {Absent})
  <2>1. copied \in [DOMAIN mover.views \cup CopiedViews -> Views \cup {Absent}]
        /\ DOMAIN mover.views \cup CopiedViews \in SUBSET ViewIds
    BY <1>0, <1>a
  <2>2. copied \in Partial(ViewIds, Views \cup {Absent})
    BY <2>1, IsPartial
  <2>. QED
    BY <2>2, EmptyPartial
<1>2. Here => /\ DOMAIN views = DOMAIN mover.views \cup CopiedViews
              /\ \A v \in DOMAIN views :
                   views[v] = IF v \in CopiedViews THEN old.views[v] ELSE Absent
  OBVIOUS
<1>3. mover' = [mover EXCEPT !.at = "counters", !.views = views]
  BY DEF InsertViews
<1>. HIDE DEF views, copied
<1>5. /\ mover' \in Movers
      /\ mover'.at = "counters" /\ mover'.views = views
      /\ mover'.target = mover.target /\ mover'.private = mover.private
           /\ mover'.since = mover.since
      /\ mover'.rows = mover.rows /\ mover'.keys = mover.keys /\ mover'.mark = mover.mark
  BY <1>0, <1>1, <1>3 DEF Movers, Stages
<1>6. /\ MoveTypeOK' /\ ArchiveOK' /\ NumbersBehindMarks' /\ OwnersAsArchived'
      /\ Here' = Here /\ (Here => TargetFacts /\ TargetFacts')
      /\ Present(old.rows)' = Present(old.rows) /\ Present(old.views)' = Present(old.views)
  BY <1>5, InRun DEF InsertViews, RowsDone
<1>7. MoverSound'
  <2>1. \A k \in mover.keys : k \in DOMAIN old.blobs /\ owner[k] = Absent
    BY DEF MoveInv, MoverSound
  <2>. QED
    BY <1>5, <2>1, InRun DEF InsertViews, RowsDone, SeedsDone
<1>8. ASSUME Here PROVE CopySound'
  <2>0. UNCHANGED <<old, tables>> /\ mover.at = "views" /\ CopySound
    BY <1>8 DEF InsertViews, MoveInv
  <2>1. \A v \in DOMAIN views : old.views[v] = Absent =>
          /\ views[v] = Absent /\ ~mover.private
          /\ tables[mover.target].views[v] # Absent /\ tables[mover.target].views[v].seeded
    BY <1>0, <1>2, <1>8, <1>a, <2>0 DEF CopySound
  <2>2. \A v \in Present(old.views) : v \in DOMAIN views /\ views[v] = old.views[v]
    BY <1>2, <1>8 DEF CopiedViews
  <2>3. /\ DOMAIN mover.rows = Present(old.rows)
        /\ \A i \in Present(old.rows) : mover.rows[i] = Canonical(old.rows[i])
        /\ mover.mark > 0 /\ ~mover.private => mover.mark >= tables[mover.target].mark
    BY <2>0 DEF CopySound, RowsDone
  <2>4. mover.since = changes => \A v \in ViewIds : Target'.views[v] = Placeholder =>
          old.views[v] # Absent
    <3>1. SUFFICES ASSUME mover.since = changes, NEW v \in ViewIds, Target'.views[v] = Placeholder,
                            old.views[v] = Absent PROVE FALSE
      OBVIOUS
    <3>2. v \notin DOMAIN views \/ views[v] = Absent
      BY <2>1, <3>1
    <3>3. v \notin DOMAIN views
      BY <1>5, <1>6, <1>8, <2>0, <3>1, <3>2, ViewsAreSome DEF TargetFacts
    <3>4. v \notin DOMAIN mover.views
      BY <1>2, <1>8, <3>3
    <3>5. Target.views[v] = Placeholder
      BY <1>5, <1>6, <1>8, <2>0, <3>1, <3>3, <3>4 DEF TargetFacts
    <3>. QED
      BY <2>0, <3>1, <3>5 DEF CopySound, SeedsDone, RowsDone
  <2>. HIDE DEF CopiedViews
  <2>5. changes' = changes
    BY DEF InsertViews
  <2>. QED
    BY <1>5, <1>6, <1>8, <2>0, <2>1, <2>2, <2>3, <2>4, <2>5
       DEF CopySound, RowsDone, SeedsDone, ViewsDone, CounterDone, KeysDone
<1>. QED
  BY <1>6, <1>7, <1>8 DEF MoveInv

\* After the views are in, only the mark, the keys and the stage change.
LEMMA LaterCopy ==
  ASSUME MoveInv, Here,
         UNCHANGED <<old, tables, ids, owner, runs, changes, issued, kept, cleaning>>,
         mover' \in Movers, mover'.target = mover.target, mover'.private = mover.private,
         mover'.since = mover.since, mover'.rows = mover.rows, mover'.views = mover.views,
         mover.at \in ViewsDone, mover'.at \in ViewsDone,
         mover'.at = "commit" /\ mover.target # 0 => Here,
         mover'.at \in KeysDone =>
            \A k \in DOMAIN old.blobs \ mover'.keys : owner[k] = Absent => k \in retired,
         mover'.mark > 0 /\ ~mover.private => mover'.mark >= tables[mover.target].mark,
         Target'.mark >= old.mark,
         mover'.at = "commit" =>
            /\ \A i \in Present(old.rows) : Canonical(old.rows[i]) = old.rows[i]
            /\ \A k \in DOMAIN old.blobs :
                 Owns(k)' = <<mover.target, old.blobs[k]>> \/ Forgotten(k)'
  PROVE  CopySound'
<1>1. CopySound /\ UNCHANGED <<old, tables, owner, retired>> /\ changes' = changes
  BY DEF MoveInv, cleaning
<1>2. /\ TargetFacts /\ TargetFacts'
      /\ Present(old.rows)' = Present(old.rows) /\ Present(old.views)' = Present(old.views)
  BY InRun DEF ViewsDone, SeedsDone
<1>3. \A v \in ViewIds : Target'.views[v] = Target.views[v]
  BY <1>1, <1>2 DEF TargetFacts
<1>4. /\ DOMAIN mover.rows = Present(old.rows)
      /\ \A i \in Present(old.rows) : mover.rows[i] = Canonical(old.rows[i])
      /\ \A v \in Present(old.views) : v \in DOMAIN mover.views /\ mover.views[v] = old.views[v]
      /\ \A v \in DOMAIN mover.views : old.views[v] = Absent =>
            /\ mover.views[v] = Absent /\ ~mover.private
            /\ tables[mover.target].views[v] # Absent /\ tables[mover.target].views[v].seeded
      /\ mover.since = changes => \A v \in ViewIds : Target.views[v] = Placeholder =>
           old.views[v] # Absent
  BY <1>1 DEF CopySound, RowsDone, SeedsDone, ViewsDone
<1>. QED
  BY <1>1, <1>2, <1>3, <1>4 DEF CopySound

LEMMA InsertCountersKeeps == ASSUME MoveInv, InsertCounters PROVE MoveInv'
<1> DEFINE mark == IF Here /\ old.mark > 0 THEN Raised(Target.mark) ELSE mover.mark
<1>0. mover \in Movers /\ mover.mark \in 0..MaxRow /\ old.mark \in 0..MaxRow /\ MaxRow \in Nat
  BY MoveTypes, ArchiveFacts, MoveConstants DEF MoveInv, Movers
<1>1. Here => /\ Target.mark \in 0..MaxRow
              /\ Target.mark = IF mover.mark > 0 THEN mover.mark
                                ELSE IF mover.private THEN 0 ELSE tables[mover.target].mark
              /\ Raised(Target.mark) \in 0..MaxRow
              /\ Raised(Target.mark) >= Target.mark /\ Raised(Target.mark) >= old.mark
  <2> SUFFICES ASSUME Here PROVE
              /\ Target.mark \in 0..MaxRow
              /\ Target.mark = IF mover.mark > 0 THEN mover.mark
                                ELSE IF mover.private THEN 0 ELSE tables[mover.target].mark
              /\ Raised(Target.mark) \in 0..MaxRow
              /\ Raised(Target.mark) >= Target.mark /\ Raised(Target.mark) >= old.mark
    OBVIOUS
  <2>1. TargetFacts
    BY TargetIsTable DEF MoveInv
  <2>2. Target.mark \in 0..MaxRow
    BY <2>1 DEF TargetFacts, Table
  <2>3. Target.mark \in Nat /\ old.mark \in Nat
    BY <1>0, <2>2
  <2>4. Raised(Target.mark) \in {Target.mark, old.mark}
         /\ Raised(Target.mark) >= Target.mark /\ Raised(Target.mark) >= old.mark
    BY <2>3, MaxOfTwo DEF Raised
  <2>. QED
    BY <1>0, <2>1, <2>2, <2>4 DEF TargetFacts
<1>2. mark \in 0..MaxRow
  BY <1>0, <1>1
<1>3. mover' = [mover EXCEPT !.at = "blobs", !.mark = mark]
  BY DEF InsertCounters
<1>4. Here /\ old.mark > 0 => mark >= Target.mark /\ mark >= old.mark
  BY <1>1
<1>5. ~(Here /\ old.mark > 0) => mark = mover.mark
  OBVIOUS
<1>. HIDE DEF mark
<1>6. /\ mover' \in Movers
      /\ mover'.at = "blobs" /\ mover'.views = mover.views
      /\ mover'.target = mover.target /\ mover'.private = mover.private
           /\ mover'.since = mover.since
      /\ mover'.rows = mover.rows /\ mover'.keys = mover.keys /\ mover'.mark = mark
  BY <1>0, <1>2, <1>3 DEF Movers, Stages
<1>7. /\ MoveTypeOK' /\ ArchiveOK' /\ NumbersBehindMarks' /\ OwnersAsArchived'
      /\ Here' = Here /\ (Here => TargetFacts /\ TargetFacts')
  BY <1>6, InRun DEF InsertCounters, RowsDone
<1>8. MoverSound'
  <2>1. \A k \in mover.keys : k \in DOMAIN old.blobs /\ owner[k] = Absent
    BY DEF MoveInv, MoverSound
  <2>. QED
    BY <1>6, <2>1, InRun DEF InsertCounters, RowsDone, SeedsDone
<1>9. ASSUME Here PROVE CopySound'
  <2>1. /\ mover.at = "counters" /\ UNCHANGED <<old, tables>>
        /\ mover.mark > 0 /\ ~mover.private => mover.mark >= tables[mover.target].mark
    BY <1>9 DEF InsertCounters, MoveInv, CopySound
  <2>2. Target'.mark = IF mark > 0 THEN mark
                       ELSE IF mover.private THEN 0 ELSE tables[mover.target].mark
    BY <1>6, <1>7, <1>9, <2>1 DEF TargetFacts
  <2>3. Target'.mark >= old.mark
    <3>1. CASE old.mark > 0
      BY <1>0, <1>2, <1>4, <1>9, <2>2, <3>1
    <3>2. CASE old.mark = 0
      BY <1>0, <1>1, <1>5, <1>9, <2>2, <3>2
    <3>. QED
      BY <1>0, <3>1, <3>2
  <2>4. mark > 0 /\ ~mover.private => mark >= tables[mover.target].mark
    <3>0. ~mover.private => tables[mover.target].mark \in Nat
      BY <1>9, MoveTypes DEF MoveInv, Here, Table
    <3>1. CASE old.mark > 0
      BY <1>0, <1>1, <1>2, <1>4, <1>9, <2>1, <3>0, <3>1
    <3>2. CASE old.mark = 0
      BY <1>5, <2>1, <3>2
    <3>. QED
      BY <1>0, <3>1, <3>2
  <2>. QED
    BY <1>6, <1>9, <2>1, <2>3, <2>4, LaterCopy
       DEF InsertCounters, KeysDone, CounterDone, ViewsDone, SeedsDone, RowsDone
<1>. QED
  BY <1>7, <1>8, <1>9 DEF MoveInv

LEMMA InsertBlobsKeeps == ASSUME MoveInv, InsertBlobs PROVE MoveInv'
<1> DEFINE keys == IF Here THEN {k \in DOMAIN old.blobs : owner[k] = Absent} ELSE {}
<1>0. mover \in Movers /\ DOMAIN old.blobs \subseteq Keys
  BY MoveTypes, ArchiveFacts DEF MoveInv
<1>1. keys \in SUBSET Keys /\ \A k \in keys : k \in DOMAIN old.blobs /\ owner[k] = Absent
  BY <1>0
<1>2. Here => keys = {k \in DOMAIN old.blobs : owner[k] = Absent}
  OBVIOUS
<1>3. mover' = [mover EXCEPT !.at = "indexes", !.keys = keys]
  BY DEF InsertBlobs
<1>. HIDE DEF keys
<1>6. /\ mover' \in Movers
      /\ mover'.at = "indexes" /\ mover'.views = mover.views
      /\ mover'.target = mover.target /\ mover'.private = mover.private
           /\ mover'.since = mover.since
      /\ mover'.rows = mover.rows /\ mover'.keys = keys /\ mover'.mark = mover.mark
  BY <1>0, <1>1, <1>3 DEF Movers, Stages
<1>7. /\ MoveTypeOK' /\ ArchiveOK' /\ NumbersBehindMarks' /\ OwnersAsArchived'
      /\ Here' = Here /\ (Here => TargetFacts /\ TargetFacts')
  BY <1>6, InRun DEF InsertBlobs, RowsDone
<1>8. MoverSound'
  BY <1>1, <1>6, InRun DEF InsertBlobs, RowsDone, SeedsDone
<1>9. ASSUME Here PROVE CopySound'
  <2>1. /\ UNCHANGED <<old, tables>>
        /\ mover.mark > 0 /\ ~mover.private => mover.mark >= tables[mover.target].mark
        /\ Target.mark >= old.mark
    BY <1>9 DEF InsertBlobs, MoveInv, CopySound, CounterDone, ViewsDone, SeedsDone, RowsDone
  <2>2. Target'.mark = Target.mark
    BY <1>6, <1>7, <1>9, <2>1 DEF TargetFacts
  <2>. QED
    BY <1>2, <1>6, <1>9, <2>1, <2>2, LaterCopy DEF InsertBlobs, ViewsDone, SeedsDone, RowsDone
<1>. QED
  BY <1>7, <1>8, <1>9 DEF MoveInv

LEMMA RebuildIndexesKeeps == ASSUME MoveInv, RebuildIndexes PROVE MoveInv'
<1>0. mover \in Movers /\ Here \in BOOLEAN
  BY MoveTypes DEF MoveInv, Here, Movers
<1>1. PICK frozen \in {FALSE, Here} : mover' = [mover EXCEPT !.at = "verify", !.frozen = frozen]
  BY DEF RebuildIndexes
<1>6. /\ mover' \in Movers
      /\ mover'.at = "verify" /\ mover'.views = mover.views
      /\ mover'.target = mover.target /\ mover'.private = mover.private
           /\ mover'.since = mover.since
      /\ mover'.rows = mover.rows /\ mover'.keys = mover.keys /\ mover'.mark = mover.mark
  BY <1>0, <1>1 DEF Movers, Stages
<1>7. /\ MoveTypeOK' /\ ArchiveOK' /\ NumbersBehindMarks' /\ OwnersAsArchived'
      /\ Here' = Here /\ (Here => TargetFacts /\ TargetFacts')
  BY <1>6, InRun DEF RebuildIndexes, RowsDone
<1>8. MoverSound'
  <2>1. \A k \in mover.keys : k \in DOMAIN old.blobs /\ owner[k] = Absent
    BY DEF MoveInv, MoverSound
  <2>. QED
    BY <1>6, <2>1, InRun DEF RebuildIndexes, RowsDone, SeedsDone
<1>9. ASSUME Here PROVE CopySound'
  <2>1. /\ UNCHANGED <<old, tables>>
        /\ mover.mark > 0 /\ ~mover.private => mover.mark >= tables[mover.target].mark
        /\ Target.mark >= old.mark
        /\ \A k \in DOMAIN old.blobs \ mover.keys : owner[k] = Absent => k \in retired
    BY <1>9 DEF RebuildIndexes, MoveInv, CopySound, KeysDone, CounterDone, ViewsDone, SeedsDone,
               RowsDone
  <2>2. Target'.mark = Target.mark
    BY <1>6, <1>7, <1>9, <2>1 DEF TargetFacts
  <2>. QED
    BY <1>6, <1>9, <2>1, <2>2, LaterCopy DEF RebuildIndexes, ViewsDone, SeedsDone, RowsDone
<1>. QED
  BY <1>7, <1>8, <1>9 DEF MoveInv

LEMMA VerifyKeeps == ASSUME MoveInv, Verify PROVE MoveInv'
<1>1. CASE ~Compared
  <2>1. mover' = AtRest
    BY <1>1 DEF Verify
  <2>2. MoveTypeOK' /\ ArchiveOK' /\ NumbersBehindMarks' /\ OwnersAsArchived'
    BY <2>1, ScriptLeaves, RestIsMover, MoveTypes DEF Verify, MoveInv
  <2>. QED
    BY <2>1, <2>2, RestSound DEF Verify, MoveInv
<1>2. CASE Compared
  <2>0. mover \in Movers
    BY MoveTypes DEF MoveInv
  <2>6. /\ mover' \in Movers
        /\ mover'.at = "commit" /\ mover'.views = mover.views
        /\ mover'.target = mover.target /\ mover'.private = mover.private
             /\ mover'.since = mover.since
        /\ mover'.rows = mover.rows /\ mover'.keys = mover.keys /\ mover'.mark = mover.mark
    BY <1>2, <2>0 DEF Verify, Movers, Stages
  <2>7. /\ MoveTypeOK' /\ ArchiveOK' /\ NumbersBehindMarks' /\ OwnersAsArchived'
        /\ Here' = Here /\ (Here => TargetFacts /\ TargetFacts')
    BY <1>2, <2>6, InRun DEF Verify, Compared, RowsDone
  <2>8. MoverSound'
    <3>1. \A k \in mover.keys : k \in DOMAIN old.blobs /\ owner[k] = Absent
      BY DEF MoveInv, MoverSound
    <3>. QED
      BY <1>2, <2>6, <3>1, InRun DEF Verify, Compared, RowsDone, SeedsDone
  <2>9. ASSUME Here PROVE CopySound'
    <3>1. /\ UNCHANGED <<old, tables, owner>>
          /\ DOMAIN mover.rows = Present(old.rows)
          /\ \A i \in Present(old.rows) : mover.rows[i] = Canonical(old.rows[i])
          /\ mover.mark > 0 /\ ~mover.private => mover.mark >= tables[mover.target].mark
          /\ Target.mark >= old.mark
          /\ \A k \in DOMAIN old.blobs \ mover.keys : owner[k] = Absent => k \in retired
      BY <2>9 DEF Verify, MoveInv, CopySound, KeysDone, CounterDone, ViewsDone, SeedsDone,
                 RowsDone
    <3>2. Target'.mark = Target.mark
      BY <2>6, <2>7, <2>9, <3>1 DEF TargetFacts
    <3>3. mover.target # 0
      BY <2>9 DEF Here, MoverSound, MoveInv
    <3>4. \A i \in Present(old.rows) : Canonical(old.rows[i]) = old.rows[i]
      <4>1. \A i \in Present(old.rows) : i \in RowIds /\ Target.rows[i] = old.rows[i]
        BY <1>2, <3>3, ArchiveFacts DEF Compared, MoveInv
      <4>. QED
        BY <2>7, <2>9, <3>1, <4>1 DEF TargetFacts
    <3>5. \A k \in DOMAIN old.blobs : Owns(k)' = <<mover.target, old.blobs[k]>>
      <4>1. \A k \in DOMAIN old.blobs : Owns(k) = <<mover.target, old.blobs[k]>>
        BY <1>2, <3>3 DEF Compared
      <4>. QED
        BY <2>6, <3>1, <4>1 DEF Owns
    <3>. QED
      BY <2>6, <2>9, <3>1, <3>2, <3>4, <3>5, LaterCopy DEF Verify, ViewsDone, SeedsDone, RowsDone
  <2>. QED
    BY <2>7, <2>8, <2>9 DEF MoveInv
<1>. QED
  BY <1>1, <1>2

\* What the script commits, from what it holds.
LEMMA CommitFacts ==
  ASSUME MoveInv, Commit, Here
  PROVE  /\ TargetFacts /\ CopySound /\ mover.target \in Tables /\ mover.target <= ids
         /\ tables' = [tables EXCEPT ![mover.target] = [Target EXCEPT !.moved = TRUE]]
         /\ tables'[mover.target] \in Table
         /\ tables'[mover.target] = [Target EXCEPT !.moved = TRUE]
         /\ tables'[mover.target].moved
         /\ tables'[mover.target].rows = Target.rows /\ tables'[mover.target].views = Target.views
         /\ tables'[mover.target].mark = Target.mark /\ tables'[mover.target].named = Target.named
         /\ \A t \in Tables : t # mover.target => tables'[t] = tables[t]
         /\ \A k \in Keys : owner'[k] = Owns(k)
         /\ \A k \in DOMAIN old.blobs : Owns(k) = <<mover.target, old.blobs[k]>> \/ Forgotten(k)
         /\ UNCHANGED <<queue, doomed, retired>>
         /\ DOMAIN mover.rows = Present(old.rows)
         /\ \A i \in Present(old.rows) : mover.rows[i] = old.rows[i]
         /\ \A v \in Present(old.views) : v \in DOMAIN mover.views /\ mover.views[v] = old.views[v]
         /\ \A v \in DOMAIN mover.views : old.views[v] = Absent =>
            /\ mover.views[v] = Absent /\ ~mover.private
            /\ tables[mover.target].views[v] # Absent /\ tables[mover.target].views[v].seeded
         /\ Target.mark >= old.mark
         /\ mover.mark > 0 /\ ~mover.private => mover.mark >= tables[mover.target].mark
         /\ mover.since = changes => \A v \in ViewIds : Target.views[v] = Placeholder =>
              old.views[v] # Absent
<1>1. TargetFacts /\ CopySound
  BY TargetIsTable DEF MoveInv
<1>2. mover.target \in Tables /\ mover.target <= ids /\ DOMAIN tables = Tables
  BY MoveTypes DEF MoveInv, MoverSound, Here, MoveTypeOK
<1>3. /\ tables' = [tables EXCEPT ![mover.target] = [Target EXCEPT !.moved = TRUE]]
      /\ owner' = [k \in Keys |-> Owns(k)]
  BY DEF Commit
<1>4. tables'[mover.target] = [Target EXCEPT !.moved = TRUE] /\ Target \in Table
  BY <1>1, <1>2, <1>3 DEF TargetFacts
<1>5. /\ tables'[mover.target] \in Table
      /\ tables'[mover.target].moved
      /\ tables'[mover.target].rows = Target.rows /\ tables'[mover.target].views = Target.views
      /\ tables'[mover.target].mark = Target.mark /\ tables'[mover.target].named = Target.named
  BY <1>4 DEF Table
<1>6. \A t \in Tables : t # mover.target => tables'[t] = tables[t]
  BY <1>2, <1>3
<1>7. /\ \A k \in Keys : owner'[k] = Owns(k)
      /\ \A k \in DOMAIN old.blobs : Owns(k) = <<mover.target, old.blobs[k]>> \/ Forgotten(k)
      /\ UNCHANGED <<queue, doomed, retired>>
  BY <1>1, <1>3 DEF CopySound, Commit, cleaning
<1>8. /\ DOMAIN mover.rows = Present(old.rows)
      /\ \A i \in Present(old.rows) : mover.rows[i] = old.rows[i]
      /\ \A v \in Present(old.views) : v \in DOMAIN mover.views /\ mover.views[v] = old.views[v]
      /\ \A v \in DOMAIN mover.views : old.views[v] = Absent =>
            /\ mover.views[v] = Absent /\ ~mover.private
            /\ tables[mover.target].views[v] # Absent /\ tables[mover.target].views[v].seeded
      /\ Target.mark >= old.mark
      /\ mover.mark > 0 /\ ~mover.private => mover.mark >= tables[mover.target].mark
      /\ mover.since = changes => \A v \in ViewIds : Target.views[v] = Placeholder =>
           old.views[v] # Absent
  BY <1>1 DEF CopySound, Commit, CounterDone, ViewsDone, SeedsDone, RowsDone
<1>. QED
  BY <1>1, <1>2, <1>3, <1>4, <1>5, <1>6, <1>7, <1>8

LEMMA CommitKeeps == ASSUME MoveInv, Commit PROVE MoveInv'
<1>1. CASE ~Here
  <2>1. MoveTypeOK' /\ ArchiveOK' /\ NumbersBehindMarks' /\ OwnersAsArchived'
    BY <1>1, ScriptLeaves, RestIsMover, MoveTypes DEF Commit, MoveInv
  <2>. QED
    BY <2>1, RestSound DEF Commit, MoveInv
<1>2. CASE Here
  <2> DEFINE target == mover.target
  <2>0. /\ mover' = AtRest /\ UNCHANGED <<old, ids, runs, changes, kept, queue, doomed, retired>>
        /\ issued' = [issued EXCEPT ![target] = @ \cup 1..old.mark]
    BY <1>2 DEF Commit, cleaning
  <2>1. tables' \in [Tables -> Table \cup {Absent}] /\ DOMAIN tables = Tables /\ target \in Tables
    BY <1>2, CommitFacts DEF MoveInv, MoveTypeOK
  <2>2. Absent \notin Table /\ Absent \notin Data /\ Absent \notin Tables \X RowIds
    BY MoveConstants
  <2>3. \A t : t \in Present(tables)' <=> t \in Present(tables) \cup {target}
    BY <1>2, <2>1, <2>2, CommitFacts DEF Present
  <2>4. \A t \in Named' : t \in Named \/ (t = target /\ Named = {})
    <3> SUFFICES ASSUME NEW t \in Named' PROVE t \in Named \/ (t = target /\ Named = {})
      OBVIOUS
    <3>1. t \in Present(tables)' /\ tables'[t].named
      BY DEF Named
    <3>2. CASE t # target
      BY <1>2, <2>1, <2>3, <3>1, <3>2, CommitFacts DEF Named, Present
    <3>3. CASE t = target /\ mover.private
      BY <3>3 DEF MoveInv, MoverSound
    <3>4. CASE t = target /\ ~mover.private
      <4>1. t \in Present(tables)
        BY <1>2, <2>1, <3>4 DEF Here, Present
      <4>2. tables[t].named
        BY <1>2, <3>1, <3>4, CommitFacts DEF TargetFacts
      <4>. QED
        BY <4>1, <4>2 DEF Named
    <3>. QED
      BY <3>2, <3>3, <3>4
  <2>5. \A t, u \in Named' : t = u
    BY <2>4 DEF MoveInv, MoveTypeOK
  <2>6. \A i \in RowIds : i \in Present(old.rows) => Target.rows[i] # Absent
    BY <1>2, <2>2, CommitFacts, ArchiveFacts DEF TargetFacts, MoveInv, Present
  <2>7. \A i \in RowIds : ~mover.private /\ tables[target].rows[i] # Absent =>
          Target.rows[i] # Absent
    BY <1>2, <2>6, CommitFacts DEF TargetFacts
  <2>8. owner' \in [Keys -> (Tables \X RowIds) \cup {Absent}] /\ DOMAIN owner = Keys
    <3>1. \A k \in Keys : Owns(k) \in (Tables \X RowIds) \cup {Absent}
      BY <2>1, ArchiveFacts DEF Owns, MoveInv, MoveTypeOK, MoverSound
    <3>. QED
      BY <1>2, <3>1 DEF Commit, MoveInv, MoveTypeOK
  <2>9. \A k \in Present(owner)' :
          \/ k \in Keys /\ k \in DOMAIN old.blobs /\ owner'[k] = <<target, old.blobs[k]>>
          \/ k \in Present(owner) /\ owner'[k] = owner[k]
    BY <1>2, <2>8, CommitFacts DEF Owns, Present, MoveInv, MoverSound
  <2>10. ASSUME NEW k \in Present(owner)'
         PROVE  /\ owner'[k][1] \in Present(tables)'
                /\ tables'[owner'[k][1]].rows[owner'[k][2]] # Absent
                /\ k \in DOMAIN old.blobs /\ owner'[k][2] = old.blobs[k]
                /\ \/ k \in retired
                   \/ /\ k \in old.cells
                      /\ tables'[owner'[k][1]].rows[owner'[k][2]] = old.rows[owner'[k][2]]
    <3>0. \A i \in Present(old.rows) : tables'[target].rows[i] = old.rows[i]
      BY <1>2, CommitFacts, ArchiveFacts DEF TargetFacts, MoveInv
    <3>1. CASE k \in DOMAIN old.blobs /\ owner'[k] = <<target, old.blobs[k]>>
      <4>1. /\ old.blobs[k] \in Present(old.rows) /\ old.blobs[k] \in RowIds
            /\ k \in old.cells \cup retired
        BY <3>1, ArchiveFacts DEF MoveInv, ArchiveOK
      <4>. QED
        BY <1>2, <2>3, <2>6, <3>0, <3>1, <4>1, CommitFacts
    <3>2. CASE k \in Present(owner) /\ owner'[k] = owner[k]
      <4>1. /\ owner[k] \in Tables \X RowIds
            /\ owner[k][1] \in Present(tables)
            /\ tables[owner[k][1]].rows[owner[k][2]] # Absent
            /\ k \in DOMAIN old.blobs /\ owner[k][2] = old.blobs[k]
            /\ k \in retired \/ Refers(owner[k][1], owner[k][2], k)
            /\ old.blobs[k] \in Present(old.rows) /\ k \in old.cells \cup retired
        BY <3>2, <2>8 DEF MoveInv, MoveTypeOK, OwnersAsArchived, ArchiveOK, Present
      <4>2. CASE owner[k][1] # target
        <5>1. tables'[owner[k][1]] = tables[owner[k][1]]
          BY <1>2, <4>1, <4>2, CommitFacts
        <5>. QED
          BY <1>2, <2>3, <3>2, <4>1, <5>1 DEF Refers
      <4>3. CASE owner[k][1] = target
        <5>1. ~mover.private
          BY <4>1, <4>3 DEF MoveInv, MoverSound, Present
        <5>. QED
          BY <1>2, <2>3, <2>7, <3>0, <3>2, <4>1, <4>3, <5>1, CommitFacts
      <4>. QED
        BY <4>2, <4>3
    <3>. QED
      BY <2>9, <3>1, <3>2
  <2>11. issued' \in [Tables -> SUBSET RowIds]
    <3>1. 1..old.mark \subseteq RowIds
      BY ArchiveFacts, MoveConstants DEF MoveInv, RowIds
    <3>. QED
      BY <2>0, <2>1, <3>1 DEF MoveInv, MoveTypeOK
  <2>12. MoveTypeOK'
    <3>1. ids' \in 0..MaxTables /\ \A t \in Present(tables)' : t <= ids'
      BY <1>2, <2>0, <2>3, MoveTypes, CommitFacts DEF MoveInv
    <3>2. mover' \in Movers /\ runs' \in 0..MaxRuns /\ changes' \in 0..MaxChanges
            /\ kept' \subseteq Tables \X RowIds
            /\ doomed' \subseteq queue' /\ queue' \subseteq retired'
                 /\ retired' \subseteq DOMAIN old'.blobs
      BY <2>0, RestIsMover DEF MoveInv, MoveTypeOK
    <3>. QED
      BY <2>1, <2>5, <2>8, <2>10, <2>11, <3>1, <3>2 DEF MoveTypeOK
  <2>13. ArchiveOK'
    BY <2>0 DEF MoveInv, ArchiveOK, Present
  <2>14. OwnersAsArchived'
    BY <2>0, <2>10 DEF OwnersAsArchived, Refers
  <2>15. NumbersBehindMarks'
    <3>0. Target.mark \in Nat /\ old.mark \in Nat /\ MaxRow \in Nat
      BY <1>2, CommitFacts, ArchiveFacts, MoveConstants DEF TargetFacts, Table, MoveInv
    <3>1. ASSUME NEW t \in Tables, t > ids' PROVE tables'[t] = Absent /\ issued'[t] = {}
      <4>1. t # target
        BY <1>2, <2>0, <3>1, MoveTypes, CommitFacts DEF MoveInv, Tables
      <4>. QED
        BY <1>2, <2>0, <3>1, <4>1, CommitFacts DEF MoveInv, MoveTypeOK, NumbersBehindMarks
    <3>2. issued[target] \subseteq 1..Target.mark
      <4>1. CASE mover.private
        BY <4>1 DEF MoveInv, MoverSound
      <4>2. CASE ~mover.private
        <5>1. issued[target] \subseteq 1..tables[target].mark /\ tables[target].mark \in Nat
          BY <1>2, <4>2, MoveTypes DEF MoveInv, NumbersBehindMarks, Here, Table
        <5>2. Target.mark >= tables[target].mark
          BY <1>2, <4>2, <5>1, CommitFacts DEF TargetFacts
        <5>. QED
          BY <3>0, <5>1, <5>2
      <4>. QED
        BY <4>1, <4>2
    <3>3. ASSUME NEW t \in Present(tables)'
          PROVE  issued'[t] \subseteq 1..tables'[t].mark
                   /\ (tables'[t].moved => tables'[t].mark >= old.mark)
      <4>1. CASE t = target
        <5>1. issued'[t] = issued[target] \cup 1..old.mark
          BY <2>0, <2>1, <4>1 DEF MoveInv, MoveTypeOK
        <5>2. tables'[t].mark = Target.mark /\ Target.mark >= old.mark
          BY <1>2, <4>1, CommitFacts
        <5>. QED
          BY <3>0, <3>2, <5>1, <5>2
      <4>2. CASE t # target
        BY <1>2, <2>0, <2>1, <2>3, <4>2, CommitFacts DEF MoveInv, MoveTypeOK, NumbersBehindMarks,
             Present
      <4>. QED
        BY <4>1, <4>2
    <3>4. ASSUME NEW x \in kept
          PROVE  /\ tables'[x[1]] # Absent /\ tables'[x[1]].moved
                 /\ tables'[x[1]].rows[x[2]] # Absent /\ x[2] > old.mark
      <4>1. /\ x \in Tables \X RowIds
            /\ tables[x[1]] # Absent /\ tables[x[1]].moved
            /\ tables[x[1]].rows[x[2]] # Absent /\ x[2] > old.mark
        BY DEF MoveInv, MoveTypeOK, NumbersBehindMarks
      <4>2. CASE x[1] # target
        BY <1>2, <4>1, <4>2, CommitFacts
      <4>3. CASE x[1] = target
        <5>1. ~mover.private
          BY <4>1, <4>3 DEF MoveInv, MoverSound
        <5>. QED
          BY <1>2, <2>2, <2>7, <4>1, <4>3, <5>1, CommitFacts
      <4>. QED
        BY <4>2, <4>3
    <3>. QED
      BY <2>0, <3>1, <3>3, <3>4 DEF NumbersBehindMarks
  <2>. QED
    BY <2>0, <2>12, <2>13, <2>14, <2>15, RestSound DEF MoveInv
<1>. QED
  BY <1>1, <1>2

\* A change made by users, which respects the locks of the script.
LEMMA UserChange ==
  ASSUME MoveInv, NEW gone \in SUBSET (Tables \X RowIds), NEW edited \in SUBSET (Tables \X RowIds),
         NEW new \in [Tables -> Table \cup {Absent}],
         Changes(new, gone, edited),
         ids' \in ids..MaxTables, \A t \in Tables : new[t] # Absent => t <= ids',
         \A t, u \in Tables : new[t] # Absent /\ new[t].named /\ new[u] # Absent /\ new[u].named =>
           t = u,
         \A t \in Tables, i \in RowIds :
            tables[t] # Absent /\ tables[t].rows[i] # Absent =>
                \/ <<t, i>> \in gone
                \/ /\ new[t] # Absent /\ new[t].rows[i] # Absent
                   /\ <<t, i>> \in edited \/ new[t].rows[i] = tables[t].rows[i],
         NumbersBehindMarks', issued' \in [Tables -> SUBSET RowIds],
           kept' \subseteq Tables \X RowIds,
         mover.target \in Tables /\ ~mover.private /\ new[mover.target] # Absent =>
            /\ tables[mover.target] # Absent
            /\ mover.mark > 0 => new[mover.target].mark = tables[mover.target].mark
            /\ new[mover.target].mark >= tables[mover.target].mark
            /\ \A v \in DOMAIN mover.views :
                 new[mover.target].views[v] = tables[mover.target].views[v],
         mover.target \in Tables /\ ~mover.private /\ mover.at = "commit" =>
            new[mover.target] # Absent,
         mover.private =>
            /\ new[mover.target] = Absent /\ issued'[mover.target] = {}
            /\ \A t \in Tables : new[t] # Absent => ~new[t].named
  PROVE  MoveInv'
<1>1. /\ tables' = new /\ changes' = changes + 1 /\ changes < MaxChanges /\ UNCHANGED <<old, mover,
           runs, doomed>>
      /\ owner' = [k \in Keys |-> IF owner[k] \in gone THEN Absent ELSE owner[k]]
      /\ queue \subseteq queue' /\ retired \subseteq retired'
  BY DEF Changes
<1>2. /\ DOMAIN owner = Keys /\ owner \in [Keys -> (Tables \X RowIds) \cup {Absent}]
      /\ Absent \notin Tables \X RowIds
  BY MoveConstants DEF MoveInv, MoveTypeOK
<1>3. \A t : t \in Present(tables)' <=> t \in Tables /\ new[t] # Absent
  BY <1>1 DEF Present
<1>4. \A t : t \in Named' <=> t \in Tables /\ new[t] # Absent /\ new[t].named
  BY <1>1, <1>3 DEF Named
<1>5. \A k : k \in Present(owner)' <=> k \in Present(owner) /\ owner[k] \notin gone
  BY <1>1, <1>2 DEF Present
<1>6. \A k \in Present(owner)' : k \in Keys /\ owner'[k] = owner[k] /\ owner[k] \in Tables \X RowIds
  BY <1>1, <1>2, <1>5 DEF Present
<1>7. owner' \in [Keys -> (Tables \X RowIds) \cup {Absent}]
  BY <1>1, <1>2
<1>a. /\ queue' \subseteq retired' /\ retired' \subseteq DOMAIN old.blobs
      /\ \A k \in Present(owner) : owner[k] \in gone \cup edited => k \in retired'
  <2> DEFINE lost == {k \in Present(owner) : /\ owner[k] \in gone \cup edited
                                            /\ Refers(owner[k][1], owner[k][2], k)}
  <2>1. queue' = queue \cup lost /\ retired' = retired \cup lost
    BY DEF Changes
  <2>2. lost \subseteq DOMAIN old.blobs
    BY DEF MoveInv, OwnersAsArchived
  <2>3. \A k \in Present(owner) : owner[k] \in gone \cup edited => k \in retired \cup lost
    BY DEF MoveInv, OwnersAsArchived
  <2>. HIDE DEF lost
  <2>. QED
    BY <2>1, <2>2, <2>3 DEF MoveInv, MoveTypeOK
<1>b. \A k \in Keys : owner'[k] = owner[k] \/ (owner'[k] = Absent /\ k \in retired')
  BY <1>1, <1>2, <1>a DEF Present
<1>8. ASSUME NEW k \in Present(owner)'
      PROVE  owner'[k][1] \in Present(tables)' /\ tables'[owner'[k][1]].rows[owner'[k][2]] # Absent
  <2>1. /\ owner[k][1] \in Tables /\ owner[k][2] \in RowIds /\ owner[k] = <<owner[k][1],
             owner[k][2]>>
        /\ tables[owner[k][1]] # Absent
        /\ tables[owner[k][1]].rows[owner[k][2]] # Absent
    BY <1>5, <1>6 DEF MoveInv, MoveTypeOK, Present
  <2>2. <<owner[k][1], owner[k][2]>> \notin gone
    BY <1>5, <2>1
  <2>. QED
    BY <1>1, <1>3, <1>6, <2>1, <2>2
<1>9. MoveTypeOK'
  <2>1. ids' \in 0..MaxTables /\ \A t \in Present(tables)' : t <= ids'
    BY <1>3, MoveTypes, MoveConstants DEF MoveInv
  <2>2. mover' \in Movers /\ runs' \in 0..MaxRuns /\ changes' \in 0..MaxChanges
    BY <1>1, MoveTypes, MoveConstants DEF MoveInv
  <2>3. \A t, u \in Named' : t = u
    BY <1>4
  <2>4. doomed' \subseteq queue' /\ queue' \subseteq retired'
          /\ retired' \subseteq DOMAIN old'.blobs
    BY <1>1, <1>a DEF MoveInv, MoveTypeOK
  <2>. QED
    BY <1>1, <1>7, <1>8, <2>1, <2>2, <2>3, <2>4 DEF MoveTypeOK
<1>10. ArchiveOK'
  BY <1>1 DEF MoveInv, ArchiveOK, Present
<1>11. OwnersAsArchived'
  <2> SUFFICES ASSUME NEW k \in Present(owner)'
               PROVE  /\ k \in DOMAIN old'.blobs /\ owner'[k][2] = old'.blobs[k]
                      /\ \/ k \in retired'
                         \/ /\ k \in old.cells
                            /\ new[owner[k][1]].rows[owner[k][2]] = old.rows[owner[k][2]]
    BY <1>1, <1>6 DEF OwnersAsArchived, Refers
  <2>1. /\ owner[k] = <<owner[k][1], owner[k][2]>> /\ owner[k][1] \in Tables
             /\ owner[k][2] \in RowIds
        /\ owner'[k] = owner[k] /\ owner[k] \notin gone
        /\ tables[owner[k][1]] # Absent /\ tables[owner[k][1]].rows[owner[k][2]] # Absent
        /\ k \in DOMAIN old.blobs /\ owner[k][2] = old.blobs[k]
        /\ k \in retired \/ Refers(owner[k][1], owner[k][2], k)
    BY <1>5, <1>6 DEF MoveInv, MoveTypeOK, OwnersAsArchived, Present
  <2>2. CASE owner[k] \in edited
    BY <1>1, <1>5, <1>a, <2>1, <2>2
  <2>3. CASE owner[k] \notin edited
    <3>0. <<owner[k][1], owner[k][2]>> \notin gone \cup edited
      BY <2>1, <2>3
    <3>1. new[owner[k][1]].rows[owner[k][2]] = tables[owner[k][1]].rows[owner[k][2]]
      BY <2>1, <3>0
    <3>. QED
      BY <1>1, <2>1, <3>1 DEF Refers
  <2>. QED
    BY <2>2, <2>3
<1>12. MoverSound'
  <2>1. \A k \in mover.keys : k \in DOMAIN old.blobs /\ owner'[k] = Absent
    BY <1>1, ArchiveFacts DEF MoveInv, MoverSound
  <2>2. mover.target <= ids' /\ mover.since <= changes'
    BY <1>1, MoveTypes DEF MoveInv, MoverSound, Movers
  <2>3. mover.private => mover.target # 0 /\ tables'[mover.target] = Absent /\ Named' = {}
          /\ issued'[mover.target] = {}
    BY <1>1, <1>4 DEF MoveInv, MoverSound
  <2>4. /\ mover.at \notin RowsDone => DOMAIN mover.rows = {} /\ mover.mark = 0
        /\ mover.at \notin SeedsDone => DOMAIN mover.views = {}
    BY DEF MoveInv, MoverSound
  <2>5. mover.since # changes'
    BY <1>1, MoveTypes DEF MoveInv, MoverSound, Movers
  <2>6. mover.at = "commit" /\ mover.target # 0 => Here'
    BY <1>1, MoveTypes DEF MoveInv, Here
  <2>. QED
    BY <1>1, <2>1, <2>2, <2>3, <2>4, <2>5, <2>6 DEF MoverSound, RowsDone, SeedsDone
<1>13. ASSUME Here' PROVE CopySound'
  <2>0. Here /\ CopySound /\ mover.target \in Tables
    BY <1>1, <1>13, MoveTypes DEF Here, MoveInv, MoverSound
  <2>1. /\ TargetFacts /\ TargetFacts'
        /\ Present(old.rows)' = Present(old.rows) /\ Present(old.views)' = Present(old.views)
    BY <1>1, <1>9, <1>13, <2>0, TargetIsTable, TargetNext DEF MoveInv, Present
  <2>2. ~mover.private =>
            /\ tables[mover.target] # Absent /\ tables'[mover.target] # Absent
            /\ tables'[mover.target] \in Table /\ tables[mover.target] \in Table
            /\ mover.mark > 0 => tables'[mover.target].mark = tables[mover.target].mark
            /\ tables'[mover.target].mark >= tables[mover.target].mark
            /\ \A v \in DOMAIN mover.views :
                 tables'[mover.target].views[v] = tables[mover.target].views[v]
    BY <1>1, <1>13, <2>0 DEF Here, MoveInv, MoveTypeOK
  <2>3. mover.since # changes'
    BY <1>1, MoveTypes DEF MoveInv, MoverSound, Movers
  <2>4. mover.at \in CounterDone => Target'.mark >= old.mark
    <3>1. SUFFICES ASSUME mover.at \in CounterDone PROVE Target'.mark >= old.mark
      OBVIOUS
    <3>2. Target.mark >= old.mark
      BY <2>0, <3>1 DEF CopySound
    <3>3. Target'.mark = IF mover.mark > 0 THEN mover.mark
                ELSE IF mover.private THEN 0 ELSE tables'[mover.target].mark
      BY <1>1, <2>1 DEF TargetFacts
    <3>4. Target.mark = IF mover.mark > 0 THEN mover.mark
                ELSE IF mover.private THEN 0 ELSE tables[mover.target].mark
      BY <2>1 DEF TargetFacts
    <3>5. Target'.mark \in Nat /\ Target.mark \in Nat /\ old.mark \in Nat
      BY <1>1, <2>1, ArchiveFacts, MoveConstants DEF MoveInv, TargetFacts, Table
    <3>. QED
      BY <2>2, <3>2, <3>3, <3>4, <3>5
  <2>5. mover.at = "commit" =>
          \A k \in DOMAIN old.blobs : Owns(k)' = <<mover.target, old.blobs[k]>> \/ Forgotten(k)'
    <3>1. SUFFICES ASSUME mover.at = "commit", NEW k \in DOMAIN old.blobs
                   PROVE  Owns(k)' = <<mover.target, old.blobs[k]>> \/ Forgotten(k)'
      OBVIOUS
    <3>2. /\ Owns(k) = <<mover.target, old.blobs[k]>> \/ Forgotten(k)
          /\ k \in Keys
      BY <2>0, <3>1, ArchiveFacts DEF CopySound, MoveInv
    <3>. QED
      BY <1>1, <1>2, <1>b, <3>2 DEF Owns, Forgotten
  <2>8. mover.at \in KeysDone =>
          \A k \in DOMAIN old.blobs \ mover.keys : owner'[k] = Absent => k \in retired'
    BY <1>1, <1>b, <2>0, ArchiveFacts DEF CopySound, MoveInv
  <2>6. mover.mark > 0 /\ ~mover.private => mover.mark >= tables'[mover.target].mark
    BY <2>0, <2>2 DEF CopySound
  <2>7. \A v \in DOMAIN mover.views : old.views[v] = Absent =>
            /\ mover.views[v] = Absent /\ ~mover.private
            /\ tables'[mover.target].views[v] # Absent /\ tables'[mover.target].views[v].seeded
    BY <2>0, <2>2 DEF CopySound
  <2>. QED
    BY <1>1, <2>0, <2>1, <2>3, <2>4, <2>5, <2>6, <2>7, <2>8
       DEF CopySound, RowsDone, SeedsDone, ViewsDone, CounterDone, KeysDone
<1>. QED
  BY <1>9, <1>10, <1>11, <1>12, <1>13 DEF MoveInv

\* A change inside one table.
LEMMA TableChange ==
  ASSUME MoveInv, NEW t \in Present(tables), NEW x \in Table, NEW gone \in SUBSET ({t} \X RowIds),
         NEW edited \in SUBSET ({t} \X RowIds),
         Changes([tables EXCEPT ![t] = x], gone, edited), ids' = ids,
         x.moved = tables[t].moved, x.named => tables[t].named \/ (Named = {} /\ ~mover.private),
         \A i \in RowIds : tables[t].rows[i] # Absent =>
            \/ <<t, i>> \in gone
            \/ x.rows[i] # Absent /\ (<<t, i>> \in edited \/ x.rows[i] = tables[t].rows[i]),
         x.mark >= tables[t].mark, LocksCounter(t) => x.mark = tables[t].mark,
         \A v \in ViewIds : LocksView(t, v) => x.views[v] = tables[t].views[v],
         issued' \in [Tables -> SUBSET RowIds],
         \A u \in Tables : u # t => issued'[u] = issued[u],
         issued'[t] \subseteq 1..x.mark,
         kept' \subseteq Tables \X RowIds,
         \A y \in kept' : \/ y \in kept /\ y \notin gone
                          \/ y[1] = t /\ tables[t].moved /\ x.rows[y[2]] # Absent /\ y[2] > old.mark
  PROVE  MoveInv'
<1> DEFINE new == [tables EXCEPT ![t] = x]
<1>1. /\ t \in Tables /\ tables[t] \in Table /\ tables[t] # Absent /\ x # Absent /\ t <= ids
           /\ ids \in 0..MaxTables
      /\ tables \in [Tables -> Table \cup {Absent}] /\ MaxTables \in Nat
  BY MoveTypes, MoveConstants DEF MoveInv, MoveTypeOK
<1>2. /\ new \in [Tables -> Table \cup {Absent}] /\ new[t] = x
      /\ \A u \in Tables : u # t => new[u] = tables[u]
  BY <1>1
<1>3. tables' = new /\ UNCHANGED <<old, mover>>
  BY DEF Changes
<1>. HIDE DEF new
<1>4. gone \in SUBSET (Tables \X RowIds) /\ edited \in SUBSET (Tables \X RowIds)
  BY <1>1
<1>5. \A u \in Tables : new[u] # Absent => tables[u] # Absent /\ u <= ids
  BY <1>1, <1>2, MoveTypes DEF MoveInv
<1>6. \A u \in Tables : new[u] # Absent /\ new[u].named =>
          u \in Named \/ (u = t /\ Named = {} /\ ~mover.private)
  BY <1>1, <1>2, MoveTypes DEF MoveInv
<1>7. \A u, w \in Tables : new[u] # Absent /\ new[u].named /\ new[w] # Absent /\ new[w].named =>
        u = w
  BY <1>6 DEF MoveInv, MoveTypeOK
<1>8. \A u \in Tables, i \in RowIds :
            tables[u] # Absent /\ tables[u].rows[i] # Absent =>
                \/ <<u, i>> \in gone
                \/ /\ new[u] # Absent /\ new[u].rows[i] # Absent
                   /\ <<u, i>> \in edited \/ new[u].rows[i] = tables[u].rows[i]
  BY <1>1, <1>2
<1>9. NumbersBehindMarks'
  <2>1. \A u \in Tables : u > ids' => tables'[u] = Absent /\ issued'[u] = {}
    BY <1>1, <1>2, <1>3, <1>5 DEF MoveInv, NumbersBehindMarks, Tables
  <2>2. ASSUME NEW u \in Present(tables)'
        PROVE  issued'[u] \subseteq 1..tables'[u].mark
                 /\ (tables'[u].moved => tables'[u].mark >= old'.mark)
    <3>1. u \in Present(tables) /\ u \in Tables
      BY <1>1, <1>2, <1>3, <1>5 DEF Present
    <3>2. CASE u = t
      <4>1. tables[t].moved => tables[t].mark >= old.mark
        BY DEF MoveInv, NumbersBehindMarks
      <4>2. tables[t].mark \in Nat /\ x.mark \in Nat /\ old.mark \in Nat
        BY <1>1, ArchiveFacts, MoveConstants DEF Table, MoveInv
      <4>. QED
        BY <1>2, <1>3, <3>2, <4>1, <4>2
    <3>3. CASE u # t
      BY <1>2, <1>3, <3>1, <3>3 DEF MoveInv, NumbersBehindMarks
    <3>. QED
      BY <3>2, <3>3
  <2>3. ASSUME NEW y \in kept'
        PROVE  /\ tables'[y[1]] # Absent /\ tables'[y[1]].moved
               /\ tables'[y[1]].rows[y[2]] # Absent /\ y[2] > old'.mark
    <3>1. y \in Tables \X RowIds /\ y = <<y[1], y[2]>>
      OBVIOUS
    <3>2. CASE y \in kept /\ y \notin gone
      <4>1. tables[y[1]] # Absent /\ tables[y[1]].moved
            /\ tables[y[1]].rows[y[2]] # Absent /\ y[2] > old.mark
        BY <3>2 DEF MoveInv, NumbersBehindMarks
      <4>2. CASE y[1] = t
        BY <1>1, <1>2, <1>3, <3>1, <3>2, <4>1, <4>2
      <4>3. CASE y[1] # t
        BY <1>2, <1>3, <3>1, <4>1, <4>3
      <4>. QED
        BY <4>2, <4>3
    <3>3. CASE y[1] = t /\ tables[t].moved /\ x.rows[y[2]] # Absent /\ y[2] > old.mark
      BY <1>1, <1>2, <1>3, <3>3
    <3>. QED
      BY <3>2, <3>3
  <2>. QED
    BY <2>1, <2>2, <2>3 DEF NumbersBehindMarks
<1>10. ASSUME mover.target \in Tables, ~mover.private, new[mover.target] # Absent
       PROVE  /\ tables[mover.target] # Absent
              /\ mover.mark > 0 => new[mover.target].mark = tables[mover.target].mark
              /\ new[mover.target].mark >= tables[mover.target].mark
              /\ \A v \in DOMAIN mover.views :
                   new[mover.target].views[v] = tables[mover.target].views[v]
  <2>1. CASE mover.target = t
    BY <1>1, <1>2, <1>10, <2>1, MoverMaps DEF MoveInv, LocksCounter, LocksView, Mine
  <2>2. CASE mover.target # t
    <3>1. tables[mover.target] # Absent /\ new[mover.target] = tables[mover.target]
      BY <1>2, <1>10, <2>2
    <3>2. tables[mover.target].mark \in Nat
      BY <1>1, <1>10, <3>1, MoveConstants DEF Table
    <3>. QED
      BY <2>2, <3>1, <3>2
  <2>. QED
    BY <2>1, <2>2
<1>11. ASSUME mover.private
       PROVE  /\ new[mover.target] = Absent /\ issued'[mover.target] = {}
              /\ \A u \in Tables : new[u] # Absent => ~new[u].named
  <2>1. /\ mover.target \in Tables /\ tables[mover.target] = Absent /\ issued[mover.target] = {}
             /\ Named = {}
    BY <1>11, MoveTypes DEF MoveInv, MoverSound
  <2>. QED
    BY <1>1, <1>2, <1>6, <1>11, <2>1
<1>12. ids' \in ids..MaxTables
  BY <1>1
<1>13. Changes(new, gone, edited)
  BY DEF new
<1>14. mover.target \in Tables /\ ~mover.private /\ mover.at = "commit" =>
         new[mover.target] # Absent
  BY <1>1, <1>2, MoveTypes DEF MoveInv, MoverSound, Here
<1>. QED
  BY <1>2, <1>4, <1>5, <1>7, <1>8, <1>9, <1>10, <1>11, <1>12, <1>13, <1>14, UserChange

LEMMA RowLocked ==
  ASSUME MoveInv, NEW t \in Present(tables)
  PROVE  /\ t \in Tables /\ tables[t] \in Table /\ tables[t] # Absent
         /\ tables = [tables EXCEPT ![t] = tables[t]]
         /\ DOMAIN tables = Tables
         /\ tables[t].rows \in [RowIds -> Data \cup {Absent}]
              /\ tables[t].views \in [ViewIds -> Views \cup {Absent}]
         /\ tables[t].mark \in 0..MaxRow /\ tables[t].mark \in Nat
         /\ Absent \notin Data
         /\ issued \in [Tables -> SUBSET RowIds] /\ issued[t] \subseteq 1..tables[t].mark
         /\ kept \subseteq Tables \X RowIds
         /\ {} \in SUBSET ({t} \X RowIds)
BY MoveTypes, MoveConstants DEF MoveInv, MoveTypeOK, Table, NumbersBehindMarks

LEMMA RenameKeeps == ASSUME MoveInv, NEW t \in Present(tables), Rename(t) PROVE MoveInv'
<1> DEFINE x == [tables[t] EXCEPT !.named = ~@]
<1>1. x \in Table
  BY RowLocked DEF Table
<1>2. /\ x.moved = tables[t].moved /\ x.rows = tables[t].rows /\ x.views = tables[t].views
           /\ x.mark = tables[t].mark
      /\ x.named => (Named = {} /\ ~mover.private)
  BY RowLocked DEF Rename, Table
<1>3. Changes([tables EXCEPT ![t] = x], {}, {}) /\ UNCHANGED <<ids, issued, kept>>
  BY DEF Rename
<1>. HIDE DEF x
<1>. QED
  BY <1>1, <1>2, <1>3, RowLocked, TableChange

LEMMA EditRowKeeps == ASSUME MoveInv, NEW t \in Present(tables), NEW i \in RowIds,
  EditRow(t, i) PROVE MoveInv'
<1> DEFINE x == [tables[t] EXCEPT !.rows[i] = "new"]
<1>1. x \in Table
  BY RowLocked DEF Table, Data
<1>2. /\ x.moved = tables[t].moved /\ x.named = tables[t].named /\ x.views = tables[t].views
           /\ x.mark = tables[t].mark
      /\ x.rows = [tables[t].rows EXCEPT ![i] = "new"]
  BY RowLocked DEF Table
<1>3. /\ \A j \in RowIds : tables[t].rows[j] # Absent =>
            x.rows[j] # Absent /\ (<<t, j>> \in {<<t, i>>} \/ x.rows[j] = tables[t].rows[j])
      /\ {<<t, i>>} \in SUBSET ({t} \X RowIds)
  BY <1>2, RowLocked DEF Data
<1>4. Changes([tables EXCEPT ![t] = x], {}, {<<t, i>>}) /\ UNCHANGED <<ids, issued, kept>>
  BY DEF EditRow
<1>. HIDE DEF x
<1>. QED
  BY <1>1, <1>2, <1>3, <1>4, RowLocked, TableChange

LEMMA DeleteRowKeeps == ASSUME MoveInv, NEW t \in Present(tables), NEW i \in RowIds,
  DeleteRow(t, i) PROVE MoveInv'
<1> DEFINE x == [tables[t] EXCEPT !.rows[i] = Absent]
<1>1. x \in Table
  BY RowLocked DEF Table
<1>2. /\ x.moved = tables[t].moved /\ x.named = tables[t].named /\ x.views = tables[t].views
           /\ x.mark = tables[t].mark
      /\ x.rows = [tables[t].rows EXCEPT ![i] = Absent]
  BY RowLocked DEF Table
<1>3. \A j \in RowIds : tables[t].rows[j] # Absent =>
          <<t, j>> \in {<<t, i>>} \/ (x.rows[j] # Absent /\ x.rows[j] = tables[t].rows[j])
  BY <1>2, RowLocked
<1>4. Changes([tables EXCEPT ![t] = x], {<<t, i>>}, {}) /\ UNCHANGED <<ids, issued>>
        /\ kept' = kept \ {<<t, i>>}
  BY DEF DeleteRow
<1>5. {<<t, i>>} \in SUBSET ({t} \X RowIds)
  OBVIOUS
<1>6. \A y \in kept' : y \in kept /\ y \notin {<<t, i>>}
  BY <1>4
<1>. HIDE DEF x
<1>. QED
  BY <1>1, <1>2, <1>3, <1>4, <1>5, <1>6, RowLocked, TableChange

\* A change to one view that is not locked.
LEMMA ViewChange ==
  ASSUME MoveInv, NEW t \in Present(tables), NEW v \in ViewIds, NEW view \in Views \cup {Absent},
         ~LocksView(t, v), Changes([tables EXCEPT ![t].views[v] = view], {}, {}), UNCHANGED <<ids,
           issued, kept>>
  PROVE  MoveInv'
<1> DEFINE x == [tables[t] EXCEPT !.views[v] = view]
<1>1. x \in Table
  BY RowLocked DEF Table
<1>2. /\ x.moved = tables[t].moved /\ x.named = tables[t].named /\ x.rows = tables[t].rows
           /\ x.mark = tables[t].mark
      /\ x.views = [tables[t].views EXCEPT ![v] = view]
  BY RowLocked DEF Table
<1>3. \A w \in ViewIds : LocksView(t, w) => x.views[w] = tables[t].views[w]
  BY <1>2, RowLocked
<1>4. Changes([tables EXCEPT ![t] = x], {}, {})
  OBVIOUS
<1>. HIDE DEF x
<1>. QED
  BY <1>1, <1>2, <1>3, <1>4, RowLocked, TableChange

LEMMA CreateViewKeeps == ASSUME MoveInv, NEW t \in Present(tables), CreateView(t) PROVE MoveInv'
<1> DEFINE v == Top(Present(tables[t].views)) + 1
<1>1. v \in ViewIds /\ ~LocksView(t, v) /\ UNCHANGED <<ids, issued, kept>>
  BY DEF CreateView
<1>2. PICK config \in {"placeholder", "own"} :
        Changes([tables EXCEPT ![t].views[v] = [config |-> config, seeded |-> FALSE]], {}, {})
  BY DEF CreateView
<1>. HIDE DEF v
<1>3. [config |-> config, seeded |-> FALSE] \in Views
  BY DEF Views
<1>. QED
  BY <1>1, <1>2, <1>3, ViewChange

LEMMA EditViewKeeps == ASSUME MoveInv, NEW t \in Present(tables), NEW v \in ViewIds,
  EditView(t, v) PROVE MoveInv'
<1>1. PICK config \in {"placeholder", "own"} :
        Changes([tables EXCEPT ![t].views[v].config = config], {}, {})
  BY DEF EditView
<1>2. [tables[t].views[v] EXCEPT !.config = config] \in Views
  BY RowLocked DEF EditView, Views
<1>3. [tables EXCEPT ![t].views[v].config = config]
        = [tables EXCEPT ![t].views[v] = [tables[t].views[v] EXCEPT !.config = config]]
  OBVIOUS
<1>. QED
  BY <1>1, <1>2, <1>3, ViewChange DEF EditView

LEMMA DeleteViewKeeps == ASSUME MoveInv, NEW t \in Present(tables), NEW v \in ViewIds,
  DeleteView(t, v) PROVE MoveInv'
BY ViewChange DEF DeleteView

LEMMA InsertRowKeeps == ASSUME MoveInv, NEW t \in Present(tables), InsertRow(t) PROVE MoveInv'
<1> DEFINE i == NextRow(t)
           x == [tables[t] EXCEPT !.rows[i] = "new", !.mark = i]
<1>0. /\ i \in RowIds /\ i = tables[t].mark + 1 /\ RowIds = 1..MaxRow /\ MaxRow \in Nat
      /\ ~LocksCounter(t) /\ tables[t].rows[i] = Absent
      /\ ids' = ids /\ issued' = [issued EXCEPT ![t] = @ \cup {i}]
      /\ kept' = IF tables[t].moved THEN kept \cup {<<t, i>>} ELSE kept
  BY MoveConstants DEF InsertRow, NextRow, RowIds
<1>1. Changes([tables EXCEPT ![t] = x], {}, {})
  BY DEF InsertRow
<1>. HIDE DEF i
<1>2. i \in 0..MaxRow
  BY <1>0
<1>3. x \in Table
  <2>1. [tables[t].rows EXCEPT ![i] = "new"] \in [RowIds -> Data \cup {Absent}]
    BY <1>0, RowLocked DEF Data
  <2> DEFINE y == [tables[t] EXCEPT !.rows = [tables[t].rows EXCEPT ![i] = "new"]]
  <2>2. y \in Table
    BY <2>1, RowLocked DEF Table
  <2>3. x = [y EXCEPT !.mark = i]
    OBVIOUS
  <2>. HIDE DEF x, y
  <2>. QED
    BY <1>2, <2>2, <2>3 DEF Table
<1>4. /\ x.moved = tables[t].moved /\ x.named = tables[t].named /\ x.views = tables[t].views
           /\ x.mark = i
      /\ x.rows = [tables[t].rows EXCEPT ![i] = "new"]
  BY RowLocked DEF Table
<1>. HIDE DEF x
<1>5. /\ x.rows[i] # Absent
      /\ \A j \in RowIds : tables[t].rows[j] # Absent =>
            x.rows[j] # Absent /\ x.rows[j] = tables[t].rows[j]
  BY <1>0, <1>4, RowLocked DEF Data
<1>6. x.mark >= tables[t].mark
  BY <1>0, <1>4, RowLocked
<1>7. /\ issued' \in [Tables -> SUBSET RowIds] /\ \A u \in Tables : u # t => issued'[u] = issued[u]
      /\ issued'[t] = issued[t] \cup {i}
  BY <1>0, RowLocked
<1>8. issued'[t] \subseteq 1..x.mark
  BY <1>0, <1>4, <1>7, RowLocked
<1>9. kept' \subseteq Tables \X RowIds
  BY <1>0, RowLocked
<1>10. tables[t].moved => i > old.mark
  <2>1. tables[t].moved => tables[t].mark >= old.mark
    BY DEF MoveInv, NumbersBehindMarks
  <2>2. old.mark \in Nat
    BY ArchiveFacts DEF MoveInv
  <2>. QED
    BY <1>0, <2>1, <2>2, RowLocked
<1>11. \A y \in kept' : \/ y \in kept
                        \/ y[1] = t /\ tables[t].moved /\ x.rows[y[2]] # Absent /\ y[2] > old.mark
  BY <1>0, <1>5, <1>10
<1>12. /\ \A j \in RowIds : tables[t].rows[j] # Absent =>
             \/ <<t, j>> \in {}
             \/ x.rows[j] # Absent /\ (<<t, j>> \in {} \/ x.rows[j] = tables[t].rows[j])
       /\ LocksCounter(t) => x.mark = tables[t].mark
       /\ \A v \in ViewIds : LocksView(t, v) => x.views[v] = tables[t].views[v]
       /\ {} \in SUBSET ({t} \X RowIds) /\ ids' = ids
       /\ x.named => tables[t].named \/ (Named = {} /\ ~mover.private)
  BY <1>0, <1>4, <1>5
<1>13. /\ x.moved = tables[t].moved
       /\ Changes([tables EXCEPT ![t] = x], {}, {})
       /\ issued' \in [Tables -> SUBSET RowIds] /\ \A u \in Tables : u # t => issued'[u] = issued[u]
       /\ \A y \in kept' : (y \in kept /\ y \notin {}) \/
                  (y[1] = t /\ tables[t].moved /\ x.rows[y[2]] # Absent /\ y[2] > old.mark)
  BY <1>1, <1>4, <1>7, <1>11
<1>. QED
  BY <1>3, <1>6, <1>8, <1>9, <1>12, <1>13, TableChange

LEMMA DeleteTableKeeps == ASSUME MoveInv, NEW t \in Present(tables), DeleteTable(t) PROVE MoveInv'
<1> DEFINE new == [tables EXCEPT ![t] = Absent]
           gone == {t} \X RowIds
<1>1. /\ Changes(new, gone, {}) /\ kept' = {x \in kept : x[1] # t} /\ UNCHANGED <<ids, issued>>
      /\ UNCHANGED <<old, mover>> /\ tables' = new
  BY DEF DeleteTable, Changes
<1>2. /\ new \in [Tables -> Table \cup {Absent}] /\ t \in Tables /\ new[t] = Absent
      /\ \A u \in Tables : u # t => new[u] = tables[u]
      /\ gone \in SUBSET (Tables \X RowIds) /\ \A y \in gone : y[1] = t
      /\ \A i \in RowIds : <<t, i>> \in gone
  BY RowLocked DEF MoveInv, MoveTypeOK
<1>. HIDE DEF new, gone
<1>3. \A u \in Tables : new[u] # Absent => tables[u] # Absent /\ u # t /\ u <= ids
  BY <1>2, MoveTypes DEF MoveInv
<1>4. \A u, w \in Tables : new[u] # Absent /\ new[u].named /\ new[w] # Absent /\ new[w].named =>
        u = w
  <2>1. \A u \in Tables : new[u] # Absent /\ new[u].named => u \in Named
    BY <1>2, <1>3, MoveTypes DEF MoveInv
  <2>. QED
    BY <2>1 DEF MoveInv, MoveTypeOK
<1>5. \A u \in Tables, i \in RowIds :
            tables[u] # Absent /\ tables[u].rows[i] # Absent =>
                <<u, i>> \in gone \/ (new[u] # Absent /\ new[u].rows[i] # Absent
                                        /\ new[u].rows[i] = tables[u].rows[i])
  BY <1>2
<1>6. NumbersBehindMarks'
  <2>0. \A u \in Present(tables)' : u \in Tables /\ new[u] # Absent
    BY <1>1, <1>2 DEF Present
  <2>1. \A u \in Present(tables)' : u \in Present(tables) /\ u \in Tables /\ u # t
    BY <1>3, <2>0, MoveTypes DEF MoveInv
  <2>2. \A u \in Tables : u > ids' => tables'[u] = Absent /\ issued'[u] = {}
    BY <1>1, <1>2 DEF MoveInv, NumbersBehindMarks
  <2>3. \A u \in Present(tables)' : issued'[u] \subseteq 1..tables'[u].mark
          /\ (tables'[u].moved => tables'[u].mark >= old'.mark)
    BY <1>1, <1>2, <2>1 DEF MoveInv, NumbersBehindMarks
  <2>4. \A x \in kept' : /\ tables'[x[1]] # Absent /\ tables'[x[1]].moved
                         /\ tables'[x[1]].rows[x[2]] # Absent /\ x[2] > old'.mark
    BY <1>1, <1>2 DEF MoveInv, MoveTypeOK, NumbersBehindMarks
  <2>. QED
    BY <2>2, <2>3, <2>4 DEF NumbersBehindMarks
<1>7. issued' \in [Tables -> SUBSET RowIds] /\ kept' \subseteq Tables \X RowIds
  BY <1>1, RowLocked
<1>8. ASSUME mover.target \in Tables, ~mover.private, new[mover.target] # Absent
      PROVE  /\ tables[mover.target] # Absent
             /\ mover.mark > 0 => new[mover.target].mark = tables[mover.target].mark
             /\ new[mover.target].mark >= tables[mover.target].mark
             /\ \A v \in DOMAIN mover.views :
                  new[mover.target].views[v] = tables[mover.target].views[v]
  <2>1. mover.target # t /\ new[mover.target] = tables[mover.target]
          /\ tables[mover.target] # Absent
    BY <1>2, <1>3, <1>8
  <2>2. tables[mover.target].mark \in Nat
    BY <1>8, <2>1, MoveTypes, MoveConstants DEF MoveInv, Table
  <2>. QED
    BY <1>2, <2>1, <2>2
<1>9. mover.private =>
        /\ new[mover.target] = Absent /\ issued'[mover.target] = {}
        /\ \A u \in Tables : new[u] # Absent => ~new[u].named
  BY <1>1, <1>2, <1>3, MoveTypes DEF MoveInv, MoverSound
<1>10. ids' \in ids..MaxTables /\ \A u \in Tables : new[u] # Absent => u <= ids'
  BY <1>1, <1>3, MoveTypes, MoveConstants DEF MoveInv
<1>11. ASSUME mover.target \in Tables, ~mover.private, mover.at = "commit"
       PROVE  new[mover.target] # Absent
  <2>1. Here /\ CopySound
    BY <1>11, MoveTypes DEF MoveInv, MoverSound
  <2>2. PICK v \in Present(old.views) : TRUE
    BY DEF MoveInv, ArchiveOK
  <2>3. v \in ViewIds /\ v \in DOMAIN mover.views /\ mover.views[v] # Absent
    BY <1>11, <2>1, <2>2, ArchiveFacts DEF CopySound, ViewsDone, SeedsDone, RowsDone, MoveInv
  <2>4. mover.target # t
    BY <1>11, <2>3, RowLocked DEF DeleteTable, LocksName, LocksView, Mine, Present
  <2>. QED
    BY <1>2, <1>11, <2>1, <2>4 DEF Here
<1>12. {} \in SUBSET (Tables \X RowIds)
  OBVIOUS
<1>. QED
  BY <1>1, <1>2, <1>4, <1>5, <1>6, <1>7, <1>8, <1>9, <1>10, <1>11, <1>12, UserChange

LEMMA CreateTableKeeps == ASSUME MoveInv, CreateTable PROVE MoveInv'
<1> DEFINE t == ids + 1
           x == [EmptyTable EXCEPT !.views[1] = [config |-> "own", seeded |-> FALSE]]
           new == [tables EXCEPT ![t] = x]
<1>1. /\ ids < MaxTables /\ Named = {} /\ ~mover.private /\ ids' = ids + 1
      /\ Changes(new, {}, {}) /\ UNCHANGED <<issued, kept>> /\ UNCHANGED <<old, mover>>
           /\ tables' = new
  BY DEF CreateTable, Changes
<1>2. x \in Table /\ x.mark = 0 /\ x.moved = FALSE
  <2>1. [config |-> "own", seeded |-> FALSE] \in Views
    BY DEF Views
  <2>. QED
    BY <2>1, EmptyIsTable DEF Table, EmptyTable
<1>. HIDE DEF x
<1>3. /\ t \in Tables /\ tables[t] = Absent /\ issued[t] = {} /\ ids \in Nat /\ MaxTables \in Nat
      /\ tables \in [Tables -> Table \cup {Absent}] /\ t > ids
  BY <1>1, MoveTypes, MoveConstants DEF MoveInv, MoveTypeOK, NumbersBehindMarks, Tables
<1>4. /\ new \in [Tables -> Table \cup {Absent}] /\ new[t] = x
      /\ \A u \in Tables : u # t => new[u] = tables[u]
  BY <1>2, <1>3
<1>5. x # Absent
  BY <1>2, MoveConstants
<1>. HIDE DEF new, t
<1>6. \A u \in Tables : new[u] # Absent => u = t \/ tables[u] # Absent
  BY <1>4
<1>7. \A u \in Tables : new[u] # Absent => u <= ids'
  BY <1>1, <1>3, <1>6, MoveTypes DEF MoveInv, t, Tables
<1>8. \A u \in Tables : new[u] # Absent /\ new[u].named => u = t
  BY <1>1, <1>4, <1>6, MoveTypes DEF MoveInv
<1>9. \A u \in Tables, i \in RowIds :
            tables[u] # Absent /\ tables[u].rows[i] # Absent =>
                new[u] # Absent /\ new[u].rows[i] # Absent /\ new[u].rows[i] = tables[u].rows[i]
  BY <1>3, <1>4
<1>10. NumbersBehindMarks'
  <2>1. \A u \in Present(tables)' : u \in Tables /\ (u = t \/ u \in Present(tables))
    BY <1>1, <1>3, <1>4, <1>6 DEF Present
  <2>2. ASSUME NEW u \in Tables, u > ids' PROVE tables'[u] = Absent /\ issued'[u] = {}
    <3>1. u # t /\ u > ids
      BY <1>1, <1>3, <2>2 DEF t, Tables
    <3>. QED
      BY <1>1, <1>4, <3>1 DEF MoveInv, NumbersBehindMarks
  <2>3. \A u \in Present(tables)' : issued'[u] \subseteq 1..tables'[u].mark
          /\ (tables'[u].moved => tables'[u].mark >= old'.mark)
    BY <1>1, <1>2, <1>3, <1>4, <2>1 DEF MoveInv, NumbersBehindMarks
  <2>4. \A y \in kept' : /\ tables'[y[1]] # Absent /\ tables'[y[1]].moved
                         /\ tables'[y[1]].rows[y[2]] # Absent /\ y[2] > old'.mark
    BY <1>1, <1>3, <1>4 DEF MoveInv, MoveTypeOK, NumbersBehindMarks
  <2>. QED
    BY <2>2, <2>3, <2>4 DEF NumbersBehindMarks
<1>11. issued' \in [Tables -> SUBSET RowIds] /\ kept' \subseteq Tables \X RowIds
  BY <1>1 DEF MoveInv, MoveTypeOK
<1>12. ASSUME mover.target \in Tables, new[mover.target] # Absent
       PROVE  /\ tables[mover.target] # Absent
              /\ mover.mark > 0 => new[mover.target].mark = tables[mover.target].mark
              /\ new[mover.target].mark >= tables[mover.target].mark
              /\ \A v \in DOMAIN mover.views :
                   new[mover.target].views[v] = tables[mover.target].views[v]
  <2>1. mover.target # t
    BY <1>3, MoveTypes DEF MoveInv, MoverSound, t
  <2>2. new[mover.target] = tables[mover.target] /\ tables[mover.target] # Absent
    BY <1>4, <1>12, <2>1
  <2>3. tables[mover.target].mark \in Nat
    BY <1>12, <2>2, MoveTypes, MoveConstants DEF MoveInv, Table
  <2>. QED
    BY <2>2, <2>3
<1>13. ids' \in ids..MaxTables /\ {} \in SUBSET (Tables \X RowIds)
  BY <1>1, <1>3
<1>14. mover.target \in Tables /\ ~mover.private /\ mover.at = "commit" =>
         new[mover.target] # Absent
  BY <1>3, <1>4, <1>5, MoveTypes DEF MoveInv, MoverSound, Here
<1>. QED
  BY <1>1, <1>4, <1>7, <1>8, <1>9, <1>10, <1>11, <1>12, <1>13, <1>14, UserChange

\* A step of the cleaner: at most an owner goes, of a key that has been on the queue.
LEMMA CleanerKeeps == ASSUME MoveInv, NEW k \in Keys, Condemn(k) \/ Keep(k) \/ Collect(k)
  \/ Abandon(k)
                      PROVE  MoveInv'
<1>1. UNCHANGED <<old, tables, ids, mover, runs, changes, issued, kept, retired>>
  BY DEF Condemn, Keep, Collect, Abandon
<1>2. doomed \subseteq queue /\ queue \subseteq retired /\ retired \subseteq DOMAIN old.blobs
  BY DEF MoveInv, MoveTypeOK
<1>3. /\ owner \in [Keys -> (Tables \X RowIds) \cup {Absent}] /\ Absent \notin Tables \X RowIds
      /\ DOMAIN owner = Keys
  BY MoveTypes DEF MoveInv, MoveTypeOK
<1>4. doomed' \subseteq queue' /\ queue' \subseteq retired
  BY <1>2 DEF Condemn, Keep, Collect, Abandon
<1>a. owner' \in [Keys -> (Tables \X RowIds) \cup {Absent}] /\ DOMAIN owner' = Keys
  BY <1>3 DEF Condemn, Keep, Collect, Abandon
<1>b. \A j \in Keys : owner'[j] = owner[j] \/ (owner'[j] = Absent /\ j \in retired)
  BY <1>2, <1>3 DEF Condemn, Keep, Collect, Abandon
<1>c. \A j : j \in Present(owner)' => j \in Present(owner) /\ owner'[j] = owner[j]
  BY <1>3, <1>a, <1>b DEF Present
<1>5. Present(tables)' = Present(tables) /\ Named' = Named /\ Present(old.rows)' = Present(old.rows)
      /\ Present(old.views)' = Present(old.views)
  BY <1>1 DEF Present, Named
<1>6. MoveTypeOK'
  <2>1. \A j \in Present(owner)' : owner'[j][1] \in Present(tables)'
          /\ tables'[owner'[j][1]].rows[owner'[j][2]] # Absent
    BY <1>1, <1>5, <1>c DEF MoveInv, MoveTypeOK
  <2>. QED
    BY <1>1, <1>2, <1>4, <1>5, <1>a, <2>1 DEF MoveInv, MoveTypeOK
<1>7. ArchiveOK' /\ NumbersBehindMarks' /\ OwnersAsArchived'
  BY <1>1, <1>5, <1>c DEF MoveInv, ArchiveOK, NumbersBehindMarks, OwnersAsArchived, Refers
<1>d. Here' = Here
  BY <1>1 DEF Here
<1>8. MoverSound'
  <2>1. \A j \in mover.keys : j \in DOMAIN old.blobs /\ owner'[j] = Absent
    BY <1>b, ArchiveFacts DEF MoveInv, MoverSound
  <2>. QED
    BY <1>1, <1>5, <1>d, <2>1 DEF MoveInv, MoverSound, RowsDone, SeedsDone
<1>9. ASSUME Here' PROVE CopySound'
  <2>0. Here /\ CopySound
    BY <1>9, <1>d DEF MoveInv
  <2>1. TargetFacts /\ TargetFacts'
    BY <1>6, <1>9, <2>0, TargetIsTable, TargetNext DEF MoveInv
  <2>2. /\ \A v \in ViewIds : Target'.views[v] = Target.views[v]
        /\ Target'.mark = Target.mark
    BY <1>1, <2>1 DEF TargetFacts
  <2>3. mover.at = "commit" =>
          \A j \in DOMAIN old.blobs : Owns(j)' = <<mover.target, old.blobs[j]>> \/ Forgotten(j)'
    <3>1. SUFFICES ASSUME mover.at = "commit", NEW j \in DOMAIN old.blobs
                   PROVE  Owns(j)' = <<mover.target, old.blobs[j]>> \/ Forgotten(j)'
      OBVIOUS
    <3>2. /\ Owns(j) = <<mover.target, old.blobs[j]>> \/ Forgotten(j)
          /\ j \in Keys
      BY <2>0, <3>1, ArchiveFacts DEF CopySound, MoveInv
    <3>. QED
      BY <1>1, <1>3, <1>b, <3>2 DEF Owns, Forgotten
  <2>4. mover.at \in KeysDone =>
          \A j \in DOMAIN old.blobs \ mover.keys : owner'[j] = Absent => j \in retired
    BY <1>b, <2>0, ArchiveFacts DEF CopySound, MoveInv
  <2>. HIDE DEF Target
  <2>. QED
    BY <1>1, <1>5, <2>0, <2>2, <2>3, <2>4
       DEF CopySound, RowsDone, SeedsDone, ViewsDone, CounterDone, KeysDone
<1>. QED
  BY <1>6, <1>7, <1>8, <1>9 DEF MoveInv

LEMMA MoveStepKeeps == MoveInv /\ [MoveNext]_moveVars => MoveInv'
<1> SUFFICES ASSUME MoveInv, [MoveNext]_moveVars PROVE MoveInv'
  OBVIOUS
<1>1. CASE Move
  BY <1>1, BeginKeeps, InsertTablesKeeps, CopyTablesKeeps, InsertRowsKeeps, DeleteSeededViewsKeeps,
     InsertViewsKeeps, InsertCountersKeeps, InsertBlobsKeeps, RebuildIndexesKeeps, VerifyKeeps,
     CommitKeeps, RollbackKeeps DEF Move
<1>2. CASE User
  BY <1>2, CreateTableKeeps, RenameKeeps, DeleteTableKeeps, InsertRowKeeps, CreateViewKeeps,
     EditRowKeeps, DeleteRowKeeps, EditViewKeeps, DeleteViewKeeps DEF User
<1>3. CASE Cleaner
  BY <1>3, CleanerKeeps DEF Cleaner
<1>4. CASE UNCHANGED moveVars
  <2>1. /\ UNCHANGED <<old, tables, ids, owner, mover, runs, changes, issued, kept, cleaning>>
        /\ retired' = retired
    BY <1>4 DEF moveVars, cleaning
  <2>2. /\ MoveTypeOK' /\ ArchiveOK' /\ NumbersBehindMarks' /\ OwnersAsArchived' /\ Named' = Named
    BY <2>1, ScriptLeaves, MoveTypes, MoveConstants DEF MoveInv
  <2>3. MoverSound'
    BY <2>1, <2>2 DEF MoveInv, MoverSound, Here
  <2>4. Here' => CopySound'
    BY <2>1 DEF MoveInv, Here, CopySound, Target, Owns, Forgotten, Present
  <2>. QED
    BY <2>2, <2>3, <2>4 DEF MoveInv
<1>. QED
  BY <1>1, <1>2, <1>3, <1>4 DEF MoveNext

\* What the script holds locked stays what it was made of, and marks stay ahead of numbers.
THEOREM MoveInvariant == MoveSpec => []MoveInv
<1>1. MoveInit => MoveInv
  BY MoveStart
<1>2. MoveInv /\ [MoveNext]_moveVars => MoveInv'
  BY MoveStepKeeps
<1>. QED
  BY <1>1, <1>2, PTL DEF MoveSpec

\* Types, one table for the name, and the foreign key of blob_objects, at every commit.
THEOREM MoveTypeCorrect == MoveSpec => []MoveTypeOK
<1>1. MoveInv => MoveTypeOK
  BY DEF MoveInv
<1>. QED
  BY <1>1, MoveInvariant, PTL

\* The comparison (CHECKS) fails only for a reason outside the script: the copy is complete
\* by construction, so a count or a mark never fails it, and an owner is missing only if the
\* cleaner has taken it from a key that had been on its queue.
THEOREM RefusalsHaveReason == MoveSpec => []RefusesWithReason
<1>1. MoveInv => RefusesWithReason
  <2> SUFFICES ASSUME MoveInv, mover.at = "verify", ~Compared, Here,
                      Named # {} \/ mover.private,
                      \A i \in Present(old.rows) : Canonical(old.rows[i]) = old.rows[i]
               PROVE  \E k \in DOMAIN old.blobs \ mover.keys :
                          IF owner[k] = Absent THEN k \in retired ELSE owner[k][1] # mover.target
    BY DEF RefusesWithReason
  <2>1. /\ TargetFacts
        /\ DOMAIN mover.rows = Present(old.rows)
        /\ \A i \in Present(old.rows) : mover.rows[i] = old.rows[i]
        /\ \A v \in Present(old.views) : v \in DOMAIN mover.views /\ mover.views[v] = old.views[v]
        /\ Target.mark >= old.mark
        /\ \A k \in DOMAIN old.blobs \ mover.keys : owner[k] = Absent => k \in retired
    BY TargetIsTable DEF MoveInv, CopySound, RowsDone, SeedsDone, ViewsDone, CounterDone, KeysDone
  <2>2. /\ \A i \in Present(old.rows) : Target.rows[i] = old.rows[i]
        /\ \A v \in Present(old.views) : Target.views[v] # Absent
             /\ Target.views[v].config = old.views[v].config
    BY <2>1, ArchiveFacts DEF TargetFacts, MoveInv
  <2>3. PICK k \in DOMAIN old.blobs : Owns(k) # <<mover.target, old.blobs[k]>>
    BY <2>1, <2>2 DEF Compared
  <2>4. k \notin mover.keys /\ owner[k] # <<mover.target, old.blobs[k]>> /\ k \in Keys
    BY <2>3, ArchiveFacts DEF Owns, MoveInv
  <2>5. owner[k] # Absent => owner[k] \in Tables \X RowIds /\ owner[k][2] = old.blobs[k]
    BY <2>4 DEF MoveInv, MoveTypeOK, OwnersAsArchived, Present
  <2>. QED
    BY <2>1, <2>4, <2>5
<1>. QED
  BY <1>1, MoveInvariant, PTL

\* A step that changes the tables at the end of a run is a Commit into a table that is there.
LEMMA CommitsHere ==
  ASSUME MoveInv, [MoveNext]_moveVars, Committing
  PROVE  Commit /\ Here
<1>1. mover.at = "commit" /\ mover'.at = "idle" /\ tables' # tables
  BY DEF Committing
<1>2. ~UNCHANGED moveVars
  BY <1>1 DEF moveVars
<1>3. ~User
  BY <1>1 DEF User, CreateTable, Rename, DeleteTable, InsertRow, EditRow, DeleteRow, CreateView,
              EditView, DeleteView, Changes
<1>4. ~Cleaner
  BY <1>1 DEF Cleaner, Condemn, Keep, Collect, Abandon
<1>5. Commit
  BY <1>1, <1>2, <1>3, <1>4 DEF MoveNext, Move, Begin, InsertTables, CopyTables, InsertRows,
     DeleteSeededViews, InsertViews, InsertCounters, InsertBlobs, RebuildIndexes, Verify, Rollback
<1>. QED
  BY <1>1, <1>5 DEF Commit

\* The commit contains the whole archive, though users went on after the comparison: the
\* rows, views and counter are locked. A key has lost its owner only if it has been on the
\* queue of the cleaner, and only a change made during the run leaves the script without a
\* target.
THEOREM WholeArchiveCommitted == MoveSpec => CommitsTheArchive
<1>1. MoveInv => CommittedWhole
  <2>0. MoveInv /\ Commit /\ mover.target = 0 => mover.since # changes
    BY DEF MoveInv, MoverSound, Commit, RowsDone
  <2> SUFFICES ASSUME MoveInv, Commit, mover.target # 0
               PROVE  /\ Holds(tables'[mover.target])
                      /\ \A k \in DOMAIN old.blobs :
                             owner'[k] = <<mover.target, old.blobs[k]>> \/ Forgotten(k)
                      /\ mover.since = changes => NoPlaceholder(tables'[mover.target])
    BY <2>0 DEF CommittedWhole
  <2>1. Commit /\ Here
    BY DEF MoveInv, MoverSound, Commit
  <2>2. Holds(tables'[mover.target])
    BY <2>1, CommitFacts, ArchiveFacts DEF Holds, TargetFacts, MoveInv
  <2>3. \A k \in DOMAIN old.blobs : owner'[k] = <<mover.target, old.blobs[k]>> \/ Forgotten(k)
    BY <2>1, CommitFacts, ArchiveFacts DEF MoveInv
  <2>4. ASSUME mover.since = changes PROVE NoPlaceholder(tables'[mover.target])
    <3> SUFFICES ASSUME NEW v \in ViewIds, Target.views[v] = Placeholder PROVE FALSE
      <4>1. Present(Target.views) \subseteq ViewIds
        BY <2>1, CommitFacts DEF TargetFacts, Table, Present
      <4>. QED
        BY <2>1, <4>1, CommitFacts DEF NoPlaceholder
    <3>1. old.views[v] # Absent
      BY <2>1, <2>4, CommitFacts
    <3>2. Target.views[v] = old.views[v]
      BY <2>1, <3>1, CommitFacts, ArchiveFacts DEF TargetFacts, MoveInv
    <3>. QED
      BY <3>1, <3>2, ArchiveFacts, ViewsAreSome DEF MoveInv
  <2>. QED
    BY <2>2, <2>3, <2>4
<1>. QED
  BY <1>1, MoveInvariant, PTL DEF MoveSpec, CommitsTheArchive

\* DELETE_SEEDED_VIEWS and the locks after it: no view of a user is dropped.
THEOREM SeedsOnlyDropped == MoveSpec => OnlySeedsDropped
<1>1. MoveInv /\ [MoveNext]_moveVars => SeedsDropped
  <2> SUFFICES ASSUME MoveInv, [MoveNext]_moveVars, Committing, mover.target \in Present(tables),
                      NEW v \in Present(tables[mover.target].views),
                      tables'[mover.target].views[v] = Absent
               PROVE  tables[mover.target].views[v].seeded
    BY DEF SeedsDropped
  <2>1. Commit /\ Here
    BY CommitsHere
  <2>2. ~mover.private /\ v \in ViewIds /\ tables[mover.target].views[v] # Absent
    BY MoveTypes DEF MoveInv, MoverSound, Present, Table
  <2>3. v \in DOMAIN mover.views /\ mover.views[v] = Absent
    BY <2>1, <2>2, CommitFacts DEF TargetFacts
  <2>4. old.views[v] = Absent
    BY <2>1, <2>2, <2>3, CommitFacts, ArchiveFacts DEF MoveInv
  <2>. QED
    BY <2>1, <2>3, <2>4, CommitFacts
<1>. QED
  BY <1>1, MoveInvariant, PTL DEF MoveSpec, OnlySeedsDropped

\* Running the script again overwrites no row that users added after the first run.
THEOREM LaterRowsKept == MoveSpec => UserRowsKept
<1>1. MoveInv /\ [MoveNext]_moveVars => RowsKept
  <2> SUFFICES ASSUME MoveInv, [MoveNext]_moveVars, Committing, NEW x \in kept
               PROVE  tables'[x[1]].rows[x[2]] = tables[x[1]].rows[x[2]]
    BY DEF RowsKept
  <2>1. Commit /\ Here
    BY CommitsHere
  <2>2. x[1] \in Tables /\ x[2] \in RowIds /\ tables[x[1]] # Absent /\ x[2] > old.mark
    BY DEF MoveInv, MoveTypeOK, NumbersBehindMarks
  <2>3. CASE x[1] # mover.target
    BY <2>1, <2>2, <2>3, CommitFacts
  <2>4. CASE x[1] = mover.target
    <3>1. ~mover.private
      BY <2>2, <2>4 DEF MoveInv, MoverSound
    <3>2. x[2] \notin Present(old.rows)
      BY <2>2, ArchiveFacts DEF MoveInv, ArchiveOK, RowIds
    <3>. QED
      BY <2>1, <2>2, <2>4, <3>1, <3>2, CommitFacts DEF TargetFacts
  <2>. QED
    BY <2>3, <2>4
<1>. QED
  BY <1>1, MoveInvariant, PTL DEF MoveSpec, UserRowsKept

\* INSERT_COUNTERS and the row trigger: a number that was given out is never given again.
THEOREM RowNumbersNeverReturn == MoveSpec => NumbersNeverReturn
<1>1. MoveInv /\ [MoveNext]_moveVars => NumbersNew
  <2> SUFFICES ASSUME MoveInv, [MoveNext]_moveVars, mover' = mover,
                      tables' # tables, NEW t \in Present(tables), NEW i \in RowIds,
                      tables'[t] # Absent, tables[t].rows[i] = Absent, tables'[t].rows[i] # Absent
               PROVE  i \notin issued[t]
    BY DEF NumbersNew
  <2>0. /\ tables \in [Tables -> Table \cup {Absent}] /\ t \in Tables /\ tables[t] # Absent
        /\ tables[t].rows \in [RowIds -> Data \cup {Absent}] /\ tables[t] \in Table
    BY RowLocked DEF MoveInv, MoveTypeOK
  <2>1. tables' # tables
    OBVIOUS
  <2>2. ~Commit
    BY DEF Commit, AtRest
  <2>15. ~Cleaner
    BY <2>1 DEF Cleaner, Condemn, Keep, Collect, Abandon
  <2>3. User
    BY <2>1, <2>2, <2>15 DEF MoveNext, moveVars, Move, Begin, InsertTables, CopyTables, InsertRows,
         DeleteSeededViews,
     InsertViews, InsertCounters, InsertBlobs, RebuildIndexes, Verify, Rollback
  <2>4. CASE CreateTable
    <3>1. tables' = [tables EXCEPT ![ids + 1] = [EmptyTable EXCEPT !.views[1] = [config |-> "own",
            seeded |-> FALSE]]]
      BY <2>4 DEF CreateTable, Changes
    <3>2. t # ids + 1
      BY MoveTypes DEF MoveInv
    <3>. QED
      BY <2>0, <3>1, <3>2
  <2>5. ASSUME NEW u \in Present(tables), InsertRow(u) PROVE i \notin issued[t]
    <3>1. tables' = [tables EXCEPT ![u].rows[NextRow(u)] = "new", ![u].mark = NextRow(u)]
      BY <2>5 DEF InsertRow, Changes
    <3>2. u = t
      BY <2>0, <3>1
    <3>3. i = tables[t].mark + 1
      BY <2>0, <3>1, <3>2 DEF NextRow, Table
    <3>. QED
      BY <3>3, RowLocked DEF RowIds
  <2>6. ASSUME NEW u \in Present(tables), NEW x, tables' = [tables EXCEPT ![u] = x],
               \A j \in RowIds : tables[u].rows[j] = Absent => x = Absent \/ x.rows[j] = Absent
        PROVE  FALSE
    BY <2>0, <2>6
  <2>7. \A u \in Present(tables) : ~Rename(u)
    <3> SUFFICES ASSUME NEW u \in Present(tables), Rename(u) PROVE FALSE
      OBVIOUS
    <3> DEFINE x == [tables[u] EXCEPT !.named = ~@]
    <3>1. tables' = [tables EXCEPT ![u] = x] /\ x.rows = tables[u].rows
      BY RowLocked DEF Rename, Changes, Table
    <3>. HIDE DEF x
    <3>. QED
      BY <2>6, <3>1
  <2>8. \A u \in Present(tables) : ~DeleteTable(u)
    BY <2>6 DEF DeleteTable, Changes
  <2>9. \A u \in Present(tables), v \in ViewIds, view \in Views \cup {Absent} :
          tables' # [tables EXCEPT ![u].views[v] = view]
    <3> SUFFICES ASSUME NEW u \in Present(tables), NEW v \in ViewIds, NEW view \in Views
                          \cup {Absent},
                        tables' = [tables EXCEPT ![u].views[v] = view] PROVE FALSE
      OBVIOUS
    <3> DEFINE x == [tables[u] EXCEPT !.views[v] = view]
    <3>1. tables' = [tables EXCEPT ![u] = x] /\ x.rows = tables[u].rows
      BY RowLocked DEF Table
    <3>. HIDE DEF x
    <3>. QED
      BY <2>6, <3>1
  <2>10. \A u \in Present(tables) : ~CreateView(u)
    BY <2>9 DEF CreateView, Changes, Views
  <2>11. \A u \in Present(tables), v \in ViewIds : ~DeleteView(u, v)
    BY <2>9 DEF DeleteView, Changes
  <2>12. \A u \in Present(tables), v \in ViewIds : ~EditView(u, v)
    <3> SUFFICES ASSUME NEW u \in Present(tables), NEW v \in ViewIds, EditView(u, v) PROVE FALSE
      OBVIOUS
    <3>1. PICK config \in {"placeholder", "own"} :
                 tables' = [tables EXCEPT ![u].views[v].config = config]
      BY DEF EditView, Changes
    <3>2. [tables[u].views[v] EXCEPT !.config = config] \in Views
      BY RowLocked DEF EditView, Views
    <3>3. [tables EXCEPT ![u].views[v].config = config]
            = [tables EXCEPT ![u].views[v] = [tables[u].views[v] EXCEPT !.config = config]]
      OBVIOUS
    <3>. QED
      BY <2>9, <3>1, <3>2, <3>3
  <2>13. \A u \in Present(tables), j \in RowIds, data \in Data \cup {Absent} :
          data = Absent \/ tables[u].rows[j] # Absent =>
            tables' # [tables EXCEPT ![u].rows[j] = data]
    <3> SUFFICES ASSUME NEW u \in Present(tables), NEW j \in RowIds, NEW data \in Data
                          \cup {Absent},
                        data = Absent \/ tables[u].rows[j] # Absent,
                        tables' = [tables EXCEPT ![u].rows[j] = data] PROVE FALSE
      OBVIOUS
    <3> DEFINE x == [tables[u] EXCEPT !.rows[j] = data]
    <3>1. tables' = [tables EXCEPT ![u] = x] /\ x.rows = [tables[u].rows EXCEPT ![j] = data]
      BY RowLocked DEF Table
    <3>. HIDE DEF x
    <3>2. \A k \in RowIds : tables[u].rows[k] = Absent => x.rows[k] = Absent
      BY <3>1, RowLocked
    <3>. QED
      BY <2>6, <3>1, <3>2
  <2>14. \A u \in Present(tables), j \in RowIds : ~EditRow(u, j) /\ ~DeleteRow(u, j)
    BY <2>13 DEF EditRow, DeleteRow, Changes, Data
  <2>. QED
    BY <2>3, <2>4, <2>5, <2>7, <2>8, <2>10, <2>11, <2>12, <2>14 DEF User
<1>. QED
  BY <1>1, MoveInvariant, PTL DEF MoveSpec, NumbersNeverReturn

-----------------------------------------------------------------------------
(* split_sql, for every text without the constructs of Foreign.  What the    *)
(* loop collects from a position on is the value of a recursive function,    *)
(* which exists because every turn goes forward.  That it equals what the    *)
(* lexer of PostgreSQL sees from a token on is shown at the greatest token   *)
(* where it would not: a context of the loop ends where the token ends, and  *)
(* over a name the loop goes on character by character.                      *)

\* A bounded nonempty set of natural numbers has a greatest element.
LEMMA Greatest ==
    ASSUME NEW N \in Nat, NEW T \in SUBSET (0 .. N), T # {}
    PROVE  \E x \in T : \A y \in T : y <= x
<1> DEFINE D == {N - x : x \in T}
<1>0. \A x \in T : x \in Nat /\ x <= N /\ N - x \in Nat
  OBVIOUS
<1>1. D \in SUBSET Nat /\ D # {}
  BY <1>0
<1>2. PICK d \in D : \A y \in D : d <= y
  <2> HIDE DEF D
  <2> QED
    BY <1>1, Least
<1>3. PICK x \in T : d = N - x
  OBVIOUS
<1>4. \A y \in T : N - y \in D
  OBVIOUS
<1> HIDE DEF D
<1> QED
  BY <1>0, <1>2, <1>3, <1>4

\* What is collected on the way from s, if f is what is collected from its successor.
Collected(s, f, last, finds, next) == IF s \in last THEN {} ELSE finds[s] \cup f[next[s]]

\* Each step goes up, to at most one above N.
GoesUp(S, N, rank, last, finds, next) ==
    /\ N \in Nat
    /\ \A s \in S : rank[s] \in Nat
    /\ \A s \in S : rank[s] > N => s \in last
    /\ \A s \in S : finds[s] \subseteq Nat
    /\ \A s \in S \ last : next[s] \in S /\ rank[next[s]] > rank[s]

\* A recursion along such steps has a solution.
LEMMA CollectionExists ==
    ASSUME NEW S, NEW N, NEW rank, NEW last, NEW finds, NEW next,
           GoesUp(S, N, rank, last, finds, next)
    PROVE  \E f \in [S -> SUBSET Nat] :
               \A s \in S : f[s] = Collected(s, f, last, finds, next)
<1> USE DEF GoesUp
<1> DEFINE Good(f, m) ==
               /\ f \in [S -> SUBSET Nat]
               /\ \A s \in S : rank[s] >= m => f[s] = Collected(s, f, last, finds, next)
           T == {m \in Nat : \E f : Good(f, m)}
<1>1. N + 1 \in T
  <2>1. Good([s \in S |-> {}], N + 1)
    <3> DEFINE e == [s \in S |-> {}]
    <3>1. \A s \in S : rank[s] >= N + 1 => s \in last
      OBVIOUS
    <3>2. e \in [S -> SUBSET Nat]
      OBVIOUS
    <3>3. \A s \in S : e[s] = {}
      OBVIOUS
    <3> HIDE DEF e
    <3>4. \A s \in S : rank[s] >= N + 1 => e[s] = Collected(s, e, last, finds, next)
      BY <3>1, <3>3 DEF Collected
    <3>5. Good(e, N + 1)
      BY <3>2, <3>4
    <3> QED
      BY <3>5 DEF e
  <2> HIDE DEF Good
  <2> QED
    BY <2>1
<1>2. PICK m \in T : \A y \in T : m <= y
  <2>1. T \in SUBSET Nat /\ T # {}
    BY <1>1
  <2> HIDE DEF T
  <2> QED
    BY <2>1, Least
<1>3. PICK f : Good(f, m)
  OBVIOUS
<1>4. m = 0
  <2> SUFFICES ASSUME m # 0 PROVE FALSE
    OBVIOUS
  <2> DEFINE g == [s \in S |-> IF rank[s] = m - 1 THEN Collected(s, f, last, finds, next)
                               ELSE f[s]]
  <2>1. m \in Nat /\ m - 1 \in Nat
    OBVIOUS
  <2>2. \A s \in S : rank[s] >= m - 1 => g[s] = Collected(s, g, last, finds, next)
    <3> TAKE s \in S
    <3>1. s \notin last /\ rank[s] >= m - 1 =>
              /\ next[s] \in S
              /\ rank[next[s]] # m - 1
      BY <2>1
    <3>2. s \notin last /\ rank[s] >= m - 1 => g[next[s]] = f[next[s]]
      BY <3>1
    <3>3. rank[s] >= m - 1 /\ rank[s] # m - 1 =>
              f[s] = Collected(s, f, last, finds, next) /\ g[s] = f[s]
      BY <1>3, <2>1
    <3>4. rank[s] = m - 1 => g[s] = Collected(s, f, last, finds, next)
      OBVIOUS
    <3> HIDE DEF g
    <3> QED
      BY <3>2, <3>3, <3>4 DEF Collected
  <2>3. g \in [S -> SUBSET Nat]
    <3>1. \A s \in S : s \notin last => f[next[s]] \subseteq Nat
      BY <1>3
    <3>2. \A s \in S : Collected(s, f, last, finds, next) \subseteq Nat
      BY <3>1 DEF Collected
    <3> QED
      BY <1>3, <3>2
  <2>4. Good(g, m - 1)
    <3> HIDE DEF g
    <3> QED
      BY <2>2, <2>3
  <2> HIDE DEF g, Good
  <2>5. m - 1 \in T
    BY <2>1, <2>4
  <2> QED
    BY <1>2, <2>1, <2>5
<1>5. \A s \in S : f[s] = Collected(s, f, last, finds, next)
  BY <1>3, <1>4
<1> QED
  BY <1>3, <1>5

\* A tag begins and ends within the text.
LEMMA TagFacts ==
    ASSUME NEW text \in Seq(Chars), NEW i \in 1 .. Len(text), DollarTag(text, i) # <<>>
    PROVE  /\ DollarTag(text, i) \in Seq(Chars)
           /\ Len(DollarTag(text, i)) \in 2 .. Len(text) + 1 - i
           /\ DollarTag(text, i)[1] = "$"
           /\ text[i] = "$"
<1> DEFINE ends == {j \in i+1..Len(text) :
                    /\ text[i] = "$" /\ text[j] = "$"
                    /\ \A k \in i+1..j-1 : text[k] \in TagChars}
<1>1. ends # {} /\ DollarTag(text, i) = SubSeq(text, i, Min(ends))
  BY DEF DollarTag
<1>2. PICK m \in ends : \A y \in ends : m <= y
  <2>1. ends \in SUBSET Nat /\ ends # {}
    BY <1>1
  <2> HIDE DEF ends
  <2> QED
    BY <2>1, Least
<1>3. Min(ends) \in ends
  <2> HIDE DEF ends
  <2> QED
    BY <1>2 DEF Min
<1>4. PICK e \in i + 1 .. Len(text) : e = Min(ends) /\ text[i] = "$"
  BY <1>3
<1>5. DollarTag(text, i) = SubSeq(text, i, e)
  BY <1>1, <1>4
<1>6. /\ SubSeq(text, i, e) \in Seq(Chars)
      /\ Len(SubSeq(text, i, e)) = e + 1 - i
      /\ SubSeq(text, i, e)[1] = text[i]
  OBVIOUS
<1>7. Len(SubSeq(text, i, e)) \in 2 .. Len(text) + 1 - i
  BY <1>4, <1>6
<1> HIDE DEF ends
<1> QED
  BY <1>4, <1>5, <1>6, <1>7

\* A word begins with its first character.
LEMMA FirstChar ==
    ASSUME NEW text \in Seq(Chars), NEW i \in 1 .. Len(text), NEW word \in Seq(Chars),
           word # <<>>, At(text, i, word)
    PROVE  text[i] = word[1]
<1>1. 1 \in 1 .. Len(word) /\ i + 1 - 1 = i
  OBVIOUS
<1> QED
  BY <1>1 DEF At

\* The words that open and close contexts.
Word(w, size, first) == w \in Seq(Chars) /\ w # <<>> /\ Len(w) = size /\ w[1] = first

LEMMA QuoteFacts ==
    \A q \in Quotes : q \notin {";", "$", "-", "/", "*", "n", " ", "e", "x", "u", "1"}
  BY Zenon DEF Quotes

LEMMA WordFacts ==
    /\ Word(LineComment, 2, "-") /\ Word(BlockComment, 2, "/")
    /\ Word(<<"n">>, 1, "n") /\ Word(<<"*", "/">>, 2, "*")
    /\ \A q \in Quotes : Word(<<q>>, 1, q)
<1>1. Word(LineComment, 2, "-") /\ Word(BlockComment, 2, "/")
  BY DEF Word, LineComment, BlockComment, Chars
<1>2. Word(<<"n">>, 1, "n") /\ Word(<<"*", "/">>, 2, "*")
  BY DEF Word, Chars, Blanks
<1>3. ASSUME NEW q \in Quotes PROVE Word(<<q>>, 1, q)
  <2>1. q \in Chars
    BY DEF Chars
  <2> QED
    BY <2>1 DEF Word
<1> QED
  BY <1>1, <1>2, <1>3

\* What opens a context fits in the text, and what closes it is a word.
ContextFits(text, i, c) ==
    /\ c.open \in Seq(Chars) /\ Len(c.open) \in 1 .. Len(text) + 1 - i
    /\ c.close \in Seq(Chars) /\ c.close # <<>> /\ Len(c.close) \in Nat \ {0}
    /\ text[i] # ";"

\* The five contexts.
LEMMA OpensFacts ==
    ASSUME NEW text \in Seq(Chars), NEW i \in 1 .. Len(text)
    PROVE  LET c == Opens(text, i) IN
           /\ c.open \in Seq(Chars) /\ c.close \in Seq(Chars)
           /\ c.open = <<>> => c.close = <<>>
           /\ c.open # <<>> => ContextFits(text, i, c)
           /\ c.open = LineComment => c.close = <<"n">>
           /\ c.open = LineComment <=> At(text, i, LineComment)
           /\ text[i] \in Quotes => c.open = <<text[i]>> /\ c.close = <<text[i]>>
           /\ c.close # <<>> /\ c.close[1] \in Quotes => c.close = <<c.close[1]>>
<1> DEFINE c == Opens(text, i)
<1>1. CASE At(text, i, LineComment)
  <2>1. LineComment \in Seq(Chars) /\ LineComment # <<>> /\ LineComment[1] = "-"
    BY WordFacts DEF Word
  <2>2. text[i] = "-" /\ Len(LineComment) \in 1 .. Len(text) + 1 - i
    <3>1. Len(LineComment) = 2 /\ Len(text) \in Nat
      BY DEF LineComment
    <3>2. i + Len(LineComment) - 1 <= Len(text)
      BY <1>1 DEF At
    <3> QED
      BY <1>1, <2>1, <3>1, <3>2, FirstChar
  <2>3. ~At(text, i, BlockComment)
    BY <2>2, FirstChar, WordFacts DEF Word
  <2>9. text[i] \notin Quotes
    BY <2>2, QuoteFacts
  <2>4. c = [open |-> LineComment, close |-> <<"n">>]
    BY <1>1, <2>3, <2>9 DEF Opens
  <2>5. c.open = LineComment /\ c.close = <<"n">>
    BY <2>4
  <2> HIDE DEF c
  <2>6. Word(c.close, 1, "n") /\ Len(c.close) = 1
    BY <2>5, WordFacts
  <2>7. ContextFits(text, i, c)
    BY <2>1, <2>2, <2>5, <2>6 DEF ContextFits, Word
  <2>8. c.close[1] \notin Quotes /\ text[i] \notin Quotes
    BY <2>2, <2>6, QuoteFacts DEF Word
  <2> QED
    BY <1>1, <2>1, <2>5, <2>6, <2>7, <2>8 DEF c, Word
<1>2. CASE At(text, i, BlockComment)
  <2>1. BlockComment \in Seq(Chars) /\ BlockComment # <<>> /\ BlockComment[1] = "/"
    BY WordFacts DEF Word
  <2>2. text[i] = "/" /\ Len(BlockComment) \in 1 .. Len(text) + 1 - i
    <3>1. Len(BlockComment) = 2 /\ Len(text) \in Nat
      BY DEF BlockComment
    <3>2. i + Len(BlockComment) - 1 <= Len(text)
      BY <1>2 DEF At
    <3> QED
      BY <1>2, <2>1, <3>1, <3>2, FirstChar
  <2>3. ~At(text, i, LineComment) /\ BlockComment # LineComment
    BY <2>1, <2>2, FirstChar, WordFacts DEF Word
  <2>9. text[i] \notin Quotes
    BY <2>2, QuoteFacts
  <2>4. c = [open |-> BlockComment, close |-> <<"*", "/">>]
    BY <1>2, <2>3, <2>9 DEF Opens
  <2>5. c.open = BlockComment /\ c.close = <<"*", "/">>
    BY <2>4
  <2> HIDE DEF c
  <2>6. Word(c.close, 2, "*") /\ Len(c.close) = 2
    BY <2>5, WordFacts
  <2>7. ContextFits(text, i, c)
    BY <2>1, <2>2, <2>5, <2>6 DEF ContextFits, Word
  <2>8. c.close[1] \notin Quotes /\ text[i] \notin Quotes
    BY <2>2, <2>6, QuoteFacts DEF Word
  <2> QED
    BY <2>1, <2>3, <2>5, <2>6, <2>7, <2>8 DEF c, Word
<1>3. CASE text[i] \in Quotes
  <2>1. ~At(text, i, LineComment) /\ ~At(text, i, BlockComment)
    BY <1>3, FirstChar, WordFacts, QuoteFacts DEF Word
  <2>2. c = [open |-> <<text[i]>>, close |-> <<text[i]>>]
    BY <1>3, <2>1 DEF Opens
  <2>3. c.open = <<text[i]>> /\ c.close = <<text[i]>>
    BY <2>2
  <2>4. Word(<<text[i]>>, 1, text[i])
    BY <1>3, WordFacts
  <2> HIDE DEF c
  <2>5. Word(c.open, 1, text[i]) /\ Word(c.close, 1, text[i]) /\ Len(c.open) = 1
    BY <2>3, <2>4
  <2>6. 1 \in 1 .. Len(text) + 1 - i
    OBVIOUS
  <2>9. text[i] # ";"
    BY <1>3, QuoteFacts
  <2>7. ContextFits(text, i, c)
    <3>1. Len(c.close) = 1
      BY <2>5 DEF Word
    <3>2. c.open \in Seq(Chars) /\ c.close \in Seq(Chars) /\ c.close # <<>>
      BY <2>5 DEF Word
    <3>3. Len(c.open) \in 1 .. Len(text) + 1 - i /\ Len(c.close) \in Nat \ {0}
      BY <2>5, <2>6, <3>1
    <3> QED
      BY <2>9, <3>2, <3>3 DEF ContextFits
  <2>8. c.open # LineComment
    BY <1>3, <2>5, WordFacts, QuoteFacts DEF Word
  <2> QED
    BY <2>1, <2>3, <2>5, <2>7, <2>8 DEF c, Word
<1>4. CASE /\ ~At(text, i, LineComment) /\ ~At(text, i, BlockComment)
           /\ text[i] \notin Quotes
  <2>1. c = [open |-> DollarTag(text, i), close |-> DollarTag(text, i)]
    BY <1>4 DEF Opens
  <2>2. c.open = DollarTag(text, i) /\ c.close = DollarTag(text, i)
    BY <2>1
  <2> HIDE DEF c
  <2>3. CASE DollarTag(text, i) = <<>>
    <3>1. c.open # LineComment
      BY <2>2, <2>3, WordFacts DEF Word
    <3>2. <<>> \in Seq(Chars)
      OBVIOUS
    <3> QED
      BY <1>4, <2>2, <2>3, <3>1, <3>2 DEF c
  <2>4. CASE DollarTag(text, i) # <<>>
    <3>1. ContextFits(text, i, c)
      <4>1. /\ DollarTag(text, i) \in Seq(Chars)
            /\ Len(DollarTag(text, i)) \in 2 .. Len(text) + 1 - i
            /\ text[i] = "$"
        BY <2>4, TagFacts
      <4>2. /\ Len(DollarTag(text, i)) \in 1 .. Len(text) + 1 - i
            /\ Len(DollarTag(text, i)) \in Nat \ {0}
        BY <4>1
      <4> QED
        BY <2>2, <2>4, <4>1, <4>2 DEF ContextFits
    <3>2. c.close[1] = "$" /\ c.open[1] = "$"
      BY <2>2, <2>4, TagFacts
    <3>3. c.open # LineComment /\ c.close[1] \notin Quotes
      BY <3>2, WordFacts, QuoteFacts DEF Word
    <3> QED
      BY <1>4, <2>2, <2>4, <3>1, <3>3 DEF c, ContextFits
  <2> QED
    BY <2>3, <2>4
<1> QED
  BY <1>1, <1>2, <1>3, <1>4

\* A turn of the loop goes on in the text.
LEMMA AdvanceFacts ==
    ASSUME NEW text \in Seq(Chars), NEW s \in States, s.at <= Len(text)
    PROVE  Advance(text, s) \in States /\ Advance(text, s).at > s.at
<1>1. s.at \in 1 .. Len(text) /\ s.close \in Seq(Chars) /\ s = [at |-> s.at, close |-> s.close]
  BY DEF States
<1>2. CASE s.close = <<>> /\ Opens(text, s.at).open = <<>>
  <2>1. Advance(text, s) = [s EXCEPT !.at = @ + 1]
    BY <1>2 DEF Advance
  <2> QED
    BY <1>1, <2>1 DEF States
<1>3. CASE s.close = <<>> /\ Opens(text, s.at).open # <<>>
  <2>1. Advance(text, s) = [at |-> s.at + Len(Opens(text, s.at).open),
                            close |-> Opens(text, s.at).close]
    BY <1>3 DEF Advance
  <2>2. ContextFits(text, s.at, Opens(text, s.at))
    BY <1>1, <1>3, OpensFacts
  <2>3. /\ s.at + Len(Opens(text, s.at).open) \in Nat \ {0}
        /\ s.at + Len(Opens(text, s.at).open) > s.at
        /\ Opens(text, s.at).close \in Seq(Chars)
    <3>1. Len(Opens(text, s.at).open) \in 1 .. Len(text) + 1 - s.at
      BY <2>2 DEF ContextFits
    <3>2. Len(Opens(text, s.at).open) \in Nat \ {0}
      BY <3>1
    <3> DEFINE n == Len(Opens(text, s.at).open)
    <3>3. s.at \in Nat \ {0}
      BY <1>1
    <3> HIDE DEF n
    <3>4. s.at + n \in Nat \ {0} /\ s.at + n > s.at
      BY <3>2, <3>3 DEF n
    <3> QED
      BY <2>2, <3>4 DEF ContextFits, n
  <2> QED
    BY <2>1, <2>3 DEF States
<1>4. CASE s.close # <<>>
  <2>1. Len(s.close) \in Nat \ {0} /\ <<>> \in Seq(Chars)
    BY <1>1, <1>4
  <2>2. Advance(text, s) \in {[s EXCEPT !.at = @ + 2], [s EXCEPT !.at = @ + 1],
                              [at |-> s.at + Len(s.close), close |-> <<>>]}
    BY <1>4 DEF Advance
  <2>3. \A n \in {1, 2} : [s EXCEPT !.at = @ + n] = [at |-> s.at + n, close |-> s.close]
    BY <1>1
  <2>4. \A n \in {1, 2} : s.at + n \in Nat \ {0} /\ s.at + n > s.at
    BY <1>1
  <2>5. s.at + Len(s.close) \in Nat \ {0} /\ s.at + Len(s.close) > s.at
    BY <1>1, <2>1
  <2>6. CASE Advance(text, s) = [s EXCEPT !.at = @ + 2]
    BY <1>1, <2>3, <2>4, <2>6 DEF States
  <2>7. CASE Advance(text, s) = [s EXCEPT !.at = @ + 1]
    BY <1>1, <2>3, <2>4, <2>7 DEF States
  <2>8. CASE Advance(text, s) = [at |-> s.at + Len(s.close), close |-> <<>>]
    BY <2>1, <2>5, <2>8 DEF States
  <2> QED
    BY <2>2, <2>6, <2>7, <2>8
<1> QED
  BY <1>2, <1>3, <1>4

\* The recursive function of Cuts.
IsScan(text, f) ==
    f = [s \in States |->
            IF s.at > Len(text) THEN {}
            ELSE (IF s.close = <<>> /\ text[s.at] = ";" THEN {s.at} ELSE {})
                 \cup f[Advance(text, s)]]

LEMMA CutsScan ==
    ASSUME NEW text \in Seq(Chars)
    PROVE  \E f : IsScan(text, f) /\ Cuts(text) = f[[at |-> 1, close |-> <<>>]]
<1> DEFINE rank == [s \in States |-> s.at]
           last == {s \in States : s.at > Len(text)}
           finds == [s \in States |-> IF s.close = <<>> /\ text[s.at] = ";" THEN {s.at} ELSE {}]
           next == [s \in States |-> Advance(text, s)]
<1>1. \A s \in States : s.at \in Nat /\ s.close \in Seq(Chars)
  BY DEF States
<1>3. \A s \in States : finds[s] \subseteq Nat
  BY <1>1
<1>2. \A s \in States \ last : next[s] \in States /\ rank[next[s]] > rank[s]
  <2> TAKE s \in States \ last
  <2>1. s.at <= Len(text)
    BY DEF States
  <2> QED
    BY <2>1, AdvanceFacts
<1>4. \E f \in [States -> SUBSET Nat] :
          \A s \in States : f[s] = Collected(s, f, last, finds, next)
  <2>1. /\ Len(text) \in Nat
        /\ \A s \in States : rank[s] \in Nat
        /\ \A s \in States : rank[s] > Len(text) => s \in last
    BY <1>1
  <2> HIDE DEF rank, last, finds, next
  <2>2. GoesUp(States, Len(text), rank, last, finds, next)
    BY <1>2, <1>3, <2>1 DEF GoesUp
  <2> QED
    BY <2>2, CollectionExists
<1>5. PICK f \in [States -> SUBSET Nat] :
          \A s \in States : f[s] = Collected(s, f, last, finds, next)
  BY <1>4
<1>6. \A s \in States : f[s] =
            IF s.at > Len(text) THEN {}
            ELSE (IF s.close = <<>> /\ text[s.at] = ";" THEN {s.at} ELSE {})
                 \cup f[Advance(text, s)]
  BY <1>5 DEF Collected
<1>7. IsScan(text, f)
  <2>1. f = [s \in States |-> f[s]]
    OBVIOUS
  <2> QED
    BY <1>6, <2>1, Zenon DEF IsScan
<1> DEFINE g == CHOOSE h : IsScan(text, h)
<1>8. IsScan(text, g)
  BY <1>7
<1>9. Cuts(text) = g[[at |-> 1, close |-> <<>>]]
  BY DEF Cuts, IsScan
<1> HIDE DEF g
<1> QED
  BY <1>8, <1>9

\* What the scan finds from a position, in no context and in the one that `close` ends.
Outside(f, i) == f[[at |-> i, close |-> <<>>]]
Inside(f, i, close) == f[[at |-> i, close |-> close]]

Semicolon(text, i) == IF text[i] = ";" THEN {i} ELSE {}

LEMMA ScanStep ==
    ASSUME NEW text \in Seq(Chars), NEW f, IsScan(text, f),
           NEW i \in Nat \ {0}, NEW close \in Seq(Chars)
    PROVE  /\ i > Len(text) => Inside(f, i, close) = {}
           /\ i <= Len(text) =>
                Inside(f, i, close) = (IF close = <<>> /\ text[i] = ";" THEN {i} ELSE {})
                                      \cup f[Advance(text, [at |-> i, close |-> close])]
<1>1. [at |-> i, close |-> close] \in States
  BY DEF States
<1>2. Len(text) \in Nat
  OBVIOUS
<1> DEFINE s == [at |-> i, close |-> close]
<1>3. /\ s.at = i /\ s.close = close /\ Inside(f, i, close) = f[s]
  BY DEF Inside
<1>4. f[s] = IF s.at > Len(text) THEN {}
             ELSE (IF s.close = <<>> /\ text[s.at] = ";" THEN {s.at} ELSE {})
                  \cup f[Advance(text, s)]
  BY <1>1 DEF IsScan
<1> HIDE DEF s
<1>5. i > Len(text) => Inside(f, i, close) = {}
  BY <1>3, <1>4
<1>6. i <= Len(text) =>
        Inside(f, i, close) = (IF close = <<>> /\ text[i] = ";" THEN {i} ELSE {})
                              \cup f[Advance(text, s)]
  <2>1. f[s] = IF i > Len(text) THEN {}
               ELSE (IF close = <<>> /\ text[i] = ";" THEN {i} ELSE {}) \cup f[Advance(text, s)]
    BY <1>3, <1>4, Zenon
  <2>2. i <= Len(text) => ~(i > Len(text))
    BY <1>2
  <2> QED
    BY <1>3, <2>1, <2>2, Zenon
<1> QED
  BY <1>5, <1>6 DEF s

\* Outside a context the scan goes on behind a character or behind what opens one.
LEMMA ScanOutside ==
    ASSUME NEW text \in Seq(Chars), NEW f, IsScan(text, f), NEW i \in 1 .. Len(text)
    PROVE  /\ Opens(text, i).open = <<>> =>
                Outside(f, i) = Semicolon(text, i) \cup Outside(f, i + 1)
           /\ Opens(text, i).open # <<>> =>
                Outside(f, i) = Inside(f, i + Len(Opens(text, i).open), Opens(text, i).close)
<1> DEFINE s == [at |-> i, close |-> <<>>]
<1>1. /\ <<>> \in Seq(Chars) /\ i \in Nat \ {0} /\ i <= Len(text)
      /\ Outside(f, i) = Inside(f, i, <<>>) /\ Outside(f, i + 1) = Inside(f, i + 1, <<>>)
  BY DEF Outside, Inside
<1>2. Outside(f, i) = Semicolon(text, i) \cup f[Advance(text, s)]
  <2>1. Inside(f, i, <<>>) = (IF <<>> = <<>> /\ text[i] = ";" THEN {i} ELSE {})
                             \cup f[Advance(text, s)]
    BY <1>1, ScanStep
  <2> HIDE DEF s
  <2> QED
    BY <1>1, <2>1 DEF Semicolon
<1>3. CASE Opens(text, i).open = <<>>
  <2>1. Advance(text, s) = [at |-> i + 1, close |-> <<>>]
    BY <1>3 DEF Advance
  <2> HIDE DEF s
  <2> QED
    BY <1>2, <1>3, <2>1 DEF Outside
<1>4. CASE Opens(text, i).open # <<>>
  <2>1. Advance(text, s) = [at |-> i + Len(Opens(text, i).open), close |-> Opens(text, i).close]
    BY <1>4 DEF Advance
  <2>2. text[i] # ";"
    BY <1>4, OpensFacts DEF ContextFits
  <2>3. Semicolon(text, i) = {}
    BY <2>2 DEF Semicolon
  <2> HIDE DEF s
  <2> QED
    BY <1>2, <1>4, <2>1, <2>3 DEF Inside
<1> QED
  BY <1>3, <1>4

\* A word that closes a context: if it is a quote then it opens one as well.
Closing(text, close) ==
    /\ close \in Seq(Chars) /\ close # <<>>
    /\ close[1] \in Quotes => close = <<close[1]>>

\* Inside a context the scan goes on outside it where the context is closed first.
LEMMA ScanInside ==
    ASSUME NEW text \in Seq(Chars), NEW f, IsScan(text, f), NEW i \in Nat \ {0},
           NEW close, Closing(text, close)
    PROVE  /\ i > Len(text) => Inside(f, i, close) = {}
           /\ i <= Len(text) /\ At(text, i, close) =>
                Inside(f, i, close) = Outside(f, i + Len(close))
           /\ i <= Len(text) /\ ~At(text, i, close) =>
                Inside(f, i, close) = Inside(f, i + 1, close)
<1> DEFINE s == [at |-> i, close |-> close]
<1>1. close \in Seq(Chars) /\ close # <<>>
  BY DEF Closing
<1>2. i <= Len(text) => Inside(f, i, close) = f[Advance(text, s)]
  <2>1. i <= Len(text) =>
            Inside(f, i, close) = (IF close = <<>> /\ text[i] = ";" THEN {i} ELSE {})
                                  \cup f[Advance(text, s)]
    BY <1>1, ScanStep
  <2> HIDE DEF s
  <2> QED
    BY <1>1, <2>1
<1>3. i > Len(text) => Inside(f, i, close) = {}
  BY <1>1, ScanStep
<1>4. ASSUME i <= Len(text), ~At(text, i, close)
      PROVE  Inside(f, i, close) = Inside(f, i + 1, close)
  <2>1. Advance(text, s) = [at |-> i + 1, close |-> close]
    BY <1>1, <1>4 DEF Advance, Doubled, Ends
  <2> HIDE DEF s
  <2> QED
    BY <1>2, <1>4, <2>1 DEF Inside
<1>5. ASSUME i <= Len(text), At(text, i, close), ~Doubled(text, i, close)
      PROVE  Inside(f, i, close) = Outside(f, i + Len(close))
  <2>1. Advance(text, s) = [at |-> i + Len(close), close |-> <<>>]
    BY <1>1, <1>5 DEF Advance, Ends
  <2> HIDE DEF s
  <2> QED
    BY <1>2, <1>5, <2>1 DEF Outside
<1>6. ASSUME i <= Len(text), Doubled(text, i, close)
      PROVE  Inside(f, i, close) = Outside(f, i + Len(close))
  <2>1. Advance(text, s) = [at |-> i + 2, close |-> close]
    BY <1>1, <1>6 DEF Advance
  <2>2. Inside(f, i, close) = Inside(f, i + 2, close)
    <3> HIDE DEF s
    <3> QED
      BY <1>2, <1>6, <2>1 DEF Inside
  <2>3. PICK q \in Quotes : close = <<q>>
    BY <1>6 DEF Doubled, Closing
  <2>4. Word(close, 1, q)
    BY <2>3, WordFacts
  <2>10. Len(close) = 1
    BY <2>3
  <2>5. At(text, i + 1, close)
    BY <1>6 DEF Doubled
  <2>6. i + 1 \in 1 .. Len(text)
    BY <1>6, <2>10, <2>5 DEF At
  <2>7. text[i + 1] = q
    BY <2>4, <2>5, <2>6, FirstChar DEF Word
  <2>8. Opens(text, i + 1).open = close /\ Opens(text, i + 1).close = close
    BY <2>3, <2>6, <2>7, OpensFacts
  <2>9. Outside(f, i + 1) = Inside(f, i + 1 + Len(close), close)
    <3>1. Opens(text, i + 1).open # <<>>
      BY <1>1, <2>8
    <3>2. Outside(f, i + 1) = Inside(f, i + 1 + Len(Opens(text, i + 1).open),
                                     Opens(text, i + 1).close)
      BY <2>6, <3>1, ScanOutside
    <3> QED
      BY <2>8, <3>2
  <2>11. i + 1 + Len(close) = i + 2 /\ i + Len(close) = i + 1
    BY <2>10
  <2> QED
    BY <2>2, <2>9, <2>11
<1> QED
  BY <1>3, <1>4, <1>5, <1>6

LEMMA MinFacts ==
    ASSUME NEW T \in SUBSET Nat, T # {}
    PROVE  /\ Min(T) \in T
           /\ \A y \in T : Min(T) <= y
<1>1. \E x \in T : \A y \in T : x <= y
  BY Least
<1> QED
  BY <1>1 DEF Min

\* Where a context is closed that is open at p: the first place, if there is one.
Closings(text, p, close) == {j \in p .. Len(text) : At(text, j, close)}
Closed(text, p, close, f) ==
    IF Closings(text, p, close) = {} THEN {}
    ELSE Outside(f, Min(Closings(text, p, close)) + Len(close))

LEMMA ScanCloses ==
    ASSUME NEW text \in Seq(Chars), NEW f, IsScan(text, f),
           NEW close, Closing(text, close), NEW p \in 1 .. Len(text) + 1
    PROVE  Inside(f, p, close) = Closed(text, p, close, f)
<1> DEFINE N == Len(text) + 1
           T == {x \in 0 .. N : x # 0 /\ Inside(f, x, close) # Closed(text, x, close, f)}
<1>1. T = {}
  <2> SUFFICES ASSUME T # {} PROVE FALSE
    OBVIOUS
  <2>0. Len(text) \in Nat /\ N \in Nat
    OBVIOUS
  <2>1. PICK x \in T : \A y \in T : y <= x
    <3>1. T \in SUBSET (0 .. N)
      OBVIOUS
    <3> HIDE DEF T, N
    <3> QED
      BY <2>0, <3>1, Greatest
  <2>2. x \in Nat \ {0} /\ x <= Len(text) + 1 /\ Inside(f, x, close) # Closed(text, x, close, f)
    BY <2>0
  <2>3. CASE x > Len(text)
    <3>1. Closings(text, x, close) = {}
      BY <2>2, <2>3, <2>0 DEF Closings
    <3> QED
      BY <2>2, <2>3, <3>1, ScanInside DEF Closed
  <2>4. CASE x <= Len(text) /\ At(text, x, close)
    <3>1. /\ x \in Closings(text, x, close) /\ Closings(text, x, close) \in SUBSET Nat
          /\ \A y \in Closings(text, x, close) : x <= y
      BY <2>0, <2>2, <2>4 DEF Closings
    <3>2. Min(Closings(text, x, close)) = x
      <4>1. Min(Closings(text, x, close)) \in Closings(text, x, close)
            /\ Min(Closings(text, x, close)) <= x
        BY <3>1, MinFacts
      <4> QED
        BY <2>2, <3>1, <4>1
    <3>3. Inside(f, x, close) = Outside(f, x + Len(close))
      BY <2>2, <2>4, ScanInside
    <3> QED
      BY <2>2, <3>1, <3>2, <3>3 DEF Closed
  <2>5. CASE x <= Len(text) /\ ~At(text, x, close)
    <3>1. Closings(text, x, close) = Closings(text, x + 1, close)
      BY <2>0, <2>2, <2>5 DEF Closings
    <3>2. Inside(f, x, close) = Inside(f, x + 1, close)
      BY <2>2, <2>5, ScanInside
    <3>3. x + 1 \notin T
      <4>1. ~(x + 1 <= x)
        BY <2>2
      <4> HIDE DEF T
      <4> QED
        BY <2>1, <4>1
    <3>4. x + 1 \in 0 .. N /\ x + 1 # 0
      BY <2>0, <2>2, <2>5
    <3>5. Inside(f, x + 1, close) = Closed(text, x + 1, close, f)
      BY <3>3, <3>4
    <3> QED
      BY <2>2, <3>1, <3>2, <3>5 DEF Closed
  <2> QED
    BY <2>0, <2>2, <2>3, <2>4, <2>5
<1>2. p \in 0 .. N /\ p # 0
  OBVIOUS
<1> QED
  BY <1>1, <1>2

\* Past finds the first place where a word is found.
LEMMA PastFacts ==
    ASSUME NEW text \in Seq(Chars), NEW word \in Seq(Chars), word # <<>>,
           NEW p \in 1 .. Len(text) + 1
    PROVE  LET E == Closings(text, p, word) IN
           /\ Past(text, p, word) \in p .. Len(text) + 1
           /\ E = {} => Past(text, p, word) = Len(text) + 1
           /\ E # {} => Past(text, p, word) = Min(E) + Len(word)
<1> DEFINE E == Closings(text, p, word)
<1>0. p \in Nat \ {0} /\ Len(text) \in Nat /\ Len(word) \in Nat \ {0}
  OBVIOUS
<1>1. Past(text, p, word) = IF E = {} THEN Len(text) + 1 ELSE Min(E) + Len(word)
  BY DEF Past, Closings
<1>2. CASE E = {}
  BY <1>0, <1>1, <1>2
<1>3. CASE E # {}
  <2>1. E \in SUBSET Nat
    BY <1>0 DEF Closings
  <2> HIDE DEF E
  <2>2. Min(E) \in E
    BY <1>3, <2>1, MinFacts
  <2>3. PICK k \in p .. Len(text) : k = Min(E) /\ At(text, k, word)
    BY <2>2 DEF E, Closings
  <2>4. PICK l \in Nat \ {0} : l = Len(word)
    BY <1>0
  <2>5. k + l - 1 <= Len(text)
    BY <2>3, <2>4 DEF At
  <2>6. k + l \in p .. Len(text) + 1
    BY <1>0, <2>3, <2>4, <2>5
  <2> QED
    BY <1>1, <1>3, <2>3, <2>4, <2>6 DEF E
<1> QED
  BY <1>2, <1>3

\* The scan leaves a context behind the first word that closes it.
LEMMA ScanPast ==
    ASSUME NEW text \in Seq(Chars), NEW f, IsScan(text, f),
           NEW close, Closing(text, close), NEW p \in 1 .. Len(text) + 1
    PROVE  Inside(f, p, close) = Outside(f, Past(text, p, close))
<1> DEFINE E == Closings(text, p, close)
<1>0. close \in Seq(Chars) /\ close # <<>> /\ Len(text) \in Nat /\ Len(close) \in Nat
  BY DEF Closing
<1>1. Inside(f, p, close) = Closed(text, p, close, f)
  BY ScanCloses
<1>2. CASE E = {}
  <2>1. Past(text, p, close) = Len(text) + 1 /\ Closed(text, p, close, f) = {}
    BY <1>0, <1>2, PastFacts DEF Closed
  <2>2. Inside(f, Len(text) + 1, <<>>) = {}
    <3>1. Len(text) + 1 \in Nat \ {0} /\ Len(text) + 1 > Len(text) /\ <<>> \in Seq(Chars)
      BY <1>0
    <3> QED
      BY <3>1, ScanStep
  <2>3. Outside(f, Len(text) + 1) = {}
    BY <2>2 DEF Outside, Inside
  <2> QED
    BY <1>1, <2>1, <2>3
<1>3. CASE E # {}
  <2>1. Past(text, p, close) = Min(E) + Len(close)
    BY <1>0, <1>3, PastFacts
  <2>2. Closed(text, p, close, f) = Outside(f, Min(E) + Len(close))
    BY <1>3 DEF Closed
  <2> QED
    BY <1>1, <2>1, <2>2
<1> QED
  BY <1>2, <1>3

\* So where a context opens the scan goes on behind its end.
LEMMA ContextFollows ==
    ASSUME NEW text \in Seq(Chars), NEW f, IsScan(text, f), NEW i \in 1 .. Len(text),
           Opens(text, i).open # <<>>
    PROVE  LET c == Opens(text, i) IN
           Outside(f, i) = Semicolon(text, i) \cup Outside(f, Past(text, i + Len(c.open), c.close))
<1> DEFINE c == Opens(text, i)
<1>1. ContextFits(text, i, c) /\ Closing(text, c.close)
  BY OpensFacts DEF Closing, ContextFits
<1>2. Len(c.open) \in 1 .. Len(text) + 1 - i /\ text[i] # ";"
  BY <1>1 DEF ContextFits
<1>3. i + Len(c.open) \in 1 .. Len(text) + 1
  <2>1. PICK l \in 1 .. Len(text) + 1 - i : l = Len(c.open)
    BY <1>2
  <2>2. i + l \in 1 .. Len(text) + 1
    OBVIOUS
  <2> QED
    BY <2>1, <2>2
<1>4. Outside(f, i) = Inside(f, i + Len(c.open), c.close)
  BY ScanOutside
<1>5. Inside(f, i + Len(c.open), c.close) = Outside(f, Past(text, i + Len(c.open), c.close))
  BY <1>1, <1>3, ScanPast
<1> QED
  BY <1>2, <1>4, <1>5 DEF Semicolon

\* A delimiter begins and ends within the text.
LEMMA DelimiterFacts ==
    ASSUME NEW text \in Seq(Chars), NEW i \in 1 .. Len(text), Delimiter(text, i) # <<>>
    PROVE  /\ Delimiter(text, i) \in Seq(Chars)
           /\ Len(Delimiter(text, i)) \in 2 .. Len(text) + 1 - i
           /\ text[i] = "$"
<1> DEFINE ends == {j \in i+1..Len(text) :
                    /\ text[i] = "$" /\ text[j] = "$"
                    /\ \A k \in i+1..j-1 : text[k] \in Letters \cup Digits
                    /\ text[i+1] \notin Digits}
<1>1. ends # {} /\ Delimiter(text, i) = SubSeq(text, i, Min(ends))
  BY DEF Delimiter
<1>2. ends \in SUBSET Nat
  OBVIOUS
<1>3. Min(ends) \in ends
  <2> HIDE DEF ends
  <2> QED
    BY <1>1, <1>2, MinFacts
<1>4. PICK e \in i + 1 .. Len(text) : e = Min(ends) /\ text[i] = "$"
  BY <1>3
<1>5. Delimiter(text, i) = SubSeq(text, i, e)
  BY <1>1, <1>4
<1>6. SubSeq(text, i, e) \in Seq(Chars) /\ Len(SubSeq(text, i, e)) = e + 1 - i
  OBVIOUS
<1>7. Len(SubSeq(text, i, e)) \in 2 .. Len(text) + 1 - i
  BY <1>4, <1>6
<1> HIDE DEF ends
<1> QED
  BY <1>4, <1>5, <1>6, <1>7

\* A name ends where a character follows that no name holds.
LEMMA NameFacts ==
    ASSUME NEW text \in Seq(Chars), NEW i \in 1 .. Len(text)
    PROVE  /\ NameEnd(text, i) \in i + 1 .. Len(text) + 1
           /\ \A k \in i + 1 .. NameEnd(text, i) - 1 :
                  text[k] \in Letters \cup Digits \cup {"$"}
<1> DEFINE Name == Letters \cup Digits \cup {"$"}
           E == {j \in i+1..Len(text)+1 : j <= Len(text) => text[j] \notin Name}
<1>0. i \in Nat /\ Len(text) \in Nat /\ i <= Len(text)
  OBVIOUS
<1>1. NameEnd(text, i) = Min(E)
  BY DEF NameEnd
<1> HIDE DEF Name
<1>2. E \in SUBSET Nat /\ Len(text) + 1 \in E
  BY <1>0
<1>3. Min(E) \in E /\ \A y \in E : Min(E) <= y
  <2> HIDE DEF E
  <2> QED
    BY <1>2, MinFacts
<1>4. PICK e \in i + 1 .. Len(text) + 1 : e = Min(E)
  BY <1>3
<1>5. ASSUME NEW k \in i + 1 .. e - 1 PROVE text[k] \in Name
  <2>1. k \in i + 1 .. Len(text) + 1 /\ k <= Len(text) /\ ~(e <= k)
    BY <1>0, <1>4
  <2>2. k \notin E
    <3> HIDE DEF E
    <3> QED
      BY <1>3, <1>4, <2>1
  <2> QED
    BY <2>1, <2>2
<1> QED
  BY <1>1, <1>4, <1>5 DEF Name


LEMMA FirstChars ==
    ASSUME NEW text \in Seq(Chars), NEW i \in 1 .. Len(text)
    PROVE  /\ At(text, i, LineComment) => text[i] = "-"
           /\ At(text, i, BlockComment) => text[i] = "/"
           /\ text[i] \in Quotes => text[i] \notin {"-", "/", "$", "n", " ", ";"} \cup Letters
  BY FirstChar, WordFacts, QuoteFacts DEF Word, Letters

LEMMA AfterCases ==
    ASSUME NEW text \in Seq(Chars), NEW i \in 1 .. Len(text)
    PROVE  LET d == Delimiter(text, i) IN
           /\ At(text, i, LineComment) => After(text, i) = Past(text, i + 2, <<"n">>)
           /\ At(text, i, BlockComment) => After(text, i) = Past(text, i + 2, <<"*", "/">>)
           /\ text[i] \in Quotes => After(text, i) = Past(text, i + 1, <<text[i]>>)
           /\ text[i] \in Letters => After(text, i) = NameEnd(text, i)
           /\ d # <<>> => After(text, i) = Past(text, i + Len(d), d)
           /\ \/ At(text, i, LineComment) \/ At(text, i, BlockComment)
              \/ text[i] \in Quotes \/ text[i] \in Letters \/ d # <<>>
              \/ After(text, i) = i + 1
<1> DEFINE lc == At(text, i, LineComment)
           bc == At(text, i, BlockComment)
           qu == text[i] \in Quotes
           na == text[i] \in Letters
           de == Delimiter(text, i) # <<>>
<1>1. /\ lc => ~bc /\ ~qu /\ ~na /\ ~de
      /\ bc => ~qu /\ ~na /\ ~de
      /\ qu => ~na /\ ~de
      /\ na => ~de
  <2>1. /\ lc => text[i] = "-"
        /\ bc => text[i] = "/"
        /\ qu => text[i] \notin {"-", "/", "$"} \cup Letters
        /\ de => text[i] = "$"
    BY FirstChars, DelimiterFacts
  <2>2. "-" \notin Letters /\ "/" \notin Letters /\ "$" \notin Letters
    BY DEF Letters
  <2> HIDE DEF lc, bc, qu, na, de
  <2> QED
    BY <2>1, <2>2 DEF qu, na
<1>2. After(text, i) =
        CASE lc -> Past(text, i + 2, <<"n">>)
          [] bc -> Past(text, i + 2, <<"*", "/">>)
          [] qu -> Past(text, i + 1, <<text[i]>>)
          [] na -> NameEnd(text, i)
          [] de -> Past(text, i + Len(Delimiter(text, i)), Delimiter(text, i))
          [] OTHER -> i + 1
  BY DEF After
<1> HIDE DEF lc, bc, qu, na, de
<1>3. /\ lc => After(text, i) = Past(text, i + 2, <<"n">>)
      /\ bc => After(text, i) = Past(text, i + 2, <<"*", "/">>)
      /\ qu => After(text, i) = Past(text, i + 1, <<text[i]>>)
  BY <1>1, <1>2
<1>4. /\ na => After(text, i) = NameEnd(text, i)
      /\ de => After(text, i) = Past(text, i + Len(Delimiter(text, i)), Delimiter(text, i))
      /\ lc \/ bc \/ qu \/ na \/ de \/ After(text, i) = i + 1
  BY <1>1, <1>2
<1> QED
  BY <1>3, <1>4 DEF lc, bc, qu, na, de
\* A character of a name opens nothing, and neither does a blank or a semicolon.
LEMMA NothingOpens ==
    ASSUME NEW text \in Seq(Chars), NEW i \in 1 .. Len(text),
           ~At(text, i, LineComment), ~At(text, i, BlockComment), text[i] \notin Quotes,
           DollarTag(text, i) = <<>>
    PROVE  Opens(text, i).open = <<>>
BY DEF Opens

LEMMA NamesOpenNothing ==
    ASSUME NEW text \in Seq(Chars), NEW i \in 1 .. Len(text),
           text[i] \in Letters \cup Digits \cup Blanks \cup {";"}
    PROVE  /\ Opens(text, i).open = <<>>
           /\ text[i] \in Letters \cup Digits => text[i] # ";"
           /\ text[i] \in Blanks \cup {";"} => After(text, i) = i + 1
<1>1. text[i] \notin {"-", "/", "$"} /\ text[i] \notin Quotes
  <2>1. text[i] \notin {"-", "/", "$"}
    BY DEF Letters, Digits, Blanks
  <2>2. text[i] \notin Quotes
    BY QuoteFacts DEF Letters, Digits, Blanks
  <2> QED
    BY <2>1, <2>2
<1>2. ~At(text, i, LineComment) /\ ~At(text, i, BlockComment)
  BY <1>1, FirstChars
<1>3. DollarTag(text, i) = <<>> /\ Delimiter(text, i) = <<>>
  BY <1>1, TagFacts, DelimiterFacts
<1>4. text[i] \in Letters \cup Digits => text[i] # ";"
  BY DEF Letters, Digits
<1>5. text[i] \in Blanks \cup {";"} => text[i] \notin Letters
  BY DEF Letters, Blanks
<1>6. text[i] \notin Letters => After(text, i) = i + 1
  BY <1>1, <1>2, <1>3, AfterCases
<1> QED
  BY <1>1, <1>2, <1>3, <1>4, <1>5, <1>6, NothingOpens

\* Every token goes forward.
LEMMA AfterFacts ==
    ASSUME NEW text \in Seq(Chars), NEW i \in 1 .. Len(text)
    PROVE  After(text, i) \in i + 1 .. Len(text) + 1
<1> DEFINE N == Len(text) + 1
           d == Delimiter(text, i)
<1>0. i \in Nat \ {0} /\ Len(text) \in Nat /\ i <= Len(text) /\ N \in Nat
  OBVIOUS
<1>1. CASE At(text, i, LineComment) \/ At(text, i, BlockComment)
  <2>1. i + 2 \in 1 .. N
    <3>1. Len(LineComment) = 2 /\ Len(BlockComment) = 2
      BY WordFacts DEF Word
    <3> QED
      BY <1>0, <1>1, <3>1 DEF At
  <2>2. /\ Past(text, i + 2, <<"n">>) \in i + 2 .. N
        /\ Past(text, i + 2, <<"*", "/">>) \in i + 2 .. N
    BY <2>1, WordFacts, PastFacts DEF Word
  <2>3. After(text, i) \in {Past(text, i + 2, <<"n">>), Past(text, i + 2, <<"*", "/">>)}
    BY <1>1, AfterCases
  <2> QED
    BY <1>0, <2>2, <2>3
<1>2. CASE text[i] \in Quotes
  <2>1. i + 1 \in 1 .. N
    BY <1>0
  <2>2. Past(text, i + 1, <<text[i]>>) \in i + 1 .. N
    BY <1>2, <2>1, WordFacts, PastFacts DEF Word
  <2> QED
    BY <1>0, <1>2, <2>2, AfterCases
<1>3. CASE text[i] \in Letters
  BY <1>3, AfterCases, NameFacts
<1>4. CASE d # <<>>
  <2>1. d \in Seq(Chars) /\ Len(d) \in 2 .. Len(text) + 1 - i
    BY <1>4, DelimiterFacts
  <2> HIDE DEF d
  <2>2. PICK l \in 2 .. Len(text) + 1 - i : l = Len(d)
    BY <2>1
  <2>3. i + l \in 1 .. N /\ i + l >= i + 1
    BY <1>0
  <2>4. Past(text, i + l, d) \in i + l .. N
    BY <1>4, <2>1, <2>3, PastFacts
  <2>5. After(text, i) = Past(text, i + l, d)
    BY <1>4, <2>2, AfterCases DEF d
  <2> QED
    BY <1>0, <2>3, <2>4, <2>5
<1>5. i + 1 \in i + 1 .. N
  BY <1>0
<1>6. \/ At(text, i, LineComment) \/ At(text, i, BlockComment)
      \/ text[i] \in Quotes \/ text[i] \in Letters \/ d # <<>> \/ After(text, i) = i + 1
  BY AfterCases
<1> QED
  BY <1>1, <1>2, <1>3, <1>4, <1>5, <1>6
\* The recursive function of TopLevel.
IsTop(text, t) ==
    \A i \in 1 .. Len(text) + 1 :
        t[i] = IF i > Len(text) THEN {} ELSE {i} \cup t[After(text, i)]

LEMMA TopExists ==
    ASSUME NEW text \in Seq(Chars)
    PROVE  \E t : IsTop(text, t) /\ TopLevel(text) = t[1]
<1> DEFINE S == 1 .. Len(text) + 1
           rank == [i \in S |-> i]
           last == {i \in S : i > Len(text)}
           finds == [i \in S |-> {i}]
           next == [i \in S |-> After(text, i)]
           Body(t, i) == IF i > Len(text) THEN {} ELSE {i} \cup t[After(text, i)]
<1>0. Len(text) \in Nat /\ \A i \in S : i \in Nat
  OBVIOUS
<1>1. \A i \in S \ last : next[i] \in S /\ rank[next[i]] > rank[i]
  <2> TAKE i \in S \ last
  <2>1. i \in 1 .. Len(text)
    BY <1>0
  <2>2. After(text, i) \in i + 1 .. Len(text) + 1
    BY <2>1, AfterFacts
  <2>3. After(text, i) \in S /\ After(text, i) > i /\ i \in S
    BY <2>1, <2>2
  <2> QED
    BY <2>3
<1>2. GoesUp(S, Len(text), rank, last, finds, next)
  <2>1. /\ \A i \in S : rank[i] \in Nat
        /\ \A i \in S : rank[i] > Len(text) => i \in last
        /\ \A i \in S : finds[i] \subseteq Nat
    BY <1>0
  <2> HIDE DEF S, rank, last, finds, next
  <2> QED
    BY <1>0, <1>1, <2>1 DEF GoesUp
<1>3. \E t \in [S -> SUBSET Nat] : \A i \in S : t[i] = Collected(i, t, last, finds, next)
  <2> HIDE DEF S, rank, last, finds, next
  <2> QED
    BY <1>2, CollectionExists
<1>4. PICK t \in [S -> SUBSET Nat] : \A i \in S : t[i] = Collected(i, t, last, finds, next)
  BY <1>3
<1>5. \A i \in S : t[i] = Body(t, i)
  BY <1>4 DEF Collected
<1>6. t = [i \in S |-> Body(t, i)]
  <2>1. t = [i \in S |-> t[i]]
    OBVIOUS
  <2> HIDE DEF S, Body
  <2> QED
    BY <1>5, <2>1, Zenon
<1> DEFINE g == CHOOSE h : h = [i \in S |-> Body(h, i)]
<1>7. g = [i \in S |-> Body(g, i)]
  BY <1>6
<1>8. TopLevel(text) = g[1]
  BY DEF TopLevel
<1>9. \A i \in S : g[i] = Body(g, i)
  <2> HIDE DEF g, Body
  <2> QED
    BY <1>7
<1>10. IsTop(text, g)
  BY <1>9 DEF IsTop
<1> QED
  BY <1>8, <1>10

\* From x on: which positions are outside every context.
TopFrom(text, t, x) ==
    /\ t[x] \subseteq x .. Len(text)
    /\ x <= Len(text) => x \in t[x]
    /\ \A i \in t[x] : After(text, i) \in t[x] \cup {Len(text) + 1}
    /\ \A i, j \in t[x] : i < j => After(text, i) <= j
    /\ \A j \in x .. Len(text) : j \notin t[x] => \E i \in t[x] : i < j /\ j < After(text, i)

LEMMA TopFromAll ==
    ASSUME NEW text \in Seq(Chars), NEW t, IsTop(text, t), NEW i \in 1 .. Len(text) + 1
    PROVE  TopFrom(text, t, i)
<1> DEFINE N == Len(text) + 1
           T == {x \in 0 .. N : x # 0 /\ ~TopFrom(text, t, x)}
<1>1. T = {}
  <2> SUFFICES ASSUME T # {} PROVE FALSE
    OBVIOUS
  <2>0. Len(text) \in Nat /\ N \in Nat
    OBVIOUS
  <2>1. PICK x \in T : \A y \in T : y <= x
    <3>1. T \in SUBSET (0 .. N)
      OBVIOUS
    <3> HIDE DEF T, N
    <3> QED
      BY <2>0, <3>1, Greatest
  <2>2. x \in Nat \ {0} /\ x <= Len(text) + 1 /\ ~TopFrom(text, t, x)
    BY <2>0
  <2>3. x \in 1 .. Len(text) + 1
    BY <2>0, <2>2
  <2>4. CASE x > Len(text)
    <3>1. t[x] = {}
      BY <2>3, <2>4 DEF IsTop
    <3>2. x .. Len(text) = {} /\ ~(x <= Len(text))
      BY <2>0, <2>2, <2>4
    <3> QED
      BY <2>2, <3>1, <3>2 DEF TopFrom
  <2>5. CASE x <= Len(text)
    <3>1. x \in 1 .. Len(text) /\ ~(x > Len(text))
      BY <2>0, <2>2, <2>5
    <3> DEFINE a == After(text, x)
    <3>2. a \in x + 1 .. Len(text) + 1
      BY <3>1, AfterFacts
    <3>3. t[x] = {x} \cup t[a]
      BY <2>3, <3>1 DEF IsTop
    <3> HIDE DEF a
    <3>4. a \in 0 .. N /\ a # 0 /\ ~(a <= x)
      BY <2>0, <3>1, <3>2
    <3>5. TopFrom(text, t, a)
      <4>1. a \notin T
        <5> HIDE DEF T
        <5> QED
          BY <2>1, <3>4
      <4> QED
        BY <3>4, <4>1
    <3>6. t[a] \subseteq a .. Len(text)
      BY <3>5 DEF TopFrom
    <3>7. t[x] \subseteq x .. Len(text) /\ x \in t[x]
      <4>1. a .. Len(text) \subseteq x .. Len(text) /\ x \in x .. Len(text)
        BY <2>0, <3>1, <3>2
      <4> QED
        BY <3>3, <3>6, <4>1
    <3>8. ASSUME NEW k \in t[x] PROVE After(text, k) \in t[x] \cup {Len(text) + 1}
      <4>1. CASE k = x
        <5>1. CASE a <= Len(text)
          BY <3>3, <3>5, <4>1, <5>1 DEF a, TopFrom
        <5>2. CASE ~(a <= Len(text))
          BY <2>0, <3>2, <4>1, <5>2 DEF a
        <5> QED
          BY <5>1, <5>2
      <4>2. CASE k \in t[a]
        BY <3>3, <3>5, <4>2 DEF TopFrom
      <4> QED
        BY <3>3, <4>1, <4>2
    <3>9. ASSUME NEW k \in t[x], NEW j \in t[x], k < j PROVE After(text, k) <= j
      <4>1. k \in Nat /\ j \in Nat /\ x \in Nat
        BY <2>0, <2>2, <3>7
      <4>2. j \in t[a]
        <5>1. j # x
          BY <2>0, <2>2, <3>7, <3>9, <4>1
        <5> QED
          BY <3>3, <5>1
      <4>3. CASE k = x
        BY <2>0, <3>2, <3>6, <4>2, <4>3 DEF a
      <4>4. CASE k \in t[a]
        BY <3>5, <3>9, <4>2, <4>4 DEF TopFrom
      <4> QED
        BY <3>3, <4>3, <4>4
    <3>10. ASSUME NEW j \in x .. Len(text), j \notin t[x]
           PROVE  \E k \in t[x] : k < j /\ j < After(text, k)
      <4>1. j # x /\ j \notin t[a]
        BY <3>3, <3>10
      <4>2. CASE j < a
        <5>1. x < j
          BY <2>0, <2>2, <4>1
        <5> QED
          BY <3>7, <4>2, <5>1 DEF a
      <4>3. CASE ~(j < a)
        <5>1. j \in a .. Len(text)
          BY <2>0, <2>2, <3>2, <4>3
        <5>2. PICK k \in t[a] : k < j /\ j < After(text, k)
          BY <3>5, <4>1, <5>1 DEF TopFrom
        <5> QED
          BY <3>3, <5>2
      <4> QED
        BY <4>2, <4>3
    <3> QED
      BY <2>2, <3>7, <3>8, <3>9, <3>10 DEF TopFrom
  <2> QED
    BY <2>0, <2>2, <2>4, <2>5
<1>2. i \in 0 .. N /\ i # 0
  OBVIOUS
<1> QED
  BY <1>1, <1>2

\* The text is covered by positions outside every context and by what opens there.
LEMMA TopFacts ==
    ASSUME NEW text \in Seq(Chars)
    PROVE  LET T == TopLevel(text) IN
           /\ T \subseteq 1 .. Len(text)
           /\ 1 <= Len(text) => 1 \in T
           /\ \A i \in T : After(text, i) \in T \cup {Len(text) + 1}
           /\ \A i, j \in T : i < j => After(text, i) <= j
           /\ \A j \in 1 .. Len(text) : j \notin T => \E i \in T : i < j /\ j < After(text, i)
<1>1. PICK t : IsTop(text, t) /\ TopLevel(text) = t[1]
  BY TopExists
<1>2. 1 \in 1 .. Len(text) + 1
  OBVIOUS
<1>3. TopFrom(text, t, 1)
  BY <1>1, <1>2, TopFromAll
<1> QED
  BY <1>1, <1>3 DEF TopFrom

\* Without the constructs of Foreign a tag of split_sql is a delimiter.
LEMMA TagsAgree ==
    ASSUME NEW text \in Seq(Chars), ~Foreign(text), NEW i \in TopLevel(text)
    PROVE  DollarTag(text, i) = Delimiter(text, i)
<1>0. i \in 1 .. Len(text) /\ i \in Nat /\ Len(text) \in Nat
  BY TopFacts
<1>1. CASE text[i] # "$"
  BY <1>0, <1>1, TagFacts, DelimiterFacts
<1>2. CASE text[i] = "$"
  <2> DEFINE D == {j \in i+1..Len(text) :
                      /\ text[i] = "$" /\ text[j] = "$"
                      /\ \A k \in i+1..j-1 : text[k] \in TagChars}
             E == {j \in i+1..Len(text) :
                      /\ text[i] = "$" /\ text[j] = "$"
                      /\ \A k \in i+1..j-1 : text[k] \in Letters \cup Digits
                      /\ text[i+1] \notin Digits}
  <2>1. /\ DollarTag(text, i) = IF D = {} THEN <<>> ELSE SubSeq(text, i, Min(D))
        /\ Delimiter(text, i) = IF E = {} THEN <<>> ELSE SubSeq(text, i, Min(E))
    BY DEF DollarTag, Delimiter
  <2>2. TagChars \cup {"u"} = Letters \cup Digits
    BY DEF TagChars, Letters, Digits
  <2>3. i < Len(text) => text[i+1] \notin Digits
    BY <1>2 DEF Foreign, NumbersParameters
  <2>4. D \subseteq E
    BY <1>0, <1>2, <2>2, <2>3
  <2>5. D \in SUBSET Nat /\ E \in SUBSET Nat
    BY <1>0
  <2>6. ASSUME E # {} PROVE Min(E) \in D
    <3>1. Min(E) \in E
      <4> HIDE DEF E
      <4> QED
        BY <2>5, <2>6, MinFacts
    <3>2. PICK m \in i + 1 .. Len(text) :
              m = Min(E) /\ text[m] = "$" /\ \A k \in i+1..m-1 : text[k] \in Letters \cup Digits
      BY <3>1
    <3> HIDE DEF D, E
    <3>3. Delimiter(text, i) = SubSeq(text, i, m)
      BY <2>1, <2>6, <3>2
    <3>4. ASSUME NEW k \in i + 1 .. m - 1 PROVE text[k] \in TagChars
      <4>1. Len(SubSeq(text, i, m)) = m + 1 - i /\ SubSeq(text, i, m)[k + 1 - i] = text[k]
        BY <1>0
      <4>2. k + 1 - i \in 1 .. Len(text) /\ k + 1 - i <= m + 1 - i
        BY <1>0, <3>2
      <4>3. Delimiter(text, i)[k + 1 - i] # "u"
        BY <3>3, <4>1, <4>2 DEF Foreign, TagsNotAscii
      <4> QED
        BY <2>2, <3>2, <3>3, <4>1, <4>3
    <3> QED
      BY <1>2, <3>2, <3>4 DEF D
  <2> HIDE DEF D, E
  <2>7. ASSUME E # {} PROVE D # {} /\ Min(D) = Min(E)
    <3>1. Min(E) \in D
      BY <2>6, <2>7
    <3>2. /\ Min(D) \in D /\ \A y \in D : Min(D) <= y
          /\ \A y \in E : Min(E) <= y
      BY <2>5, <2>7, <3>1, MinFacts
    <3>3. Min(D) <= Min(E) /\ Min(E) <= Min(D)
      BY <2>4, <3>1, <3>2
    <3>4. Min(D) \in Nat /\ Min(E) \in Nat
      BY <2>5, <3>1, <3>2
    <3> QED
      BY <3>1, <3>3, <3>4
  <2> QED
    BY <2>1, <2>4, <2>7
<1> QED
  BY <1>1, <1>2

\* Over a name without a $ the scan goes on character by character.
LEMMA NameFollows ==
    ASSUME NEW text \in Seq(Chars), NEW f, IsScan(text, f), ~Foreign(text),
           NEW i \in TopLevel(text), text[i] \in Letters
    PROVE  Outside(f, i) = Outside(f, NameEnd(text, i))
<1> DEFINE e == NameEnd(text, i)
           T == {m \in 0 .. e : i <= m /\ Outside(f, i) = Outside(f, m)}
<1>0. i \in 1 .. Len(text) /\ i \in Nat /\ Len(text) \in Nat
  BY TopFacts
<1>1. e \in i + 1 .. Len(text) + 1 /\ e \in Nat
  BY <1>0, NameFacts
<1>2. ASSUME NEW m \in i .. e - 1 PROVE m \in 1 .. Len(text) /\ text[m] \in Letters \cup Digits
  <2>1. text[m] # "$"
    BY <1>0 DEF Foreign, NamesWithDollar
  <2>2. m # i => m \in i + 1 .. e - 1
    BY <1>0, <1>1
  <2>3. m # i => text[m] \in Letters \cup Digits \cup {"$"}
    BY <1>0, <2>2, NameFacts
  <2>4. m \in 1 .. Len(text)
    BY <1>0, <1>1
  <2> QED
    BY <2>1, <2>3, <2>4
<1>8. \A m \in 1 .. Len(text) : Opens(text, m).open = <<>> =>
          Outside(f, m) = Semicolon(text, m) \cup Outside(f, m + 1)
  BY ScanOutside
<1> HIDE DEF e
<1>3. ASSUME NEW m \in i .. e - 1 PROVE Outside(f, m) = Outside(f, m + 1)
  <2>1. Opens(text, m).open = <<>> /\ text[m] # ";" /\ m \in 1 .. Len(text)
    BY <1>2, NamesOpenNothing
  <2>2. Outside(f, m) = Semicolon(text, m) \cup Outside(f, m + 1)
    BY <1>8, <2>1
  <2> QED
    BY <2>1, <2>2 DEF Semicolon
<1>4. i \in T /\ T \in SUBSET (0 .. e)
  BY <1>0, <1>1
<1>5. PICK x \in T : \A y \in T : y <= x
  <2> HIDE DEF T
  <2> QED
    BY <1>1, <1>4, Greatest
<1>6. x = e
  <2> SUFFICES ASSUME x # e PROVE FALSE
    OBVIOUS
  <2>1. x \in Nat /\ x \in i .. e - 1 /\ x + 1 \in 0 .. e /\ i <= x + 1
    BY <1>0, <1>1
  <2>2. x + 1 \in T
    BY <1>3, <2>1
  <2>3. x + 1 <= x
    <3> HIDE DEF T
    <3> QED
      BY <1>5, <2>2
  <2> QED
    BY <2>1, <2>3
<1> QED
  BY <1>6 DEF e

\* So the scan goes on behind the token.
LEMMA ScanFollows ==
    ASSUME NEW text \in Seq(Chars), NEW f, IsScan(text, f), ~Foreign(text),
           NEW i \in TopLevel(text)
    PROVE  Outside(f, i) = Semicolon(text, i) \cup Outside(f, After(text, i))
<1> DEFINE c == Opens(text, i)
           d == Delimiter(text, i)
<1>0. i \in 1 .. Len(text)
  BY TopFacts
<1>1. CASE At(text, i, LineComment)
  <2>1. c.open = LineComment /\ c.close = <<"n">>
    BY <1>0, <1>1, OpensFacts
  <2>2. LineComment # <<>> /\ Len(LineComment) = 2
    BY WordFacts DEF Word
  <2>3. Outside(f, i) = Semicolon(text, i) \cup Outside(f, Past(text, i + 2, <<"n">>))
    <3>1. Outside(f, i) =
              Semicolon(text, i) \cup Outside(f, Past(text, i + Len(c.open), c.close))
      <4>1. c.open # <<>>
        BY <2>1, <2>2
      <4> QED
        BY <1>0, <4>1, ContextFollows
    <3> HIDE DEF c
    <3> QED
      BY <2>1, <2>2, <3>1
  <2> QED
    BY <1>0, <1>1, <2>3, AfterCases
<1>2. CASE At(text, i, BlockComment)
  <2>1. c.open = BlockComment /\ c.close = <<"*", "/">>
    <3>1. text[i] = "/" /\ text[i] \notin Quotes /\ ~At(text, i, LineComment)
      BY <1>0, <1>2, FirstChars
    <3>2. c = [open |-> BlockComment, close |-> <<"*", "/">>]
      BY <1>2, <3>1 DEF Opens
    <3> QED
      BY <3>2
  <2>2. BlockComment # <<>> /\ Len(BlockComment) = 2
    BY WordFacts DEF Word
  <2>3. Outside(f, i) = Semicolon(text, i) \cup Outside(f, Past(text, i + 2, <<"*", "/">>))
    <3>1. Outside(f, i) =
              Semicolon(text, i) \cup Outside(f, Past(text, i + Len(c.open), c.close))
      <4>1. c.open # <<>>
        BY <2>1, <2>2
      <4> QED
        BY <1>0, <4>1, ContextFollows
    <3> HIDE DEF c
    <3> QED
      BY <2>1, <2>2, <3>1
  <2> QED
    BY <1>0, <1>2, <2>3, AfterCases
<1>3. CASE text[i] \in Quotes
  <2>1. c.open = <<text[i]>> /\ c.close = <<text[i]>>
    BY <1>0, <1>3, OpensFacts
  <2>2. <<text[i]>> # <<>> /\ Len(<<text[i]>>) = 1
    OBVIOUS
  <2>3. Outside(f, i) = Semicolon(text, i) \cup Outside(f, Past(text, i + 1, <<text[i]>>))
    <3>1. Outside(f, i) =
              Semicolon(text, i) \cup Outside(f, Past(text, i + Len(c.open), c.close))
      <4>1. c.open # <<>>
        BY <2>1, <2>2
      <4> QED
        BY <1>0, <4>1, ContextFollows
    <3> HIDE DEF c
    <3> QED
      BY <2>1, <2>2, <3>1
  <2> QED
    BY <1>0, <1>3, <2>3, AfterCases
<1>4. CASE text[i] \in Letters
  <2>1. text[i] # ";"
    BY <1>4 DEF Letters
  <2>2. Semicolon(text, i) = {}
    BY <2>1 DEF Semicolon
  <2>3. After(text, i) = NameEnd(text, i)
    BY <1>0, <1>4, AfterCases
  <2>4. Outside(f, i) = Outside(f, NameEnd(text, i))
    BY <1>4, NameFollows
  <2> QED
    BY <2>2, <2>3, <2>4
<1>5. CASE /\ ~At(text, i, LineComment) /\ ~At(text, i, BlockComment)
           /\ text[i] \notin Quotes /\ text[i] \notin Letters
  <2>1. c.open = d /\ c.close = d
    <3>1. c = [open |-> DollarTag(text, i), close |-> DollarTag(text, i)]
      BY <1>5 DEF Opens
    <3>2. c.open = DollarTag(text, i) /\ c.close = DollarTag(text, i)
      BY <3>1
    <3> QED
      BY <3>2, TagsAgree
  <2>2. CASE d = <<>>
    <3>1. After(text, i) = i + 1
      BY <1>0, <1>5, <2>2, AfterCases
    <3> QED
      BY <1>0, <2>1, <2>2, <3>1, ScanOutside
  <2>3. CASE d # <<>>
    <3>1. Outside(f, i) = Semicolon(text, i) \cup Outside(f, Past(text, i + Len(d), d))
      <4>1. Outside(f, i) =
                Semicolon(text, i) \cup Outside(f, Past(text, i + Len(c.open), c.close))
        BY <1>0, <2>1, <2>3, ContextFollows
      <4> HIDE DEF c, d
      <4> QED
        BY <2>1, <4>1
    <3> QED
      BY <1>0, <2>3, <3>1, AfterCases
  <2> QED
    BY <2>2, <2>3
<1> QED
  BY <1>1, <1>2, <1>3, <1>4, <1>5
\* The scan finds the semicolons that are tokens.
Agrees(text, f, t, i) ==
    /\ Outside(f, i) = {j \in t[i] : text[j] = ";"}
    /\ t[i] \subseteq i .. Len(text)

LEMMA ScanIsTop ==
    ASSUME NEW text \in Seq(Chars), NEW f, IsScan(text, f), NEW t, IsTop(text, t),
           ~Foreign(text), NEW i \in TopLevel(text) \cup {Len(text) + 1}
    PROVE  Agrees(text, f, t, i)
<1> DEFINE N == Len(text) + 1
           T == {x \in 0 .. N : x \in TopLevel(text) \cup {N} /\ ~Agrees(text, f, t, x)}
<1>1. T = {}
  <2> SUFFICES ASSUME T # {} PROVE FALSE
    OBVIOUS
  <2>0. Len(text) \in Nat /\ N \in Nat
    OBVIOUS
  <2>1. PICK x \in T : \A y \in T : y <= x
    <3>1. T \in SUBSET (0 .. N)
      OBVIOUS
    <3> HIDE DEF T, N
    <3> QED
      BY <2>0, <3>1, Greatest
  <2>2. x \in Nat \ {0} /\ x <= Len(text) + 1 /\ ~Agrees(text, f, t, x)
    BY <2>0, TopFacts
  <2>3. CASE x > Len(text)
    <3>1. t[x] = {}
      <4>1. x \in 1 .. Len(text) + 1
        BY <2>0, <2>2
      <4> QED
        BY <2>3, <4>1 DEF IsTop
    <3>2. Inside(f, x, <<>>) = {}
      <4>1. <<>> \in Seq(Chars)
        OBVIOUS
      <4> QED
        BY <2>2, <2>3, <4>1, ScanStep
    <3>3. Outside(f, x) = {}
      BY <3>2 DEF Inside, Outside
    <3> QED
      BY <2>2, <3>1, <3>3 DEF Agrees
  <2>4. CASE x <= Len(text)
    <3>1. x \in 1 .. Len(text) /\ x \in 1 .. Len(text) + 1 /\ ~(x > Len(text))
          /\ x \in TopLevel(text)
      BY <2>0, <2>2, <2>4
    <3> DEFINE a == After(text, x)
    <3>2. a \in x + 1 .. Len(text) + 1
      BY <3>1, AfterFacts
    <3>3. t[x] = {x} \cup t[a]
      BY <3>1 DEF IsTop
    <3>4. Outside(f, x) = Semicolon(text, x) \cup Outside(f, a)
      BY <3>1, ScanFollows
    <3> HIDE DEF a
    <3>5. a \in 0 .. N /\ a \in TopLevel(text) \cup {N} /\ ~(a <= x)
      BY <2>0, <3>1, <3>2, TopFacts DEF a
    <3>6. Agrees(text, f, t, a)
      <4>1. a \notin T
        <5> HIDE DEF T
        <5> QED
          BY <2>1, <3>5
      <4> QED
        BY <3>5, <4>1
    <3>7. t[x] \subseteq x .. Len(text)
      <4>1. t[a] \subseteq a .. Len(text)
        BY <3>6 DEF Agrees
      <4>2. a .. Len(text) \subseteq x .. Len(text) /\ x \in x .. Len(text)
        BY <2>0, <3>1, <3>2
      <4> QED
        BY <3>3, <4>1, <4>2
    <3>8. Outside(f, x) = {j \in t[x] : text[j] = ";"}
      BY <3>3, <3>4, <3>6 DEF Agrees, Semicolon
    <3> QED
      BY <2>2, <3>7, <3>8 DEF Agrees
  <2> QED
    BY <2>0, <2>2, <2>3, <2>4
<1>2. i \in 0 .. N
  BY TopFacts
<1> QED
  BY <1>1, <1>2

\* So a text is cut at the semicolons that are tokens.
LEMMA CutsAreTop ==
    ASSUME NEW text \in Seq(Chars), ~Foreign(text)
    PROVE  Cuts(text) = {i \in TopLevel(text) : text[i] = ";"}
<1>1. PICK f : IsScan(text, f) /\ Cuts(text) = f[[at |-> 1, close |-> <<>>]]
  BY CutsScan
<1>2. PICK t : IsTop(text, t) /\ TopLevel(text) = t[1]
  BY TopExists
<1>3. 1 \in TopLevel(text) \cup {Len(text) + 1}
  <2>1. Len(text) \in Nat /\ (1 <= Len(text) \/ 1 = Len(text) + 1)
    OBVIOUS
  <2> QED
    BY <2>1, TopFacts
<1>4. Outside(f, 1) = {j \in t[1] : text[j] = ";"}
  BY <1>1, <1>2, <1>3, ScanIsTop DEF Agrees
<1> QED
  BY <1>1, <1>2, <1>4 DEF Outside

\* A piece begins with a token.
LEMMA PieceFacts ==
    ASSUME NEW text \in Seq(Chars), ~Foreign(text), NEW piece \in Pieces(text, Cuts(text)),
           piece[1] <= piece[2]
    PROVE  /\ piece[1] \in TopLevel(text)
           /\ piece[1] \in 1 .. Len(text) /\ piece[2] \in 1 .. Len(text)
<1>0. Len(text) \in Nat
  OBVIOUS
<1>1. /\ piece[1] \in 1 .. Len(text) + 1 /\ piece[2] \in 0 .. Len(text)
      /\ piece[1] = 1 \/ piece[1] - 1 \in Cuts(text)
  BY DEF Pieces
<1>2. piece[1] \in 1 .. Len(text) /\ piece[2] \in 1 .. Len(text)
  BY <1>0, <1>1
<1>3. CASE piece[1] = 1
  <2>1. piece[1] \in TopLevel(text)
    BY <1>0, <1>2, <1>3, TopFacts
  <2> QED
    BY <1>2, <2>1
<1>4. CASE piece[1] - 1 \in Cuts(text)
  <2> DEFINE i == piece[1] - 1
  <2>1. i \in TopLevel(text) /\ text[i] = ";"
    BY <1>4, CutsAreTop
  <2>2. i + 1 = piece[1] /\ piece[1] # Len(text) + 1
    BY <1>0, <1>2
  <2> HIDE DEF i
  <2>3. i \in 1 .. Len(text)
    BY <2>1, TopFacts
  <2>4. After(text, i) = i + 1
    BY <2>1, <2>3, NamesOpenNothing
  <2>5. After(text, i) = piece[1]
    BY <2>2, <2>4
  <2>6. piece[1] \in TopLevel(text)
    <3>1. After(text, i) \in TopLevel(text) \cup {Len(text) + 1}
      BY <2>1, TopFacts
    <3> QED
      BY <2>2, <2>5, <3>1
  <2> QED
    BY <1>2, <2>6
<1> QED
  BY <1>1, <1>3, <1>4


\* A line comment ends with its line.
LEMMA LineCommentFacts ==
    ASSUME NEW text \in Seq(Chars), NEW i \in 1 .. Len(text), At(text, i, LineComment)
    PROVE  /\ text[i] \notin Blanks
           /\ \A e \in i .. Len(text) : text[e] = "n" => After(text, i) <= e + 1
           /\ After(text, i) <= Len(text) => text[After(text, i) - 1] = "n"
<1> DEFINE E == Closings(text, i + 2, <<"n">>)
<1>0. Len(text) \in Nat /\ i \in Nat \ {0} /\ i <= Len(text)
  OBVIOUS
<1>1. text[i] = "-" /\ text[i + 1] = "-" /\ i + 2 \in 1 .. Len(text) + 1
  <2>1. Len(LineComment) = 2 /\ LineComment[1] = "-" /\ LineComment[2] = "-"
    BY DEF LineComment
  <2>2. \A k \in 1 .. 2 : text[i + k - 1] = LineComment[k]
    BY <2>1 DEF At
  <2>3. text[i + 1 - 1] = "-" /\ text[i + 2 - 1] = "-"
    BY <2>1, <2>2
  <2>4. i + 1 - 1 = i /\ i + 2 - 1 = i + 1 /\ i + 2 - 1 <= Len(text)
    BY <1>0, <2>1 DEF At
  <2> QED
    BY <1>0, <2>3, <2>4
<1>2. /\ E = {} => After(text, i) = Len(text) + 1
      /\ E # {} => After(text, i) = Min(E) + 1
  <2>1. Word(<<"n">>, 1, "n")
    BY WordFacts
  <2>2. /\ E = {} => Past(text, i + 2, <<"n">>) = Len(text) + 1
        /\ E # {} => Past(text, i + 2, <<"n">>) = Min(E) + 1
    BY <1>1, <2>1, PastFacts DEF Word
  <2>3. After(text, i) = Past(text, i + 2, <<"n">>)
    BY AfterCases
  <2> QED
    BY <2>2, <2>3
<1>5. \A e \in i + 2 .. Len(text) : e \in E <=> text[e] = "n"
  <2> TAKE e \in i + 2 .. Len(text)
  <2>1. e \in Nat /\ e <= Len(text) /\ e + 1 - 1 = e
    BY <1>0
  <2>2. <<"n">>[1] = "n" /\ Len(<<"n">>) = 1
    OBVIOUS
  <2>3. At(text, e, <<"n">>) <=> text[e] = "n"
    BY <2>1, <2>2 DEF At
  <2> QED
    BY <2>3 DEF Closings
<1>6. E \in SUBSET Nat /\ E \subseteq i + 2 .. Len(text)
  BY <1>0 DEF Closings
<1>7. E # {} => Min(E) \in E /\ \A y \in E : Min(E) <= y
  <2> HIDE DEF E
  <2> QED
    BY <1>6, MinFacts
<1> HIDE DEF E
<1>8. ASSUME NEW e \in i .. Len(text), text[e] = "n" PROVE After(text, i) <= e + 1
  <2>1. e # i /\ e # i + 1
    BY <1>1, <1>8
  <2>2. e \in E
    <3>1. e \in i + 2 .. Len(text)
      BY <1>0, <2>1
    <3> QED
      BY <1>5, <1>8, <3>1
  <2>3. Min(E) \in i + 2 .. Len(text) /\ Min(E) <= e
    BY <1>6, <1>7, <2>2
  <2> QED
    BY <1>0, <1>2, <2>2, <2>3
<1>9. ASSUME After(text, i) <= Len(text) PROVE text[After(text, i) - 1] = "n"
  <2>1. E # {}
    BY <1>0, <1>2, <1>9
  <2>2. Min(E) \in E /\ Min(E) \in i + 2 .. Len(text)
    BY <1>6, <1>7, <2>1
  <2>3. After(text, i) - 1 = Min(E)
    BY <1>0, <1>2, <2>1, <2>2
  <2> QED
    BY <1>5, <2>2, <2>3
<1>10. text[i] \notin Blanks
  BY <1>1 DEF Blanks
<1> QED
  BY <1>8, <1>9, <1>10

\* A position of a piece that begins no token is inside one that begins in the
\* piece and is not blank; if that is a comment then the line goes on.
LEMMA Covered ==
    ASSUME NEW text \in Seq(Chars), ~Foreign(text), NEW piece \in Pieces(text, Cuts(text)),
           NEW i \in piece[1] .. piece[2], i \notin TopLevel(text)
    PROVE  \E j \in TopLevel(text) \cap (piece[1] .. piece[2]) :
               /\ j < i /\ text[j] \notin Blanks
               /\ At(text, j, LineComment) => \A m \in j .. i - 1 : text[m] # "n"
<1>0. Len(text) \in Nat
  OBVIOUS
<1>1. piece[1] \in 1 .. Len(text) + 1 /\ piece[2] \in 0 .. Len(text)
  BY DEF Pieces
<1>2. i \in Nat /\ piece[1] <= i /\ i <= piece[2] /\ piece[1] <= piece[2]
  BY <1>0, <1>1
<1>3. /\ piece[1] \in TopLevel(text)
      /\ piece[1] \in 1 .. Len(text) /\ piece[2] \in 1 .. Len(text)
  BY <1>2, PieceFacts
<1>4. i \in 1 .. Len(text)
  BY <1>0, <1>2, <1>3
<1>5. PICK j \in TopLevel(text) : j < i /\ i < After(text, j)
  BY <1>4, TopFacts
<1>6. j \in 1 .. Len(text)
  BY TopFacts
<1>7. After(text, j) \in j + 1 .. Len(text) + 1
  BY <1>6, AfterFacts
<1>8. piece[1] <= j
  <2> SUFFICES ASSUME ~(piece[1] <= j) PROVE FALSE
    OBVIOUS
  <2>1. j < piece[1]
    BY <1>3, <1>6
  <2>2. After(text, j) <= piece[1]
    BY <1>3, <2>1, TopFacts
  <2> QED
    BY <1>0, <1>2, <1>3, <1>5, <1>7, <2>2
<1>9. text[j] \notin Blanks
  <2>1. After(text, j) # j + 1
    BY <1>2, <1>5, <1>6
  <2> QED
    BY <1>6, <2>1, NamesOpenNothing
<1>10. ASSUME At(text, j, LineComment), NEW m \in j .. i - 1 PROVE text[m] # "n"
  <2> SUFFICES ASSUME text[m] = "n" PROVE FALSE
    OBVIOUS
  <2>1. m \in j .. Len(text) /\ m + 1 <= i
    BY <1>0, <1>4, <1>6
  <2>2. After(text, j) <= m + 1
    BY <1>6, <1>10, <2>1, LineCommentFacts
  <2> QED
    BY <1>2, <1>5, <1>6, <1>7, <2>1, <2>2
<1>11. j \in piece[1] .. piece[2]
  BY <1>0, <1>2, <1>3, <1>5, <1>6, <1>8
<1> QED
  BY <1>5, <1>9, <1>10, <1>11

\* A piece with a statement in it has a line that is neither empty nor a comment:
\* the line of the first token that is neither blank nor a line comment.
LEMMA CodeIsEmitted ==
    ASSUME NEW text \in Seq(Chars), ~Foreign(text), NEW piece \in Pieces(text, Cuts(text)),
           HasCode(text, piece)
    PROVE  Emits(text, piece)
<1> DEFINE K == {k \in TopLevel(text) \cap (piece[1] .. piece[2]) :
                    ~At(text, k, LineComment) /\ text[k] \notin Blanks}
<1>0. Len(text) \in Nat
  OBVIOUS
<1>1. piece[1] \in 1 .. Len(text) + 1 /\ piece[2] \in 0 .. Len(text)
  BY DEF Pieces
<1>2. K # {} /\ K \in SUBSET Nat
  <2>1. K # {}
    BY DEF HasCode, Comments
  <2>2. K \in SUBSET Nat
    BY <1>0, <1>1
  <2> QED
    BY <2>1, <2>2
<1>3. PICK k \in K : \A y \in K : k <= y
  <2> HIDE DEF K
  <2> QED
    BY <1>2, Least
<1>4. k \in TopLevel(text) /\ k \in piece[1] .. piece[2]
      /\ ~At(text, k, LineComment) /\ text[k] \notin Blanks
  OBVIOUS
<1>5. k \in Nat /\ piece[1] <= k /\ k <= piece[2]
  BY <1>0, <1>1, <1>4
<1>6. piece[1] <= piece[2]
  BY <1>0, <1>1, <1>5
<1>7. /\ piece[1] \in TopLevel(text)
      /\ piece[1] \in 1 .. Len(text) /\ piece[2] \in 1 .. Len(text)
  BY <1>6, PieceFacts
<1> DEFINE S == {s \in piece[1] .. k : s = piece[1] \/ text[s - 1] = "n"}
<1>8. PICK s \in S : \A y \in S : y <= s
  <2>1. piece[1] \in S
    BY <1>5, <1>7
  <2>2. S \in SUBSET (0 .. k)
    BY <1>5, <1>7
  <2> HIDE DEF S
  <2> QED
    BY <1>5, <2>1, <2>2, Greatest
<1>9. /\ s \in Nat /\ piece[1] <= s /\ s <= k
      /\ s = piece[1] \/ text[s - 1] = "n"
  BY <1>0, <1>5, <1>7
<1>10. ASSUME NEW e \in s .. k - 1 PROVE text[e] # "n"
  <2> SUFFICES ASSUME text[e] = "n" PROVE FALSE
    OBVIOUS
  <2>1. e + 1 \in piece[1] .. k /\ (e + 1) - 1 = e /\ ~(e + 1 <= s)
    BY <1>5, <1>7, <1>9
  <2>2. e + 1 \in S
    BY <2>1
  <2> HIDE DEF S
  <2> QED
    BY <1>8, <2>1, <2>2
<1> HIDE DEF K, S
<1> DEFINE B == {m \in s .. k : text[m] \notin Blanks}
<1>11. PICK i \in B : \A y \in B : i <= y
  <2>1. k \in B /\ B \in SUBSET Nat
    BY <1>4, <1>5, <1>9
  <2> HIDE DEF B
  <2> QED
    BY <2>1, Least
<1>12. /\ i \in Nat /\ s <= i /\ i <= k /\ text[i] \notin Blanks
       /\ i \in 1 .. Len(text) /\ i \in piece[1] .. piece[2]
  BY <1>0, <1>5, <1>7, <1>9
<1>13. ASSUME NEW m \in s .. i - 1 PROVE text[m] \in Blanks
  <2>1. m \in s .. k /\ ~(i <= m)
    BY <1>5, <1>9, <1>12
  <2>2. m \notin B
    <3> HIDE DEF B
    <3> QED
      BY <1>11, <2>1
  <2> QED
    BY <2>1, <2>2
<1> HIDE DEF B
<1>14. BeginsLine(text, piece, i)
  <2>1. ASSUME NEW m \in piece[1] .. i - 1
        PROVE  text[m] = " " \/ \E e \in m .. i - 1 : text[e] = "n"
    <3>1. m \in Nat /\ m <= i - 1
      BY <1>7, <1>12
    <3>2. CASE s <= m
      <4>1. m \in s .. i - 1 /\ m \in s .. k - 1
        BY <1>5, <1>9, <1>12, <3>1, <3>2
      <4>2. text[m] \in Blanks /\ text[m] # "n"
        BY <1>10, <1>13, <4>1
      <4> QED
        BY <4>2 DEF Blanks
    <3>3. CASE ~(s <= m)
      <4>1. s - 1 \in m .. i - 1 /\ s # piece[1]
        BY <1>7, <1>9, <1>12, <3>1, <3>3
      <4> QED
        BY <1>9, <4>1
    <3> QED
      BY <3>2, <3>3
  <2> QED
    BY <1>12, <2>1 DEF BeginsLine
<1>15. ~At(text, i, LineComment)
  <2> SUFFICES ASSUME At(text, i, LineComment) PROVE FALSE
    OBVIOUS
  <2>1. CASE i \in TopLevel(text)
    <3>1. i < k
      BY <1>4, <1>5, <1>12
    <3>2. After(text, i) <= k
      BY <1>4, <2>1, <3>1, TopFacts
    <3>3. /\ After(text, i) \in i + 1 .. Len(text) + 1
          /\ After(text, i) <= Len(text) => text[After(text, i) - 1] = "n"
      BY <1>12, AfterFacts, LineCommentFacts
    <3>4. After(text, i) <= Len(text) /\ After(text, i) - 1 \in s .. k - 1
      BY <1>0, <1>5, <1>7, <1>9, <1>12, <3>2, <3>3
    <3> QED
      BY <1>10, <3>3, <3>4
  <2>2. CASE i \notin TopLevel(text)
    <3>1. PICK j \in TopLevel(text) \cap (piece[1] .. piece[2]) :
              /\ j < i /\ text[j] \notin Blanks
              /\ At(text, j, LineComment) => \A m \in j .. i - 1 : text[m] # "n"
      BY <1>12, <2>2, Covered
    <3>2. j \in Nat /\ piece[1] <= j
      BY <1>7
    <3>3. CASE ~At(text, j, LineComment)
      <4>1. j \in K
        BY <3>1, <3>3 DEF K
      <4> QED
        BY <1>3, <1>5, <1>12, <3>1, <3>2, <4>1
    <3>4. CASE At(text, j, LineComment) /\ s <= j
      <4>1. j \in s .. i - 1
        BY <1>9, <1>12, <3>1, <3>2, <3>4
      <4> QED
        BY <1>13, <3>1, <4>1
    <3>5. CASE At(text, j, LineComment) /\ ~(s <= j)
      <4>1. s - 1 \in j .. i - 1 /\ s # piece[1]
        BY <1>7, <1>9, <1>12, <3>2, <3>5
      <4> QED
        BY <1>9, <3>1, <3>5, <4>1
    <3> QED
      BY <3>3, <3>4, <3>5
  <2> QED
    BY <2>1, <2>2
<1> QED
  BY <1>12, <1>14, <1>15 DEF Emits

\* A piece that is kept holds a statement or a block comment.
LEMMA EmittedIsCode ==
    ASSUME NEW text \in Seq(Chars), ~Foreign(text), NEW piece \in Pieces(text, Cuts(text)),
           Emits(text, piece)
    PROVE  HasCode(text, piece) \/ HasBlockComment(text, piece)
<1>1. PICK i \in piece[1] .. piece[2] : BeginsLine(text, piece, i) /\ ~At(text, i, LineComment)
  BY DEF Emits
<1>2. PICK j \in TopLevel(text) \cap (piece[1] .. piece[2]) :
          ~At(text, j, LineComment) /\ text[j] \notin Blanks
  <2>1. CASE i \in TopLevel(text)
    BY <1>1, <2>1 DEF BeginsLine
  <2>2. CASE i \notin TopLevel(text)
    <3>1. PICK j \in TopLevel(text) \cap (piece[1] .. piece[2]) :
              /\ j < i /\ text[j] \notin Blanks
              /\ At(text, j, LineComment) => \A m \in j .. i - 1 : text[m] # "n"
      BY <2>2, Covered
    <3>2. ~At(text, j, LineComment)
      <4> SUFFICES ASSUME At(text, j, LineComment) PROVE FALSE
        OBVIOUS
      <4>1. piece[1] \in Nat /\ piece[2] \in Nat /\ j \in piece[1] .. i - 1
        BY <3>1 DEF Pieces
      <4>2. text[j] = " " \/ \E m \in j .. i - 1 : text[m] = "n"
        BY <1>1, <4>1 DEF BeginsLine
      <4> QED
        BY <3>1, <4>2 DEF Blanks
    <3> QED
      BY <3>1, <3>2
  <2> QED
    BY <2>1, <2>2
<1> QED
  BY <1>2 DEF HasCode, HasBlockComment, Comments

\* A text without the constructs that split_sql does not know is cut exactly where
\* PostgreSQL's lexer, which reads names and delimiters by its own rules, meets a
\* semicolon, and every statement in it is executed.
THEOREM EveryTextIsSplit ==
    ASSUME NEW text \in Seq(Chars), ~Foreign(text)
    PROVE  /\ Cuts(text) = {i \in TopLevel(text) : text[i] = ";"}
           /\ \A piece \in Pieces(text, Cuts(text)) :
                  /\ HasCode(text, piece) => Emits(text, piece)
                  /\ Emits(text, piece) => HasCode(text, piece) \/ HasBlockComment(text, piece)
BY CutsAreTop, CodeIsEmitted, EmittedIsCode

\* So every migration file is, whatever its text, if it has none of those constructs.
THEOREM TextsAreSplit == Spec => []SplitsStatements
<1>1. ASSUME NEW text \in SqlTexts PROVE CutsAtStatements(text) /\ KeepsStatements(text)
  <2>1. text \in Seq(Chars)
    BY SqlTextsAssumption
  <2> QED
    BY <2>1, EveryTextIsSplit DEF CutsAtStatements, KeepsStatements
<1>2. SplitsStatements
  BY <1>1 DEF SplitsStatements
<1> QED
  BY <1>2, PTL

=============================================================================
