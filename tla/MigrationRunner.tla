-------------------------- MODULE MigrationRunner --------------------------
(***************************************************************************)
(* migration/migrate.py: the V*.sql files of a working tree are linted,    *)
(* compared with checksums.txt, tried on an empty database and applied to  *)
(* the real one, each in a transaction of its own that also records it.    *)
(* Several runners may work at the same time, each of them may stop at any *)
(* point and be started again, and the files may be edited meanwhile.      *)
(* What is executed of a file are the pieces of SplitSql.                  *)
(***************************************************************************)
EXTENDS Integers, Sequences, FiniteSets, SplitSql

CONSTANTS
    Files,     \* versions, the numbers of V<n>__*.sql
    Texts,     \* what a file may contain; a checksum identifies its text
    Broken,    \* texts that fail when they are executed
    Runners,
    MaxStarts, \* bound: runs of migrate.py
    MaxEdits,  \* bound: changes of the working tree
    Blank,     \* the empty checksum of a row older than the column
    None       \* no file, no row

ASSUME RunnerConstants ==
    /\ Files \subseteq Nat \ {0} /\ IsFiniteSet(Files)
    /\ Broken \subseteq Texts /\ {Blank, None} \cap Texts = {} /\ Blank # None
    /\ MaxStarts \in Nat /\ MaxEdits \in Nat

VARIABLES
    tree,       \* tree[f]: the text of the file, or None
    sums,       \* checksums.txt
    migrations, \* private.schema_migrations: the checksum recorded for f, or None
    executed,   \* the migrations whose effects are committed, in order, with their
                \* texts (Blank: of a run that kept no checksum)
    runner,     \* the progress of each runner
    starts, edits,
    missed      \* files that were absent when a runner listed a later one (history)

vars == <<tree, sums, migrations, executed, runner, starts, edits, missed>>

Names(t) == {f \in Files : t[f] # None}

\* tried: the tree that passed step_test. listed: the files apply_migrations saw
\* when it began. read: the texts it has compared with their checksums.
Idle == [mode |-> "none", at |-> "idle", tried |-> None, listed |-> {}, left |-> {},
         file |-> 0, text |-> None, read |-> [f \in Files |-> None]]

Init ==
    /\ tree \in [Files -> Texts \cup {None}]
    /\ sums = tree
    /\ \E old \in [Files -> {None, Blank}] :
         /\ \A f \in Files : old[f] = Blank => f = 1 /\ tree[f] \in Texts \ Broken
         /\ migrations = old
    /\ executed = IF 1 \in Names(migrations) THEN <<[file |-> 1, text |-> Blank]>> ELSE <<>>
    /\ runner = [r \in Runners |-> Idle]
    /\ starts = 0 /\ edits = 0
    /\ missed = {}

Done == {executed[i].file : i \in DOMAIN executed}

Goes(r, rec) == runner' = [runner EXCEPT ![r] = rec]

-----------------------------------------------------------------------------
(* The working tree.                                                       *)

\* A file is added, edited, renamed or removed, and --hash may follow.
Edit ==
    /\ edits < MaxEdits
    /\ edits' = edits + 1
    /\ \E f \in Files, t \in Texts \cup {None} :
        /\ tree[f] # t
        /\ tree' = [tree EXCEPT ![f] = t]
    /\ UNCHANGED <<sums, migrations, executed, runner, starts, missed>>

Hash ==
    /\ sums # tree
    /\ sums' = tree
    /\ UNCHANGED <<tree, migrations, executed, runner, starts, edits, missed>>

-----------------------------------------------------------------------------
(* The runner.                                                             *)

Start(r) ==
    /\ runner[r].at = "idle"
    /\ starts < MaxStarts
    /\ starts' = starts + 1
    /\ \E mode \in {"full", "apply-only", "test-only"} :
        Goes(r, [Idle EXCEPT !.mode = mode, !.at = "verify"])
    /\ UNCHANGED <<tree, sums, migrations, executed, edits, missed>>

\* step_lint (whose findings are a failure like any other) and step_checksum_verify.
ChecksumVerify(r) ==
    /\ runner[r].at = "verify"
    /\ LET passes == Names(sums) # {} /\ sums = tree IN
       Goes(r, IF ~passes THEN Idle
               ELSE [runner[r] EXCEPT !.at = IF runner[r].mode = "apply-only" THEN "connect" ELSE "test"])
    /\ UNCHANGED <<tree, sums, migrations, executed, starts, edits, missed>>

Passes(t) == \A f \in Names(t) : t[f] \notin Broken

\* step_test: all files on an empty database in a container.
Test(r) ==
    /\ runner[r].at = "test"
    /\ Goes(r, IF ~Passes(tree) \/ runner[r].mode = "test-only" THEN Idle
               ELSE [runner[r] EXCEPT !.at = "connect", !.tried = tree])
    /\ UNCHANGED <<tree, sums, migrations, executed, starts, edits, missed>>

\* apply_migrations lists the files and refuses a database that has others.
Connect(r) ==
    /\ runner[r].at = "connect"
    /\ Goes(r, IF ~(Names(migrations) \subseteq Names(tree)) THEN Idle
               ELSE [runner[r] EXCEPT !.at = "next", !.listed = Names(tree), !.left = Names(tree)])
    /\ missed' = missed \cup {f \in Files \ Names(tree) : \E g \in Names(tree) : g > f}
    /\ UNCHANGED <<tree, sums, migrations, executed, starts, edits>>

\* Variant: sorted as text, V10 before V2.
FirstAsText(f, S) ==
    f \in S /\ \A g \in S : f \div 10 > g \div 10 \/ (f \div 10 = g \div 10 /\ f <= g)

First(f, S) == f \in S /\ \A g \in S : f <= g

\* The loop takes the next file, reads it and looks it up. The lookup begins the
\* transaction of this file.
Looks(r, f) == runner[r].at = "next" /\ First(f, runner[r].left) /\ tree[f] # None

\* Variant: the stored checksum is not compared.
SkipUnread(r) ==
    \E f \in Files :
        /\ Looks(r, f)
        /\ migrations[f] \notin {Blank, None}
        /\ Goes(r, [runner[r] EXCEPT !.left = @ \ {f}, !.read[f] = tree[f]])
        /\ UNCHANGED <<tree, sums, migrations, executed, starts, edits, missed>>

\* Recorded with this text.
Skip(r) ==
    \E f \in Files :
        /\ Looks(r, f)
        /\ migrations[f] = tree[f]
        /\ Goes(r, [runner[r] EXCEPT !.left = @ \ {f}, !.read[f] = tree[f]])
        /\ UNCHANGED <<tree, sums, migrations, executed, starts, edits, missed>>

\* Recorded with another text: the run ends.
Mismatch(r) ==
    \E f \in Files :
        /\ Looks(r, f)
        /\ migrations[f] \notin {Blank, None, tree[f]}
        /\ Goes(r, Idle)
        /\ UNCHANGED <<tree, sums, migrations, executed, starts, edits, missed>>

\* Recorded without a checksum: the row is given one, by an UPDATE of its own.
LookBlank(r) ==
    \E f \in Files :
        /\ Looks(r, f)
        /\ migrations[f] = Blank
        /\ Goes(r, [runner[r] EXCEPT !.at = "filling", !.file = f, !.text = tree[f], !.read[f] = tree[f]])
        /\ UNCHANGED <<tree, sums, migrations, executed, starts, edits, missed>>

Fill(r) ==
    /\ runner[r].at = "filling"
    /\ migrations' = [migrations EXCEPT ![runner[r].file] = runner[r].text]
    /\ Goes(r, [runner[r] EXCEPT !.at = "next", !.left = @ \ {runner[r].file}, !.file = 0, !.text = None])
    /\ UNCHANGED <<tree, sums, executed, starts, edits, missed>>

\* Not recorded: the statements are executed, in the open transaction. A broken
\* text fails (Fail); so may a good one, on the objects of another runner.
Execute(r) ==
    \E f \in Files :
        /\ Looks(r, f)
        /\ migrations[f] = None
        /\ Goes(r, [runner[r] EXCEPT !.at = "executing", !.file = f, !.text = tree[f], !.read[f] = tree[f]])
        /\ UNCHANGED <<tree, sums, migrations, executed, starts, edits, missed>>

\* Variant: the INSERT without the primary key.
RecordTwice(r) ==
    LET f == runner[r].file
        text == runner[r].text IN
    /\ runner[r].at = "executing"
    /\ text \notin Broken
    /\ migrations' = [migrations EXCEPT ![f] = text]
    /\ executed' = Append(executed, [file |-> f, text |-> text])
    /\ Goes(r, [runner[r] EXCEPT !.at = "next", !.left = @ \ {f}, !.file = 0, !.text = None])
    /\ UNCHANGED <<tree, sums, starts, edits, missed>>

\* Variant: the checksum is computed when it is recorded, from the file.
RecordReread(r) ==
    LET f == runner[r].file
        text == runner[r].text IN
    /\ runner[r].at = "executing"
    /\ text \notin Broken
    /\ migrations[f] = None /\ tree[f] # None
    /\ migrations' = [migrations EXCEPT ![f] = tree[f]]
    /\ executed' = Append(executed, [file |-> f, text |-> text])
    /\ Goes(r, [runner[r] EXCEPT !.at = "next", !.left = @ \ {f}, !.file = 0, !.text = None])
    /\ UNCHANGED <<tree, sums, starts, edits, missed>>

\* The INSERT, which waits for the runner that has inserted the same file name
\* and then fails, and the COMMIT.
Record(r) ==
    LET f == runner[r].file
        text == runner[r].text IN
    /\ runner[r].at = "executing"
    /\ text \notin Broken
    /\ migrations[f] = None
    /\ migrations' = [migrations EXCEPT ![f] = text]
    /\ executed' = Append(executed, [file |-> f, text |-> text])
    /\ Goes(r, [runner[r] EXCEPT !.at = "next", !.left = @ \ {f}, !.file = 0, !.text = None])
    /\ UNCHANGED <<tree, sums, starts, edits, missed>>

\* set_user_passwords, which changes no table.
Finish(r) ==
    /\ runner[r].at = "next" /\ runner[r].left = {}
    /\ Goes(r, Idle)
    /\ UNCHANGED <<tree, sums, migrations, executed, starts, edits, missed>>

\* An exception, a missing file or a killed process: the open transaction is gone.
Fail(r) ==
    /\ runner[r].at # "idle"
    /\ Goes(r, Idle)
    /\ UNCHANGED <<tree, sums, migrations, executed, starts, edits, missed>>

Run(r) ==
    \/ Start(r) \/ ChecksumVerify(r) \/ Test(r) \/ Connect(r) \/ Skip(r) \/ Mismatch(r)
    \/ LookBlank(r) \/ Fill(r) \/ Execute(r) \/ Record(r) \/ Finish(r) \/ Fail(r)

Next == Edit \/ Hash \/ \E r \in Runners : Run(r)

Spec == Init /\ [][Next]_vars

-----------------------------------------------------------------------------
(* Properties.                                                             *)

Trees == [Files -> Texts \cup {None}]

Effects == [file : Files, text : Texts \cup {Blank}]

RunnerRecords ==
    [mode : {"none", "full", "apply-only", "test-only"},
     at : {"idle", "verify", "test", "connect", "next", "filling", "executing"},
     tried : Trees \cup {None}, listed : SUBSET Files, left : SUBSET Files,
     file : Files \cup {0}, text : Texts \cup {None}, read : Trees]

\* Types; a runner works on a file of its list.
TypeOK ==
    /\ tree \in Trees /\ sums \in Trees
    /\ migrations \in [Files -> Texts \cup {Blank, None}]
    /\ executed \in Seq(Effects)
    /\ runner \in [Runners -> RunnerRecords]
    /\ \A r \in Runners :
        /\ runner[r].left \subseteq runner[r].listed
        /\ runner[r].at \in {"filling", "executing"} => runner[r].file \in runner[r].left
    /\ starts \in 0..MaxStarts /\ edits \in 0..MaxEdits
    /\ missed \subseteq Files

\* However runners overlap, stop and start again, no migration takes effect
\* twice, and one is recorded exactly when its effects are there: a crash
\* between the statements and the record leaves neither.
AppliedOnce ==
    /\ \A i, j \in DOMAIN executed : executed[i].file = executed[j].file => i = j
    /\ Done = Names(migrations)

\* The recorded checksum is that of the text that was executed, though the file
\* may have been edited since it was read.
RecordMatchesEffects ==
    \A i \in DOMAIN executed :
        executed[i].text \in {Blank, migrations[executed[i].file]}

\* Versions take effect in numerical order, except for a file that was
\* absent when some runner listed a later one.
AppliedInOrder ==
    \A i, j \in DOMAIN executed :
        i < j => executed[i].file < executed[j].file \/ executed[j].file \in missed

\* A migration takes effect only on top of the history its runner has read:
\* every earlier file it listed has been applied with the text it has compared.
OnReadHistory ==
    [][\A r \in Runners : runner[r].at = "executing" /\ executed' # executed /\ runner'[r].at = "next" =>
          \A i \in DOMAIN executed :
              LET e == executed[i] IN
              e.file < runner[r].file /\ e.file \in runner[r].listed =>
                  e.text \in {Blank, runner[r].read[e.file]}]_vars

\* split_sql cuts every text that has none of the constructs of Foreign where
\* PostgreSQL's lexer sees its statements end, and drops none of them (a fact
\* about no state; evaluated where nothing has happened).
SplitsStatements ==
    starts + edits = 0 /\ Names(tree) = {} =>
        \A text \in SqlTexts : CutsAtStatements(text) /\ KeepsStatements(text)

=============================================================================
