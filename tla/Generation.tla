----------------------------- MODULE Generation -----------------------------
(***************************************************************************)
(* The compiler transaction of src/src/filter/generation.c: compile,       *)
(* import and legacy invocations and readers on one ROOT, serialised by    *)
(* the publication lock, with I/O failures, kills and power losses between *)
(* any two of their file operations.                                       *)
(*                                                                         *)
(* A generation is named by the fingerprint of the inputs it was built     *)
(* from, so its identifier here is those inputs: a function from input     *)
(* names to contents.  The public export of a generation and the           *)
(* generation's own name are likewise one value.  A directory is a record  *)
(* of its entries; file contents are fsynced before an entry is renamed    *)
(* into place.  Entries reach the disk when their directory is fsynced or  *)
(* before: order is "global" where everything reaches it in the order it   *)
(* was made (one metadata journal, which an fsync flushes), "directory"    *)
(* where that holds of each directory by itself, and "entry" where fsync   *)
(* promises the directory's entries and nothing else.                      *)
(***************************************************************************)
EXTENDS Naturals, FiniteSets

CONSTANTS
    Procs,        \* compiler invocations that may run at the same time
    Readers,      \* processes that pin a generation
    Kinds,        \* the invocations made, of "compile", "import" and "legacy"
    NInputs,      \* input files an import may rewrite (4 in the code)
    Versions,     \* contents of an input file
    Imported,     \* the content an import gives the inputs it changes
    Editable,     \* inputs the user edits
    None,         \* an entry that does not exist
    Legacy,       \* a public export written by the legacy exporter
    Torn,         \* a file whose writer failed half way
    MaxFaults, MaxKills, MaxPower,  \* bounds on failures, kills and power losses
    Orders,          \* in which entries may reach the disk: "global", "directory", "entry"
    CommitSyncFails  \* those of them under which fsync-commit is among the failures

Inputs == 1..NInputs
Ids == [Inputs -> Versions \cup {None}]

\* What a publication's journal and an import's journal say.
Journals == [old : Ids \cup {None}, present : BOOLEAN, next : Ids]
ImportJournals == [changed : SUBSET Inputs, present : SUBSET Inputs]

ASSUME GenerationAssumption ==
    /\ NInputs \in Nat
    /\ Imported \in Versions
    /\ Editable \subseteq Inputs
    /\ Kinds \subseteq {"compile", "import", "legacy"}
    /\ None \notin Versions \cup Procs \cup Ids \cup Journals \cup ImportJournals
    /\ Legacy \notin Ids \cup {None}
    /\ Torn \notin Ids \cup Versions \cup {None, Legacy}
    /\ MaxFaults \in Nat /\ MaxKills \in Nat /\ MaxPower \in Nat
    /\ CommitSyncFails \subseteq Orders /\ Orders \subseteq {"global", "directory", "entry"}

VARIABLES
    order,                  \* the order in which entries reach the disk
    root, engine, gens,     \* the directories' entries: ROOT, the engine, generations/
    droot, dengine, dgens,  \* what of them is on stable storage
    loc,                    \* per invocation: its locals and where it stands
    wlock, rlock,           \* owner of the exclusive lock, owners of shared locks
    pinned,                 \* per reader: the generation it pinned
    faults, kills, power,   \* failures, kills and power losses so far
    allowed,                \* history: the views a recovery may end with
    seen                    \* history: the inputs since the exclusive lock was taken

files == <<root, engine, gens>>
disk == <<droot, dengine, dgens>>
env == <<order, faults, kills, power>>
history == <<allowed, seen>>
vars == <<files, disk, loc, wlock, rlock, pinned, env, history>>

(***************************************************************************)
(* Entries.  input and public are in ROOT; journal names the transaction   *)
(* (old selector, whether an export existed, new generation), committed    *)
(* is its marker, current the selector, backup the copy of the old export; *)
(* ijournal and ibackup are the import's journal and backups of inputs.    *)
(* temps are the staging names now present, what dead writers left too.    *)
(***************************************************************************)
Temps == {"export.next", "journal.next", "committed.next", "import.next", "import.journal.next"}

NoItems == [i \in Inputs |-> None]
NoEngine == [journal |-> None, committed |-> None, current |-> None, backup |-> None,
             ijournal |-> None, ibackup |-> NoItems, temps |-> {}]

Idle == [pc |-> "idle", ret |-> "none", kind |-> "none", attempt |-> 0, k |-> 0,
         prev |-> None, old |-> None, snap |-> NoItems, goal |-> NoItems]

View(r, e) == [sel |-> e.current, pub |-> r.public, input |-> r.input]

\* A ROOT that the legacy exporter has been used on may have an export already.
FirstExports == {None} \cup (IF "legacy" \in Kinds THEN {Legacy} ELSE {})

Init ==
    /\ order \in Orders
    /\ root \in {[public |-> pub, input |-> [i \in Inputs |-> IF i = 1 THEN v ELSE None]] :
                    pub \in FirstExports, v \in Versions \ {Imported}}
    /\ engine = NoEngine /\ gens = {}
    /\ droot = root /\ dengine = engine /\ dgens = gens
    /\ loc = [p \in Procs |-> Idle]
    /\ wlock = None /\ rlock = {}
    /\ pinned = [r \in Readers |-> None]
    /\ faults = 0 /\ kills = 0 /\ power = 0
    /\ allowed = {View(root, engine)}
    /\ seen = {}

-----------------------------------------------------------------------------
(* Where recovery leads *)

\* The inputs after recover_inputs without a commit.
Restored(r, e) ==
    IF e.ijournal = None THEN r.input
    ELSE [i \in Inputs |-> IF i \notin e.ijournal.changed THEN r.input[i]
                           ELSE IF i \in e.ijournal.present THEN e.ibackup[i] ELSE None]

\* committed_journal: the marker and the selector name the journal's generation.
CommittedJournal(e) ==
    /\ e.journal # None
    /\ e.committed = e.journal.next
    /\ e.current = e.journal.next

\* The backups a rollback needs are there and whole.
BackedUp(e) ==
    /\ e.journal # None /\ e.journal.present => e.backup \notin {None, Torn}
    /\ e.ijournal # None =>
          \A i \in e.ijournal.changed \cap e.ijournal.present : e.ibackup[i] \notin {None, Torn}

\* An uninterrupted recover succeeds, with whole files.
Recoverable(r, e) ==
    IF e.journal # None /\ e.committed # None
    THEN CommittedJournal(e) /\ r.public = e.journal.next
    ELSE BackedUp(e)

\* The view it leaves.
Settled(r, e) ==
    IF e.journal = None
    THEN [sel |-> e.current, pub |-> r.public, input |-> Restored(r, e)]
    ELSE IF e.committed # None THEN View(r, e)
    ELSE [sel |-> e.journal.old,
          pub |-> IF e.journal.present THEN e.backup ELSE None,
          input |-> Restored(r, e)]

-----------------------------------------------------------------------------
(* Steps of an invocation; a definition marked "Fault" is a slip some property
   notices. *)

At(p, l) == loc[p].pc = l
Goto(p, l) == loc' = [loc EXCEPT ![p].pc = l]
Quiet == UNCHANGED <<wlock, rlock, pinned, env, history>>

\* fsync of a directory.
SyncAll == droot' = root /\ dengine' = engine /\ dgens' = gens

SyncRoot ==
    /\ IF order = "global" THEN SyncAll ELSE droot' = root /\ UNCHANGED <<dengine, dgens>>
    /\ UNCHANGED files

SyncEngine ==
    /\ IF order = "global" THEN SyncAll ELSE dengine' = engine /\ UNCHANGED <<droot, dgens>>
    /\ UNCHANGED files

\* An entry of the engine directory, or of ROOT, changes.
InEngine(e) == engine' = e /\ UNCHANGED <<root, gens, disk>>
InBoth(r, e) == root' = r /\ engine' = e /\ UNCHANGED <<gens, disk>>

\* unlock, where p has the lock.
Unlock(p) ==
    /\ wlock' = IF wlock = p THEN None ELSE wlock
    /\ seen' = IF wlock = p THEN {} ELSE seen

\* The invocation returns and its locks go with it.
End(p) ==
    /\ loc' = [loc EXCEPT ![p] = Idle]
    /\ Unlock(p)
    /\ UNCHANGED rlock

-----------------------------------------------------------------------------
(* cleanup_transaction *)

\* Fault: the marker goes before the journal.
CleanMarkerFirst(e) == [e EXCEPT !.committed = None]

\* Journal removal is the recovery fence.
CleanJournal(e) == [e EXCEPT !.journal = None]

Clean1(p) ==
    /\ At(p, "clean")
    /\ InEngine(CleanJournal(engine))
    /\ Goto(p, "clean_sync")
    /\ Quiet

Clean2(p) ==
    /\ At(p, "clean_sync")
    /\ SyncEngine
    /\ Goto(p, "clean_rest")
    /\ Quiet

\* Fault: a marker that was never renamed is forgotten.
LeftoversButMarker == {"export.next", "journal.next"}

Leftovers == {"export.next", "journal.next", "committed.next"}

Clean3(p) ==
    /\ At(p, "clean_rest")
    /\ InEngine([engine EXCEPT !.backup = None, !.committed = None,
                               !.temps = @ \ Leftovers])
    /\ Goto(p, "clean_end")
    /\ Quiet

\* The last fsync; recover returns to its caller.
Clean4(p) ==
    /\ At(p, "clean_end")
    /\ SyncEngine
    /\ allowed' = {Settled(root, engine), Settled(droot, engine)}
    /\ Goto(p, loc[p].ret)
    /\ UNCHANGED <<wlock, rlock, pinned, env, seen>>

-----------------------------------------------------------------------------
(* recover and recover_inputs *)

\* recover gives up: publish and import ignore it, an invocation that starts ends.
Unrecovered(p) == IF loc[p].ret = "publish_failed" THEN "publish_failed" ELSE "end"

Committed(e) == e.journal # None /\ e.committed # None

\* A committed journal must be whole to be finished; another is rolled back.
Recover(p) ==
    /\ At(p, "recover")
    /\ IF engine.journal = None THEN Goto(p, "inputs")
       ELSE IF engine.committed = None THEN Goto(p, "undo_public")
       ELSE Goto(p, IF Recoverable(root, engine) /\ engine.current \in gens
                    THEN "inputs" ELSE Unrecovered(p))
    /\ Quiet /\ UNCHANGED <<files, disk>>

\* The old export and the old selector, each renamed into place.
UndoPublic(p) ==
    /\ At(p, "undo_public")
    /\ IF engine.journal.present /\ engine.backup = None
       THEN Goto(p, Unrecovered(p)) /\ UNCHANGED root
       ELSE /\ root' = [root EXCEPT !.public = IF engine.journal.present THEN engine.backup ELSE None]
            /\ Goto(p, "undo_select")
    /\ Quiet /\ UNCHANGED <<engine, gens, disk>>

UndoSelect(p) ==
    /\ At(p, "undo_select")
    /\ InEngine([engine EXCEPT !.current = engine.journal.old])
    /\ Goto(p, "undo_root_sync")
    /\ Quiet

UndoRootSync(p) == At(p, "undo_root_sync") /\ SyncRoot /\ Goto(p, "undo_engine_sync") /\ Quiet
UndoEngineSync(p) == At(p, "undo_engine_sync") /\ SyncEngine /\ Goto(p, "inputs") /\ Quiet

\* recover_inputs, one changed input after the other; committed inputs stay.
RestoreInput(p) ==
    LET i == loc[p].k + 1
        changed == i \in engine.ijournal.changed
        present == i \in engine.ijournal.present
    IN
    /\ At(p, "inputs")
    /\ engine.ijournal # None /\ ~Committed(engine) /\ i \in Inputs
    /\ IF changed /\ present /\ engine.ibackup[i] = None
       THEN loc' = [loc EXCEPT ![p].pc = Unrecovered(p), ![p].k = 0] /\ UNCHANGED root
       ELSE /\ loc' = [loc EXCEPT ![p].k = i]
            /\ root' = IF ~changed THEN root
                       ELSE [root EXCEPT !.input[i] = IF present THEN engine.ibackup[i] ELSE None]
    /\ seen' = seen \cup {root'.input}
    /\ UNCHANGED <<engine, gens, disk, wlock, rlock, pinned, env, allowed>>

InputsRestored(p) ==
    /\ At(p, "inputs")
    /\ engine.ijournal = None \/ Committed(engine) \/ loc[p].k = NInputs
    /\ loc' = [loc EXCEPT ![p].k = 0,
                          ![p].pc = IF engine.ijournal = None THEN "inputs_clean"
                                                              ELSE "inputs_root_sync"]
    /\ Quiet /\ UNCHANGED <<files, disk>>

InputsRootSync(p) == At(p, "inputs_root_sync") /\ SyncRoot /\ Goto(p, "inputs_engine_sync") /\ Quiet
InputsEngineSync(p) == At(p, "inputs_engine_sync") /\ SyncEngine /\ Goto(p, "inputs_unlink") /\ Quiet

InputsUnlink(p) ==
    /\ At(p, "inputs_unlink")
    /\ InEngine([engine EXCEPT !.ijournal = None])
    /\ Goto(p, "inputs_unlink_sync")
    /\ Quiet

InputsUnlinkSync(p) == At(p, "inputs_unlink_sync") /\ SyncEngine /\ Goto(p, "inputs_clean") /\ Quiet

InputsClean(p) ==
    /\ At(p, "inputs_clean")
    /\ InEngine([engine EXCEPT !.ibackup = NoItems,
                               !.temps = @ \ {"import.next", "import.journal.next"}])
    /\ Goto(p, "inputs_clean_sync")
    /\ Quiet

InputsCleanSync(p) == At(p, "inputs_clean_sync") /\ SyncEngine /\ Goto(p, "clean") /\ Quiet

-----------------------------------------------------------------------------
(* publish *)

PubBackup(p) ==
    /\ At(p, "pub_backup")
    /\ InEngine([engine EXCEPT !.backup = IF root.public = None THEN @ ELSE root.public])
    /\ Goto(p, "pub_export")
    /\ Quiet

PubExport(p) ==
    /\ At(p, "pub_export")
    /\ InEngine([engine EXCEPT !.temps = @ \cup {"export.next"}])
    /\ Goto(p, "pub_journal")
    /\ Quiet

PubJournal(p) ==
    /\ At(p, "pub_journal")
    /\ InEngine([engine EXCEPT !.temps = @ \cup {"journal.next"}])
    /\ Goto(p, "pub_journal_rename")
    /\ Quiet

PubJournalRename(p) ==
    /\ At(p, "pub_journal_rename")
    /\ InEngine([engine EXCEPT !.temps = @ \ {"journal.next"},
                               !.journal = [old |-> loc[p].old, present |-> root.public # None,
                                            next |-> loc[p].goal]])
    /\ Goto(p, "pub_journal_sync")
    /\ Quiet

\* Fault: the journal is not yet durable when the export is replaced.
SyncJournalNever == UNCHANGED <<files, disk>>

SyncJournal == SyncEngine

PubJournalSync(p) == At(p, "pub_journal_sync") /\ SyncJournal /\ Goto(p, "pub_rename") /\ Quiet

PubRename(p) ==
    /\ At(p, "pub_rename")
    /\ InBoth([root EXCEPT !.public = loc[p].goal],
              [engine EXCEPT !.temps = @ \ {"export.next"}])
    /\ Goto(p, "pub_select")
    /\ Quiet

PubSelect(p) ==
    /\ At(p, "pub_select")
    /\ InEngine([engine EXCEPT !.current = loc[p].goal])
    /\ Goto(p, "pub_root_sync")
    /\ Quiet

PubRootSync(p) == At(p, "pub_root_sync") /\ SyncRoot /\ Goto(p, "pub_engine_sync") /\ Quiet
PubEngineSync(p) == At(p, "pub_engine_sync") /\ SyncEngine /\ Goto(p, "pub_commit") /\ Quiet

PubCommit(p) ==
    /\ At(p, "pub_commit")
    /\ InEngine([engine EXCEPT !.temps = @ \cup {"committed.next"}])
    /\ Goto(p, "pub_commit_rename")
    /\ Quiet

\* From here on a recovery keeps the new view.
PubCommitRename(p) ==
    /\ At(p, "pub_commit_rename")
    /\ InEngine([engine EXCEPT !.temps = @ \ {"committed.next"}, !.committed = loc[p].goal])
    /\ allowed' = allowed \cup {View(root, engine)}
    /\ Goto(p, "pub_commit_sync")
    /\ UNCHANGED <<wlock, rlock, pinned, env, seen>>

\* The commit is durable and reported; cleanup is left to the next invocation.
PubCommitSync(p) ==
    /\ At(p, "pub_commit_sync")
    /\ SyncEngine
    /\ allowed' = {View(root, engine)}
    /\ End(p)
    /\ UNCHANGED <<pinned, env>>

\* An ordinary failure removes the marker and rolls back.
Abort(p) ==
    /\ At(p, "abort")
    /\ InEngine([engine EXCEPT !.committed = None])
    /\ loc' = [loc EXCEPT ![p].ret = "publish_failed",
                          ![p].pc = IF engine.journal # None THEN "recover" ELSE "clean"]
    /\ Quiet

Changed(p) == {i \in Inputs : loc[p].goal[i] # loc[p].snap[i]}

\* publish has failed; an import that rewrote inputs rolls its inputs back once more.
PublishFailed(p) ==
    /\ At(p, "publish_failed")
    /\ Goto(p, IF loc[p].kind = "import" /\ Changed(p) # {} THEN "undo" ELSE "end")
    /\ Quiet /\ UNCHANGED <<files, disk>>

-----------------------------------------------------------------------------
(* jf_compile *)

\* locate: whoever will write fsyncs the whole hierarchy, before it has the lock and
\* whatever another invocation is doing.
Start(p, kind) ==
    /\ At(p, "idle")
    /\ SyncAll
    /\ loc' = [loc EXCEPT ![p] = [Idle EXCEPT !.pc = "lock", !.kind = kind,
                 !.ret = CASE kind = "compile" -> "selected"
                           [] kind = "import" -> "import_read"
                           [] kind = "legacy" -> "legacy"]]
    /\ UNCHANGED files /\ Quiet

\* Fault: a lock that other writers share.
FreeOfReaders == rlock = {}

\* The exclusive lock can be had.
Free == wlock = None /\ rlock = {}

\* The exclusive lock, or status 6.
Lock(p) ==
    /\ At(p, "lock")
    /\ IF Free
       THEN wlock' = p /\ seen' = {root.input} /\ Goto(p, "recover")
       ELSE Goto(p, "end") /\ UNCHANGED <<wlock, seen>>
    /\ UNCHANGED <<files, disk, rlock, pinned, env, allowed>>

EndAt(p) ==
    /\ At(p, "end")
    /\ End(p)
    /\ UNCHANGED <<files, disk, pinned, env, allowed>>

\* The previous generation is pinned and the lock released.
Selected(p) ==
    /\ At(p, "selected")
    /\ loc' = [loc EXCEPT ![p].prev = engine.current, ![p].attempt = 1,
                 ![p].pc = IF engine.current \in gens \cup {None} THEN "snapshot" ELSE "end"]
    /\ Unlock(p)
    /\ UNCHANGED <<files, disk, rlock, pinned, env, allowed>>

Unfinished(e) == (e.journal # None \/ e.ijournal # None) /\ ~CommittedJournal(e)

\* Fault: one attempt too many.
LastAttemptLate(a) == a = 4

LastAttempt(a) == a = 3

\* Fault: a retry is not counted.
NextAttemptSame(a) == a

NextAttempt(a) == a + 1

\* A changing snapshot is retried, at most twice; what the attempt read is freed.
Retry(p) ==
    /\ loc' = [loc EXCEPT ![p].pc = IF LastAttempt(loc[p].attempt) THEN "end" ELSE "snapshot",
                          ![p].attempt = IF LastAttempt(@) THEN @ ELSE NextAttempt(@),
                          ![p].snap = NoItems, ![p].goal = NoItems]
    /\ Unlock(p)

\* The inputs are collected under the shared lock; the collection itself may notice
\* a change, or that ROOT is another directory by now.
Snapshot(p) ==
    /\ At(p, "snapshot")
    /\ \/ /\ wlock = None /\ ~Unfinished(engine)
          /\ loc' = [loc EXCEPT ![p].snap = root.input, ![p].goal = root.input,
                                ![p].pc = IF loc[p].prev = root.input THEN "warm" ELSE "build"]
          /\ UNCHANGED <<wlock, seen>>
       \/ wlock = None /\ ~Unfinished(engine) /\ Retry(p)
       \/ (wlock # None \/ Unfinished(engine)) /\ Goto(p, "end") /\ UNCHANGED <<wlock, seen>>
    /\ UNCHANGED <<files, disk, rlock, pinned, env, allowed>>

\* What pin_locked answers without a requested generation.
PinResult ==
    IF Unfinished(engine) \/ engine.current \notin gens THEN None
    ELSE IF engine.journal # None /\ root.public # engine.current THEN None
    ELSE engine.current

\* The snapshot is the previous generation's: nothing to do unless the public
\* export differs from it.
Warm(p) ==
    /\ At(p, "warm")
    /\ IF wlock # None THEN Goto(p, "end") /\ UNCHANGED <<wlock, seen>>
       ELSE IF root.input # loc[p].snap THEN Retry(p)
       ELSE IF PinResult = None THEN Goto(p, "end") /\ UNCHANGED <<wlock, seen>>
       ELSE IF PinResult # loc[p].snap THEN Retry(p)
       ELSE Goto(p, IF root.public = loc[p].snap THEN "end" ELSE "build") /\ UNCHANGED <<wlock, seen>>
    /\ UNCHANGED <<files, disk, rlock, pinned, env, allowed>>

\* Parsing, products and staging, without a lock; then the exclusive lock.
Build(p) ==
    /\ At(p, "build")
    /\ \/ Free /\ wlock' = p
          /\ loc' = [loc EXCEPT ![p].pc = "recover", ![p].ret = "recheck"]
          /\ seen' = {root.input}
       \/ ~Free /\ Goto(p, "end") /\ UNCHANGED <<wlock, seen>>
    /\ UNCHANGED <<files, disk, rlock, pinned, env, allowed>>

\* Fault: what was built is published whatever the inputs are by now.
UnchangedInputsAny(p) == TRUE

UnchangedInputs(p) == root.input = loc[p].snap

Recheck(p) ==
    /\ At(p, "recheck")
    /\ IF UnchangedInputs(p)
       THEN /\ loc' = [loc EXCEPT ![p].old = engine.current, ![p].pc = "install"]
            /\ UNCHANGED <<wlock, seen>>
       ELSE Retry(p)
    /\ UNCHANGED <<files, disk, rlock, pinned, env, allowed>>

\* The staged directory becomes an immutable generation, or one is reused.
Install(p) ==
    /\ At(p, "install")
    /\ gens' = gens \cup {loc[p].goal}
    /\ Goto(p, "gens_sync")
    /\ Quiet /\ UNCHANGED <<root, engine, disk>>

\* Fault: only a generation this invocation renamed is made durable.
SyncGenerationsNever == UNCHANGED disk

SyncGenerations ==
    IF order = "global" THEN SyncAll ELSE dgens' = gens /\ UNCHANGED <<droot, dengine>>

GensSync(p) ==
    /\ At(p, "gens_sync")
    /\ SyncGenerations
    /\ Goto(p, IF loc[p].kind = "import" THEN "import_recheck" ELSE "decide")
    /\ Quiet /\ UNCHANGED files

\* Already selected and exported, or a publication.
Decide(p) ==
    /\ At(p, "decide")
    /\ Goto(p, IF loc[p].old = loc[p].goal /\ loc[p].goal = loc[p].snap /\ root.public = loc[p].goal
               THEN "end" ELSE "pub_backup")
    /\ Quiet /\ UNCHANGED <<files, disk>>

-----------------------------------------------------------------------------
(* jf_compile_import: everything under the exclusive lock *)

\* The merge of the imported script changes some inputs, and the result is valid.
ImportRead(p) ==
    /\ At(p, "import_read")
    /\ \E changed \in SUBSET (Inputs \ Editable) :
         loc' = [loc EXCEPT ![p].snap = root.input, ![p].old = engine.current,
                   ![p].goal = [i \in Inputs |-> IF i \in changed THEN Imported ELSE root.input[i]],
                   ![p].pc = "import_check"]
    /\ Quiet /\ UNCHANGED <<files, disk>>

ImportCheck(p) ==
    /\ At(p, "import_check")
    /\ Goto(p, IF UnchangedInputs(p) THEN "install" ELSE "end")
    /\ Quiet /\ UNCHANGED <<files, disk>>

\* The inventory is checked again right before anything is published.
ImportRecheck(p) ==
    /\ At(p, "import_recheck")
    /\ Goto(p, IF ~UnchangedInputs(p) THEN "end"
               ELSE IF Changed(p) = {} THEN "decide" ELSE "prep_backup")
    /\ Quiet /\ UNCHANGED <<files, disk>>

\* prepare_inputs: the original and the new content of each changed input.
PrepBackup(p) ==
    LET i == loc[p].k + 1 IN
    /\ At(p, "prep_backup")
    /\ i \in Inputs
    /\ InEngine(IF i \notin Changed(p) THEN engine
                ELSE [engine EXCEPT !.ibackup[i] = loc[p].snap[i], !.temps = @ \cup {"import.next"}])
    /\ loc' = [loc EXCEPT ![p].k = i]
    /\ Quiet

PrepJournal(p) ==
    /\ At(p, "prep_backup")
    /\ loc[p].k = NInputs
    /\ InEngine([engine EXCEPT !.temps = @ \cup {"import.journal.next"}])
    /\ loc' = [loc EXCEPT ![p].k = 0, ![p].pc = "prep_rename_journal"]
    /\ Quiet

PrepJournalRename(p) ==
    /\ At(p, "prep_rename_journal")
    /\ InEngine([engine EXCEPT !.temps = @ \ {"import.journal.next"},
                   !.ijournal = [changed |-> Changed(p),
                                 present |-> {i \in Inputs : loc[p].snap[i] # None}]])
    /\ Goto(p, "prep_sync")
    /\ Quiet

PrepSync(p) == At(p, "prep_sync") /\ SyncJournal /\ Goto(p, "prep_input") /\ Quiet

\* The new contents, renamed over the inputs one by one.
PrepInput(p) ==
    LET i == loc[p].k + 1 IN
    /\ At(p, "prep_input")
    /\ i \in Inputs
    /\ IF i \notin Changed(p) THEN UNCHANGED root
       ELSE root' = [root EXCEPT !.input[i] = loc[p].goal[i]]
    /\ loc' = [loc EXCEPT ![p].k = i]
    /\ seen' = seen \cup {root'.input}
    /\ UNCHANGED <<engine, gens, disk, wlock, rlock, pinned, env, allowed>>

PrepInputsDone(p) ==
    /\ At(p, "prep_input")
    /\ loc[p].k = NInputs
    /\ InEngine([engine EXCEPT !.temps = @ \ {"import.next"}])
    /\ loc' = [loc EXCEPT ![p].k = 0, ![p].pc = "prep_root_sync"]
    /\ Quiet

PrepRootSync(p) == At(p, "prep_root_sync") /\ SyncRoot /\ Goto(p, "decide") /\ Quiet

\* A failed import removes the marker and recovers before it returns.
Undo(p) ==
    /\ At(p, "undo")
    /\ InEngine([engine EXCEPT !.committed = None])
    /\ loc' = [loc EXCEPT ![p].ret = "end", ![p].pc = "recover", ![p].k = 0]
    /\ Quiet

-----------------------------------------------------------------------------
(* jf_generation_legacy_run and jf_generation_pin *)

\* The legacy exporter runs in this process's place and keeps its lock.
LegacyExport(p) ==
    /\ At(p, "legacy")
    /\ root' = [root EXCEPT !.public = Legacy]
    /\ allowed' = allowed \cup {Settled(root', engine)}
    /\ Goto(p, "end")
    /\ UNCHANGED <<engine, gens, disk, wlock, rlock, pinned, env, seen>>

ReaderLock(r) ==
    /\ r \notin rlock /\ wlock = None
    /\ rlock' = rlock \cup {r}
    /\ UNCHANGED <<files, disk, loc, wlock, pinned, env, history>>

\* Fault: a reader trusts the selector whatever the journal says.
PinsSelector == IF engine.current \in gens THEN engine.current ELSE None

Pins == PinResult

\* The reader validates what it pins, then releases the lock; None is a refusal.
Pin(r) ==
    /\ r \in rlock
    /\ pinned' = [pinned EXCEPT ![r] = Pins]
    /\ rlock' = rlock \ {r}
    /\ UNCHANGED <<files, disk, loc, wlock, env, history>>

-----------------------------------------------------------------------------
(* The environment *)

\* The user edits an input that no import rewrites meanwhile.
Edit(i, v) ==
    /\ v # root.input[i]
    /\ root' = [root EXCEPT !.input[i] = v]
    /\ droot' = [droot EXCEPT !.input[i] = v]
    /\ allowed' = {[a EXCEPT !.input[i] = v] : a \in allowed}
    /\ seen' = IF wlock = None THEN seen ELSE seen \cup {root'.input}
    /\ UNCHANGED <<engine, gens, dengine, dgens, loc, wlock, rlock, pinned, env>>

Recovering == {"recover", "undo_public", "undo_select", "undo_root_sync", "undo_engine_sync",
               "inputs", "inputs_root_sync", "inputs_engine_sync", "inputs_unlink",
               "inputs_unlink_sync", "inputs_clean", "inputs_clean_sync",
               "clean", "clean_sync", "clean_rest", "clean_end"}
Publishing == {"pub_backup", "pub_export", "pub_journal", "pub_journal_rename", "pub_journal_sync",
               "pub_rename", "pub_select", "pub_root_sync", "pub_engine_sync", "pub_commit",
               "pub_commit_rename", "pub_commit_sync"}
Preparing == {"prep_backup", "prep_rename_journal", "prep_sync", "prep_input", "prep_root_sync"}
Building == {"lock", "selected", "snapshot", "warm", "build", "recheck", "install", "gens_sync", "decide",
             "import_read", "import_check", "import_recheck", "abort", "undo", "legacy"}
\* The steps where an error is noticed; import ignores whether undo removed the marker.
Checked == (Recovering \cup Publishing \cup Preparing \cup Building) \ {"undo"}

\* Where an error at the invocation's present step leads.
OnError(p) ==
    LET l == loc[p].pc IN
    IF l \in Recovering THEN Unrecovered(p)
    ELSE IF l \in Publishing THEN "abort"
    ELSE IF l = "abort" THEN "publish_failed"
    ELSE IF l \in Preparing THEN "undo"
    ELSE IF loc[p].kind = "import" /\ l = "decide" /\ Changed(p) # {} THEN "undo"
    ELSE "end"

\* What a save that fails half way leaves behind.
LeftBehind(p) ==
    LET l == loc[p].pc
        i == loc[p].k + 1
    IN
    {engine} \cup
    (IF l = "pub_backup" /\ root.public # None THEN {[engine EXCEPT !.backup = Torn]}
     ELSE IF l = "pub_export" THEN {[engine EXCEPT !.temps = @ \cup {"export.next"}]}
     ELSE IF l = "pub_journal" THEN {[engine EXCEPT !.temps = @ \cup {"journal.next"}]}
     ELSE IF l = "pub_commit" THEN {[engine EXCEPT !.temps = @ \cup {"committed.next"}]}
     ELSE IF l = "prep_backup" /\ i > NInputs
          THEN {[engine EXCEPT !.temps = @ \cup {"import.journal.next"}]}
     ELSE IF l = "prep_backup" /\ i \in Changed(p)
          THEN {[engine EXCEPT !.ibackup[i] = IF loc[p].snap[i] = None THEN None ELSE Torn],
                [engine EXCEPT !.ibackup[i] = loc[p].snap[i], !.temps = @ \cup {"import.next"}]}
     ELSE {})

\* A system call of the present step fails.
Fail(p) ==
    /\ faults < MaxFaults
    /\ loc[p].pc \in Checked
    /\ loc[p].pc = "pub_commit_sync" => order \in CommitSyncFails
    /\ faults' = faults + 1
    /\ engine' \in LeftBehind(p)
    /\ loc' = [loc EXCEPT ![p].pc = OnError(p), ![p].k = 0]
    /\ UNCHANGED <<order, root, gens, disk, wlock, rlock, pinned, kills, power, history>>

Kill(p) ==
    /\ kills < MaxKills
    /\ ~At(p, "idle")
    /\ kills' = kills + 1
    /\ End(p)
    /\ UNCHANGED <<order, files, disk, pinned, faults, power, allowed>>

\* Entries reach the disk before their directory is fsynced: everything done so
\* far, or what was done in one directory, or one entry.
WritebackAll ==
    /\ power < MaxPower /\ SyncAll
    /\ UNCHANGED <<files, loc, wlock, rlock, pinned, env, history>>

WritebackDirectory ==
    /\ power < MaxPower /\ order # "global"
    /\ \/ droot' = root /\ UNCHANGED <<dengine, dgens>>
       \/ dengine' = engine /\ UNCHANGED <<droot, dgens>>
       \/ dgens' = gens /\ UNCHANGED <<droot, dengine>>
    /\ UNCHANGED <<files, loc, wlock, rlock, pinned, env, history>>

WritebackEntry ==
    /\ power < MaxPower /\ order = "entry"
    /\ \/ droot' = [droot EXCEPT !.public = root.public] /\ UNCHANGED dengine
       \/ \E i \in Inputs : droot' = [droot EXCEPT !.input[i] = root.input[i]] /\ UNCHANGED dengine
       \/ \E f \in DOMAIN engine : dengine' = [dengine EXCEPT ![f] = engine[f]] /\ UNCHANGED droot
    /\ UNCHANGED <<files, dgens, loc, wlock, rlock, pinned, env, history>>

PowerLoss ==
    /\ power < MaxPower
    /\ power' = power + 1
    /\ root' = droot /\ engine' = dengine /\ gens' = dgens
    /\ loc' = [p \in Procs |-> Idle]
    /\ wlock' = None /\ rlock' = {}
    /\ pinned' = [r \in Readers |-> None]
    /\ allowed' = {Settled(droot, dengine)}
    /\ seen' = {}
    /\ UNCHANGED <<order, disk, faults, kills>>

-----------------------------------------------------------------------------
RecoverStep(p) ==
    \/ Clean1(p) \/ Clean2(p) \/ Clean3(p) \/ Clean4(p)
    \/ Recover(p) \/ UndoPublic(p) \/ UndoSelect(p) \/ UndoRootSync(p) \/ UndoEngineSync(p)
    \/ RestoreInput(p) \/ InputsRestored(p) \/ InputsRootSync(p) \/ InputsEngineSync(p)
    \/ InputsUnlink(p) \/ InputsUnlinkSync(p) \/ InputsClean(p) \/ InputsCleanSync(p)

PublishStep(p) ==
    \/ PubBackup(p) \/ PubExport(p) \/ PubJournal(p) \/ PubJournalRename(p) \/ PubJournalSync(p)
    \/ PubRename(p) \/ PubSelect(p) \/ PubRootSync(p) \/ PubEngineSync(p)
    \/ PubCommit(p) \/ PubCommitRename(p) \/ PubCommitSync(p)
    \/ Abort(p) \/ PublishFailed(p)

CompileStep(p) ==
    \/ Lock(p) \/ Selected(p) \/ Snapshot(p) \/ Warm(p) \/ Build(p) \/ Recheck(p)
    \/ Install(p) \/ GensSync(p) \/ Decide(p) \/ EndAt(p)

ImportStep(p) ==
    \/ ImportRead(p) \/ ImportCheck(p) \/ ImportRecheck(p)
    \/ PrepBackup(p) \/ PrepJournal(p) \/ PrepJournalRename(p) \/ PrepSync(p)
    \/ PrepInput(p) \/ PrepInputsDone(p) \/ PrepRootSync(p) \/ Undo(p)

Step(p) == RecoverStep(p) \/ PublishStep(p) \/ CompileStep(p) \/ ImportStep(p) \/ LegacyExport(p)

Next ==
    \/ \E p \in Procs : Step(p) \/ (\E kind \in Kinds : Start(p, kind)) \/ Fail(p) \/ Kill(p)
    \/ \E r \in Readers : ReaderLock(r) \/ Pin(r)
    \/ \E i \in Editable, v \in Versions : Edit(i, v)
    \/ WritebackAll \/ WritebackDirectory \/ WritebackEntry
    \/ PowerLoss

Spec == Init /\ [][Next]_vars

\* A started invocation is scheduled.
FairSpec == Spec /\ \A p \in Procs : WF_vars(Step(p))

-----------------------------------------------------------------------------
(* Properties *)

Contents == Versions \cup {None}
Exports == Ids \cup {None, Legacy}

RootOK(r) == r.public \in Exports /\ r.input \in [Inputs -> Contents]

EngineOK(e) ==
    /\ e.journal = None \/ e.journal \in Journals
    /\ e.committed \in Ids \cup {None} /\ e.current \in Ids \cup {None}
    /\ e.backup \in Exports \cup {Torn}
    /\ e.ijournal = None \/ e.ijournal \in ImportJournals
    /\ e.ibackup \in [Inputs -> Contents \cup {Torn}]
    /\ e.temps \subseteq Temps

\* Types; and the compiler makes at most three attempts.
TypeOK ==
    /\ RootOK(root) /\ RootOK(droot) /\ EngineOK(engine) /\ EngineOK(dengine)
    /\ gens \subseteq Ids /\ dgens \subseteq gens
    /\ \A p \in Procs :
         /\ loc[p].pc \in Recovering \cup Publishing \cup Preparing \cup Building
                          \cup {"idle", "end", "publish_failed"}
         /\ loc[p].attempt \in 0..3 /\ loc[p].k \in 0..NInputs
         /\ loc[p].snap \in Ids /\ loc[p].goal \in Ids
         /\ loc[p].prev \in Ids \cup {None} /\ loc[p].old \in Ids \cup {None}
    /\ wlock \in Procs \cup {None} /\ rlock \subseteq Readers
    /\ pinned \in [Readers -> Ids \cup {None}]
    /\ faults \in 0..MaxFaults /\ kills \in 0..MaxKills /\ power \in 0..MaxPower

\* Whatever is interrupted, and by a power loss too, the next recovery succeeds:
\* "rollback can be repeated after any interruption".
RollbackRepeatable == Recoverable(root, engine) /\ Recoverable(droot, dengine)

\* Whatever is interrupted, and by a power loss too, the next recovery succeeds and
\* leaves either the complete old view (selector, public export, inputs) or the complete
\* new one of a transaction that reached its commit; a publication that was reported is
\* never taken back, a rolled back one never returns.  Where entries reach the disk in
\* any order, what that can break is that the recovery succeeds.
AllOrNothing ==
    \A d \in {<<root, engine>>, <<droot, dengine>>} :
        /\ order # "entry" => Recoverable(d[1], d[2])
        /\ Recoverable(d[1], d[2]) => Settled(d[1], d[2]) \in allowed

\* The generation a recovery selects is complete, on stable storage too.
SelectedComplete ==
    /\ Settled(root, engine).sel \in gens \cup {None}
    /\ Settled(droot, dengine).sel \in dgens \cup {None}

\* Every staging name is free when it is created with O_EXCL: no leftover of a dead
\* or failed writer makes later publications fail for ever.
StagingFree ==
    \A p \in Procs :
        /\ loc[p].pc = "pub_backup" => engine.backup = None
        /\ loc[p].pc = "pub_export" => "export.next" \notin engine.temps
        /\ loc[p].pc = "pub_journal" => "journal.next" \notin engine.temps
        /\ loc[p].pc = "pub_commit" => "committed.next" \notin engine.temps
        /\ loc[p].pc = "prep_backup" /\ loc[p].k = 0 =>
              engine.ibackup = NoItems /\ engine.temps \cap {"import.next", "import.journal.next"} = {}

\* What is published was built from inputs that were current at some instant since
\* the exclusive lock was taken: no compiler publishes over a newer generation
\* what it read before.
Fresh == \A p \in Procs : loc[p].pc \in Publishing \cup Preparing => loc[p].snap \in seen

\* A reader pins only the generation that the next recovery selects, whole, and
\* under a journal only when the public export is that generation's.
PinsSettled ==
    [][\A r \in Readers : pinned'[r] # pinned[r] /\ pinned'[r] # None =>
          /\ pinned'[r] = Settled(root, engine).sel
          /\ pinned'[r] \in gens
          /\ engine.journal # None => Settled(root, engine).pub = pinned'[r]]_vars

\* Every invocation returns, however often the inputs change under it.
Returns == \A p \in Procs : ~At(p, "idle") ~> At(p, "idle")

(***************************************************************************)
(* Refinement: the steps between which an invocation can be interrupted    *)
(* make one step of AtomicPublication, the renaming of the commit marker.  *)
(***************************************************************************)
\* Until it is reported, what was committed is undone by removing the marker.
Unreported == \E p \in Procs : loc[p].pc \in {"pub_commit_sync", "abort", "publish_failed", "undo"}

\* Where entries reach the disk in any order nothing of the kind is promised.
Found(r, e) ==
    IF order = "entry" THEN [sel |-> None, pub |-> None, input |-> NoItems] ELSE Settled(r, e)

Atomic ==
    INSTANCE AtomicPublication WITH
        view <- Found(root, engine),
        durable <- Found(droot, dengine),
        settled <- Found(root, IF Unreported THEN [engine EXCEPT !.committed = None] ELSE engine)

\* However an invocation's file operations are interrupted, by failures, kills or a power
\* loss, selector, public export and inputs change together, when the marker is renamed;
\* only a failed fsync of the marker takes that back, and then wholly.
PublishesAtomically == Atomic!Spec
=============================================================================
