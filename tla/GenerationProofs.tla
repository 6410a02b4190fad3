-------------------------- MODULE GenerationProofs --------------------------
(***************************************************************************)
(* Proofs about Generation, for any number of invocations, readers and     *)
(* inputs, any contents, any number of failures, kills and power losses,   *)
(* and whatever the order in which entries reach the disk.                 *)
(*                                                                         *)
(* The inductive invariant says of each step under the exclusive lock what *)
(* the steps before it have cleared, in the directory and on the disk.     *)
(***************************************************************************)
EXTENDS Generation, TLAPS

-----------------------------------------------------------------------------
(* Types *)

Pcs == Recovering \cup Publishing \cup Preparing \cup Building \cup {"idle", "end", "publish_failed"}

\* Where recover may return to.
Rets == {"selected", "import_read", "legacy", "recheck", "publish_failed", "end"}

RootRec == [public : Exports, input : Ids]

JournalRec == [old : Ids \cup {None}, present : BOOLEAN, next : Ids]

IJournalRec == [changed : SUBSET Inputs, present : SUBSET Inputs]

EngineRec ==
    [journal : JournalRec \cup {None}, committed : Ids \cup {None}, current : Ids \cup {None},
     backup : Exports \cup {Torn}, ijournal : IJournalRec \cup {None},
     ibackup : [Inputs -> Contents \cup {Torn}], temps : SUBSET Temps]

LocRec ==
    [pc : Pcs, ret : Rets \cup {"none"}, kind : Kinds \cup {"none"}, attempt : 0..3, k : 0..NInputs,
     prev : Ids \cup {None}, old : Ids \cup {None}, snap : Ids, goal : Ids]

\* Directories and locals are records of their fields.
FileTypes ==
    /\ root \in RootRec /\ droot \in RootRec
    /\ engine \in EngineRec /\ dengine \in EngineRec
    /\ gens \subseteq Ids /\ dgens \subseteq gens

LocTypes == loc \in [Procs -> LocRec]

RestTypes ==
    /\ wlock \in Procs \cup {None} /\ rlock \subseteq Readers
    /\ pinned \in [Readers -> Ids \cup {None}]
    /\ faults \in 0..MaxFaults /\ kills \in 0..MaxKills /\ power \in 0..MaxPower

-----------------------------------------------------------------------------
(* What the steps have cleared *)

Cleaning == {"clean", "clean_sync", "clean_rest", "clean_end"}

\* After a recovery, before the export is backed up.
Ready == {"recheck", "install", "gens_sync", "decide", "import_read", "import_check",
          "import_recheck", "pub_backup"} \cup Preparing

\* The steps under the exclusive lock.
Locked == Recovering \cup Publishing \cup Ready
          \cup {"selected", "abort", "publish_failed", "undo", "legacy"}

\* There is no journal, in the directory and on the disk.
NoJournal(e, d) == e.journal = None /\ d.journal = None
NoIJournal(e, d) == e.ijournal = None /\ d.ijournal = None

Whole(e, d) == e.backup # Torn /\ d.backup # Torn
IWhole(e, d) == \A i \in Inputs : e.ibackup[i] # Torn /\ d.ibackup[i] # Torn

\* A torn backup has no journal that would restore it.
TornInv(e, d) == (Whole(e, d) \/ NoJournal(e, d)) /\ (IWhole(e, d) \/ NoIJournal(e, d))

ITemps == {"import.next", "import.journal.next"}

\* The journal and the names of a publication, step by step.
PubFacts(l, e, d) ==
    /\ l.pc \in {"undo_public", "undo_select"} => e.journal # None
    /\ l.pc = "clean_sync" => e.journal = None
    /\ l.pc \in Ready \cup {"clean_rest", "clean_end", "pub_export", "pub_journal", "pub_journal_rename"}
          => NoJournal(e, d)
    /\ l.pc \in Ready \cup {"clean_end"} => e.backup = None
    /\ l.pc \in Ready \cup {"pub_export", "pub_journal", "pub_journal_rename"} => Whole(e, d)
    /\ l.pc \in Ready \cup {"clean_end", "pub_export"} => e.temps \cap Leftovers = {}
    /\ l.pc = "pub_journal" => "journal.next" \notin e.temps
    /\ l.pc \in {"pub_journal", "pub_journal_rename", "pub_journal_sync", "pub_rename", "pub_select",
                 "pub_root_sync", "pub_engine_sync", "pub_commit"} => "committed.next" \notin e.temps

\* The import's journal, backups and names are gone.
InputsSwept(e) == e.ijournal = None /\ e.ibackup = NoItems /\ e.temps \cap ITemps = {}

\* Those of an import, step by step.
ImportFacts(l, e, d) ==
    /\ l.pc \in {"inputs_unlink_sync", "inputs_clean"} => e.ijournal = None
    /\ l.pc = "inputs_clean_sync" => InputsSwept(e)
    /\ \/ l.pc \in Cleaning /\ l.ret \in {"recheck", "import_read"}
       \/ l.pc \in {"recheck", "install", "gens_sync", "import_read", "import_check", "import_recheck"}
       \/ l.pc = "prep_backup" /\ l.k = 0
       => InputsSwept(e) /\ d.ijournal = None /\ d.ibackup = NoItems
    /\ l.pc \in {"prep_backup", "prep_rename_journal"} => NoIJournal(e, d) /\ IWhole(e, d)

\* Every generation that is named is complete and on the disk.
Complete(e, dg) ==
    /\ e.current \in dg \cup {None}
    /\ e.journal # None => e.journal.old \in dg \cup {None}

GenFacts(l, g, dg) ==
    /\ l.old \in dg \cup {None}
    /\ l.pc = "gens_sync" => l.goal \in g
    /\ l.pc \in {"decide", "import_recheck"} \cup Preparing \cup Publishing => l.goal \in dg

\* The snapshot was current since the lock was taken.
SeenFacts(l, s) ==
    l.pc \in {"install", "gens_sync", "decide", "import_check", "import_recheck"}
             \cup Preparing \cup Publishing => l.snap \in s

LockInv ==
    /\ \A p \in Procs : loc[p].pc \in Locked => wlock = p
    /\ \A p \in Procs : loc[p].pc # "idle" => loc[p].ret \in Rets
    /\ wlock # None => root.input \in seen

StepInv ==
    \A p \in Procs : /\ PubFacts(loc[p], engine, dengine)
                     /\ ImportFacts(loc[p], engine, dengine)
                     /\ GenFacts(loc[p], gens, dgens)
                     /\ SeenFacts(loc[p], seen)

IInv ==
    /\ FileTypes /\ LocTypes /\ RestTypes
    /\ LockInv /\ StepInv
    /\ TornInv(engine, dengine)
    /\ Complete(engine, dgens) /\ Complete(dengine, dgens)

-----------------------------------------------------------------------------
(* Frames *)

\* A step outside the exclusive lock has nothing to show.
LEMMA Outside ==
    ASSUME NEW l, NEW e, NEW d, NEW g, NEW dg, NEW s, l.pc \notin Locked
    PROVE  PubFacts(l, e, d) /\ ImportFacts(l, e, d) /\ SeenFacts(l, s)
           /\ (l.old \in dg \cup {None} => GenFacts(l, g, dg))
<1> USE DEF Locked, Ready, Recovering, Publishing, Preparing, Cleaning
<1>1. PubFacts(l, e, d)
  BY DEF PubFacts
<1>2. ImportFacts(l, e, d)
  BY DEF ImportFacts
<1>3. SeenFacts(l, s)
  BY DEF SeenFacts
<1>4. l.old \in dg \cup {None} => GenFacts(l, g, dg)
  BY DEF GenFacts
<1> QED
  BY <1>1, <1>2, <1>3, <1>4

\* A step of the owner of the exclusive lock concerns nobody else: what it leaves
\* must suit its own next step.
LEMMA HolderStep ==
    ASSUME IInv, NEW p \in Procs, loc[p].pc \in Locked,
           FileTypes', LocTypes', RestTypes', dgens \subseteq dgens',
           \A q \in Procs \ {p} : loc'[q] = loc[q],
           loc'[p].pc \in Locked => wlock' = wlock,
           loc'[p].pc # "idle" => loc'[p].ret \in Rets,
           wlock' # None => root'.input \in seen',
           PubFacts(loc'[p], engine', dengine'), ImportFacts(loc'[p], engine', dengine'),
           GenFacts(loc'[p], gens', dgens'), SeenFacts(loc'[p], seen'),
           TornInv(engine', dengine'), Complete(engine', dgens'), Complete(dengine', dgens')
    PROVE  IInv'
<1>1. wlock = p /\ \A q \in Procs \ {p} : loc[q].pc \notin Locked
  BY DEF IInv, LockInv
<1>2. LockInv'
  BY <1>1 DEF IInv, LockInv
<1>3. ASSUME NEW q \in Procs
      PROVE  /\ PubFacts(loc'[q], engine', dengine') /\ ImportFacts(loc'[q], engine', dengine')
             /\ GenFacts(loc'[q], gens', dgens') /\ SeenFacts(loc'[q], seen')
  <2>1. CASE q = p
    BY <2>1
  <2>2. CASE q # p
    <3>1. loc'[q] = loc[q] /\ loc[q].pc \notin Locked
      BY <1>1, <2>2
    <3>2. loc[q].old \in dgens \cup {None}
      BY DEF IInv, StepInv, GenFacts
    <3> QED
      BY <3>1, <3>2, Outside
  <2> QED
    BY <2>1, <2>2
<1>4. StepInv'
  BY <1>3 DEF StepInv
<1> QED
  BY <1>2, <1>4 DEF IInv

\* n is what p's locals are when it goes on at l.
Moved(n, p, l) ==
    /\ loc' = [loc EXCEPT ![p] = n]
    /\ n.pc = l /\ n.ret = loc[p].ret /\ n.k = loc[p].k /\ n.old = loc[p].old
    /\ n.snap = loc[p].snap /\ n.goal = loc[p].goal

\* Goto changes one local.
LEMMA GotoLoc ==
    ASSUME LocTypes, NEW p \in Procs, NEW l \in Pcs, Goto(p, l)
    PROVE  \E n \in LocRec : Moved(n, p, l)
<1> DEFINE n == [loc[p] EXCEPT !.pc = l]
<1>1. loc[p] \in LocRec
  BY DEF LocTypes
<1>2. /\ n \in LocRec /\ n.pc = l /\ n.ret = loc[p].ret /\ n.k = loc[p].k /\ n.old = loc[p].old
      /\ n.snap = loc[p].snap /\ n.goal = loc[p].goal
  BY <1>1 DEF LocRec
<1>3. loc' = [loc EXCEPT ![p] = n]
  BY DEF Goto
<1> QED
  BY <1>2, <1>3 DEF Moved

\* The other invocations stay where they are.
LEMMA LocUpdate ==
    ASSUME LocTypes, NEW p \in Procs, NEW n \in LocRec, loc' = [loc EXCEPT ![p] = n]
    PROVE  LocTypes' /\ loc'[p] = n /\ \A q \in Procs \ {p} : loc'[q] = loc[q]
BY DEF LocTypes

\* What the owner's next step needs of the engine directory.
EngineFacts(n, e) ==
    /\ PubFacts(n, e, dengine) /\ ImportFacts(n, e, dengine)
    /\ GenFacts(n, gens, dgens) /\ SeenFacts(n, seen)
    /\ TornInv(e, dengine) /\ Complete(e, dgens)

\* A file operation of the owner in the engine directory.
LEMMA EngineStep ==
    ASSUME IInv, NEW p \in Procs, loc[p].pc \in Locked,
           NEW n \in LocRec, loc' = [loc EXCEPT ![p] = n], n.ret \in Rets,
           NEW e \in EngineRec, InEngine(e), UNCHANGED <<wlock, rlock, pinned, env, seen>>,
           EngineFacts(n, e)
    PROVE  IInv'
<1>1. /\ engine' = e /\ dengine' = dengine /\ root' = root /\ droot' = droot
      /\ gens' = gens /\ dgens' = dgens
  BY DEF InEngine, disk
<1>2. FileTypes' /\ RestTypes'
  BY <1>1 DEF IInv, FileTypes, RestTypes, env
<1>3. LocTypes' /\ loc'[p] = n /\ \A q \in Procs \ {p} : loc'[q] = loc[q]
  BY LocUpdate DEF IInv
<1>4. wlock' # None => root'.input \in seen'
  BY <1>1 DEF IInv, LockInv
<1>5. TornInv(engine', dengine') /\ Complete(engine', dgens') /\ Complete(dengine', dgens')
  BY <1>1 DEF IInv, EngineFacts
<1> QED
  BY <1>1, <1>2, <1>3, <1>4, <1>5, HolderStep DEF EngineFacts

\* The owner's step changes nothing but its locals.
LEMMA LocalStep ==
    ASSUME IInv, NEW p \in Procs, loc[p].pc \in Locked,
           NEW n \in LocRec, loc' = [loc EXCEPT ![p] = n], n.ret \in Rets,
           UNCHANGED <<files, disk, wlock, rlock, pinned, env, seen>>,
           EngineFacts(n, engine)
    PROVE  IInv'
<1>1. engine \in EngineRec /\ InEngine(engine)
  BY DEF InEngine, files, IInv, FileTypes
<1> QED
  BY <1>1, EngineStep

-----------------------------------------------------------------------------
(* cleanup_transaction and recover, in the engine directory *)

\* What an invocation under the lock has.
LEMMA HolderFacts ==
    ASSUME IInv, NEW p \in Procs
    PROVE  /\ PubFacts(loc[p], engine, dengine) /\ ImportFacts(loc[p], engine, dengine)
           /\ GenFacts(loc[p], gens, dgens) /\ SeenFacts(loc[p], seen)
           /\ TornInv(engine, dengine) /\ Complete(engine, dgens) /\ Complete(dengine, dgens)
           /\ loc[p] \in LocRec /\ engine \in EngineRec /\ dengine \in EngineRec
           /\ (loc[p].pc # "idle" => loc[p].ret \in Rets)
BY DEF IInv, StepInv, FileTypes, LocTypes, LockInv

\* None is no content, no generation and not the word Torn.
LEMMA Nones ==
    /\ None \notin Ids /\ None \notin Procs /\ None # Torn
    /\ Torn \notin Exports /\ Torn \notin Contents
BY GenerationAssumption DEF Exports, Contents

LEMMA RootFacts ==
    ASSUME IInv
    PROVE  root \in RootRec /\ droot \in RootRec /\ root.public \in Exports /\ root.public # Torn
           /\ root.input \in Ids
BY Nones DEF IInv, FileTypes, RootRec

\* cleanup_transaction and recover, where they change the engine directory.
LEMMA RecoverInEngine ==
    ASSUME IInv, NEW p \in Procs,
           Clean1(p) \/ Clean3(p) \/ UndoSelect(p) \/ InputsUnlink(p) \/ InputsClean(p)
    PROVE  IInv'
<1> USE DEF Locked, Ready, Recovering, Publishing, Preparing, Cleaning
<1>1. CASE Clean1(p)
  <2> DEFINE e == [engine EXCEPT !.journal = None]
  <2>1. /\ loc[p].pc = "clean" /\ Goto(p, "clean_sync") /\ InEngine(e)
        /\ UNCHANGED <<wlock, rlock, pinned, env, seen>>
    BY <1>1 DEF Clean1, At, Quiet, history, CleanJournal
  <2>2. PICK n \in LocRec : Moved(n, p, "clean_sync")
    BY <2>1, GotoLoc DEF IInv, Pcs
  <2>3. /\ e \in EngineRec /\ e.journal = None /\ e.committed = engine.committed
        /\ e.current = engine.current /\ e.backup = engine.backup
        /\ e.ijournal = engine.ijournal /\ e.ibackup = engine.ibackup
        /\ e.temps = engine.temps
    BY <2>1, HolderFacts DEF EngineRec, JournalRec, IJournalRec, Temps
  <2> HIDE DEF e
  <2>4. EngineFacts(n, e)
    BY <2>1, <2>2, <2>3, HolderFacts, Nones DEF EngineFacts, Moved, PubFacts, ImportFacts, InputsSwept, GenFacts, SeenFacts, TornInv, Complete, Whole, IWhole, NoJournal, NoIJournal, NoItems, Leftovers, ITemps
  <2> QED
    BY <2>1, <2>2, <2>3, <2>4, HolderFacts, EngineStep DEF Moved
<1>2. CASE Clean3(p)
  <2> DEFINE e == [engine EXCEPT !.backup = None, !.committed = None, !.temps = @ \ Leftovers]
  <2>1. /\ loc[p].pc = "clean_rest" /\ Goto(p, "clean_end") /\ InEngine(e)
        /\ UNCHANGED <<wlock, rlock, pinned, env, seen>>
    BY <1>2 DEF Clean3, At, Quiet, history
  <2>2. PICK n \in LocRec : Moved(n, p, "clean_end")
    BY <2>1, GotoLoc DEF IInv, Pcs
  <2>3. /\ e \in EngineRec /\ e.backup = None /\ e.committed = None
        /\ e.temps = engine.temps \ Leftovers /\ e.journal = engine.journal
        /\ e.current = engine.current /\ e.ijournal = engine.ijournal
        /\ e.ibackup = engine.ibackup
    BY <2>1, HolderFacts DEF EngineRec, JournalRec, IJournalRec, Temps, Exports
  <2> HIDE DEF e
  <2>4. EngineFacts(n, e)
    BY <2>1, <2>2, <2>3, HolderFacts, Nones DEF EngineFacts, Moved, PubFacts, ImportFacts, InputsSwept, GenFacts, SeenFacts, TornInv, Complete, Whole, IWhole, NoJournal, NoIJournal, NoItems, Leftovers, ITemps
  <2> QED
    BY <2>1, <2>2, <2>3, <2>4, HolderFacts, EngineStep DEF Moved
<1>3. CASE UndoSelect(p)
  <2> DEFINE e == [engine EXCEPT !.current = engine.journal.old]
  <2>1. /\ loc[p].pc = "undo_select" /\ Goto(p, "undo_root_sync") /\ InEngine(e)
        /\ UNCHANGED <<wlock, rlock, pinned, env, seen>>
    BY <1>3 DEF UndoSelect, At, Quiet, history
  <2>2. PICK n \in LocRec : Moved(n, p, "undo_root_sync")
    BY <2>1, GotoLoc DEF IInv, Pcs
  <2>3. /\ e \in EngineRec /\ e.current = engine.journal.old
        /\ e.journal = engine.journal /\ e.committed = engine.committed
        /\ e.backup = engine.backup /\ e.ijournal = engine.ijournal
        /\ e.ibackup = engine.ibackup /\ e.temps = engine.temps
    BY <2>1, HolderFacts DEF EngineRec, JournalRec, IJournalRec, Temps, PubFacts
  <2> HIDE DEF e
  <2>4. EngineFacts(n, e)
    BY <2>1, <2>2, <2>3, HolderFacts, Nones DEF EngineFacts, Moved, PubFacts, ImportFacts, InputsSwept, GenFacts, SeenFacts, TornInv, Complete, Whole, IWhole, NoJournal, NoIJournal, NoItems, Leftovers, ITemps
  <2> QED
    BY <2>1, <2>2, <2>3, <2>4, HolderFacts, EngineStep DEF Moved
<1>4. CASE InputsUnlink(p)
  <2> DEFINE e == [engine EXCEPT !.ijournal = None]
  <2>1. /\ loc[p].pc = "inputs_unlink" /\ Goto(p, "inputs_unlink_sync") /\ InEngine(e)
        /\ UNCHANGED <<wlock, rlock, pinned, env, seen>>
    BY <1>4 DEF InputsUnlink, At, Quiet, history
  <2>2. PICK n \in LocRec : Moved(n, p, "inputs_unlink_sync")
    BY <2>1, GotoLoc DEF IInv, Pcs
  <2>3. /\ e \in EngineRec /\ e.ijournal = None /\ e.journal = engine.journal
        /\ e.committed = engine.committed /\ e.current = engine.current
        /\ e.backup = engine.backup /\ e.ibackup = engine.ibackup
        /\ e.temps = engine.temps
    BY <2>1, HolderFacts DEF EngineRec, JournalRec, IJournalRec, Temps
  <2> HIDE DEF e
  <2>4. EngineFacts(n, e)
    BY <2>1, <2>2, <2>3, HolderFacts, Nones DEF EngineFacts, Moved, PubFacts, ImportFacts, InputsSwept, GenFacts, SeenFacts, TornInv, Complete, Whole, IWhole, NoJournal, NoIJournal, NoItems, Leftovers, ITemps
  <2> QED
    BY <2>1, <2>2, <2>3, <2>4, HolderFacts, EngineStep DEF Moved
<1>5. CASE InputsClean(p)
  <2> DEFINE e == [engine EXCEPT !.ibackup = NoItems, !.temps = @ \ {"import.next", "import.journal.next"}]
  <2>1. /\ loc[p].pc = "inputs_clean" /\ Goto(p, "inputs_clean_sync") /\ InEngine(e)
        /\ UNCHANGED <<wlock, rlock, pinned, env, seen>>
    BY <1>5 DEF InputsClean, At, Quiet, history
  <2>2. PICK n \in LocRec : Moved(n, p, "inputs_clean_sync")
    BY <2>1, GotoLoc DEF IInv, Pcs
  <2>3. /\ e \in EngineRec /\ e.ibackup = NoItems
        /\ e.temps = engine.temps \ {"import.next", "import.journal.next"}
        /\ e.journal = engine.journal /\ e.committed = engine.committed
        /\ e.current = engine.current /\ e.backup = engine.backup
        /\ e.ijournal = engine.ijournal
    BY <2>1, HolderFacts DEF EngineRec, JournalRec, IJournalRec, Temps, NoItems, Contents
  <2> HIDE DEF e
  <2>4. EngineFacts(n, e)
    BY <2>1, <2>2, <2>3, HolderFacts, Nones DEF EngineFacts, Moved, PubFacts, ImportFacts, InputsSwept, GenFacts, SeenFacts, TornInv, Complete, Whole, IWhole, NoJournal, NoIJournal, NoItems, Leftovers, ITemps
  <2> QED
    BY <2>1, <2>2, <2>3, <2>4, HolderFacts, EngineStep DEF Moved
<1> QED
  BY <1>1, <1>2, <1>3, <1>4, <1>5

\* publish, where it changes the engine directory.
LEMMA PublishInEngine ==
    ASSUME IInv, NEW p \in Procs,
           PubBackup(p) \/ PubExport(p) \/ PubJournal(p) \/ PubJournalRename(p) \/ PubSelect(p) \/ PubCommit(p) \/ PubCommitRename(p)
    PROVE  IInv'
<1> USE DEF Locked, Ready, Recovering, Publishing, Preparing, Cleaning
<1>1. CASE PubBackup(p)
  <2> DEFINE e == [engine EXCEPT !.backup = IF root.public = None THEN @ ELSE root.public]
  <2>1. /\ loc[p].pc = "pub_backup" /\ Goto(p, "pub_export") /\ InEngine(e)
        /\ UNCHANGED <<wlock, rlock, pinned, env, seen>>
    BY <1>1 DEF PubBackup, At, Quiet, history
  <2>2. PICK n \in LocRec : Moved(n, p, "pub_export")
    BY <2>1, GotoLoc DEF IInv, Pcs
  <2>3. /\ e \in EngineRec
        /\ e.backup = IF root.public = None THEN engine.backup ELSE root.public
        /\ e.journal = engine.journal /\ e.committed = engine.committed
        /\ e.current = engine.current /\ e.ijournal = engine.ijournal
        /\ e.ibackup = engine.ibackup /\ e.temps = engine.temps
    BY <2>1, HolderFacts, RootFacts DEF EngineRec, JournalRec, IJournalRec, Temps, RootRec
  <2> HIDE DEF e
  <2>4. EngineFacts(n, e)
    BY <2>1, <2>2, <2>3, HolderFacts, RootFacts, Nones DEF EngineFacts, Moved, PubFacts, ImportFacts, InputsSwept, GenFacts, SeenFacts, TornInv, Complete, Whole, IWhole, NoJournal, NoIJournal, NoItems, Leftovers, ITemps
  <2> QED
    BY <2>1, <2>2, <2>3, <2>4, HolderFacts, EngineStep DEF Moved
<1>2. CASE PubExport(p)
  <2> DEFINE e == [engine EXCEPT !.temps = @ \cup {"export.next"}]
  <2>1. /\ loc[p].pc = "pub_export" /\ Goto(p, "pub_journal") /\ InEngine(e)
        /\ UNCHANGED <<wlock, rlock, pinned, env, seen>>
    BY <1>2 DEF PubExport, At, Quiet, history
  <2>2. PICK n \in LocRec : Moved(n, p, "pub_journal")
    BY <2>1, GotoLoc DEF IInv, Pcs
  <2>3. /\ e \in EngineRec /\ e.temps = engine.temps \cup {"export.next"}
        /\ e.journal = engine.journal /\ e.committed = engine.committed
        /\ e.current = engine.current /\ e.backup = engine.backup
        /\ e.ijournal = engine.ijournal /\ e.ibackup = engine.ibackup
    BY <2>1, HolderFacts DEF EngineRec, JournalRec, IJournalRec, Temps
  <2> HIDE DEF e
  <2>4. EngineFacts(n, e)
    BY <2>1, <2>2, <2>3, HolderFacts, Nones DEF EngineFacts, Moved, PubFacts, ImportFacts, InputsSwept, GenFacts, SeenFacts, TornInv, Complete, Whole, IWhole, NoJournal, NoIJournal, NoItems, Leftovers, ITemps
  <2> QED
    BY <2>1, <2>2, <2>3, <2>4, HolderFacts, EngineStep DEF Moved
<1>3. CASE PubJournal(p)
  <2> DEFINE e == [engine EXCEPT !.temps = @ \cup {"journal.next"}]
  <2>1. /\ loc[p].pc = "pub_journal" /\ Goto(p, "pub_journal_rename") /\ InEngine(e)
        /\ UNCHANGED <<wlock, rlock, pinned, env, seen>>
    BY <1>3 DEF PubJournal, At, Quiet, history
  <2>2. PICK n \in LocRec : Moved(n, p, "pub_journal_rename")
    BY <2>1, GotoLoc DEF IInv, Pcs
  <2>3. /\ e \in EngineRec /\ e.temps = engine.temps \cup {"journal.next"}
        /\ e.journal = engine.journal /\ e.committed = engine.committed
        /\ e.current = engine.current /\ e.backup = engine.backup
        /\ e.ijournal = engine.ijournal /\ e.ibackup = engine.ibackup
    BY <2>1, HolderFacts DEF EngineRec, JournalRec, IJournalRec, Temps
  <2> HIDE DEF e
  <2>4. EngineFacts(n, e)
    BY <2>1, <2>2, <2>3, HolderFacts, Nones DEF EngineFacts, Moved, PubFacts, ImportFacts, InputsSwept, GenFacts, SeenFacts, TornInv, Complete, Whole, IWhole, NoJournal, NoIJournal, NoItems, Leftovers, ITemps
  <2> QED
    BY <2>1, <2>2, <2>3, <2>4, HolderFacts, EngineStep DEF Moved
<1>4. CASE PubJournalRename(p)
  <2> DEFINE e == [engine EXCEPT !.temps = @ \ {"journal.next"}, !.journal = [old |-> loc[p].old, present |-> root.public # None, next |-> loc[p].goal]]
  <2>1. /\ loc[p].pc = "pub_journal_rename" /\ Goto(p, "pub_journal_sync") /\ InEngine(e)
        /\ UNCHANGED <<wlock, rlock, pinned, env, seen>>
    BY <1>4 DEF PubJournalRename, At, Quiet, history
  <2>2. PICK n \in LocRec : Moved(n, p, "pub_journal_sync")
    BY <2>1, GotoLoc DEF IInv, Pcs
  <2>3. /\ e \in EngineRec /\ e.temps = engine.temps \ {"journal.next"}
        /\ e.journal = [old |-> loc[p].old, present |-> root.public # None, next |-> loc[p].goal]
        /\ e.committed = engine.committed /\ e.current = engine.current
        /\ e.backup = engine.backup /\ e.ijournal = engine.ijournal
        /\ e.ibackup = engine.ibackup
    BY <2>1, HolderFacts, ZenonT(60) DEF EngineRec, JournalRec, IJournalRec, Temps, LocRec
  <2> HIDE DEF e
  <2>4. EngineFacts(n, e)
    BY <2>1, <2>2, <2>3, HolderFacts, Nones DEF EngineFacts, Moved, PubFacts, ImportFacts, InputsSwept, GenFacts, SeenFacts, TornInv, Complete, Whole, IWhole, NoJournal, NoIJournal, NoItems, Leftovers, ITemps
  <2> QED
    BY <2>1, <2>2, <2>3, <2>4, HolderFacts, EngineStep DEF Moved
<1>5. CASE PubSelect(p)
  <2> DEFINE e == [engine EXCEPT !.current = loc[p].goal]
  <2>1. /\ loc[p].pc = "pub_select" /\ Goto(p, "pub_root_sync") /\ InEngine(e)
        /\ UNCHANGED <<wlock, rlock, pinned, env, seen>>
    BY <1>5 DEF PubSelect, At, Quiet, history
  <2>2. PICK n \in LocRec : Moved(n, p, "pub_root_sync")
    BY <2>1, GotoLoc DEF IInv, Pcs
  <2>3. /\ e \in EngineRec /\ e.current = loc[p].goal /\ e.journal = engine.journal
        /\ e.committed = engine.committed /\ e.backup = engine.backup
        /\ e.ijournal = engine.ijournal /\ e.ibackup = engine.ibackup
        /\ e.temps = engine.temps
    BY <2>1, HolderFacts DEF EngineRec, JournalRec, IJournalRec, Temps, LocRec
  <2> HIDE DEF e
  <2>4. EngineFacts(n, e)
    BY <2>1, <2>2, <2>3, HolderFacts, Nones DEF EngineFacts, Moved, PubFacts, ImportFacts, InputsSwept, GenFacts, SeenFacts, TornInv, Complete, Whole, IWhole, NoJournal, NoIJournal, NoItems, Leftovers, ITemps
  <2> QED
    BY <2>1, <2>2, <2>3, <2>4, HolderFacts, EngineStep DEF Moved
<1>6. CASE PubCommit(p)
  <2> DEFINE e == [engine EXCEPT !.temps = @ \cup {"committed.next"}]
  <2>1. /\ loc[p].pc = "pub_commit" /\ Goto(p, "pub_commit_rename") /\ InEngine(e)
        /\ UNCHANGED <<wlock, rlock, pinned, env, seen>>
    BY <1>6 DEF PubCommit, At, Quiet, history
  <2>2. PICK n \in LocRec : Moved(n, p, "pub_commit_rename")
    BY <2>1, GotoLoc DEF IInv, Pcs
  <2>3. /\ e \in EngineRec /\ e.temps = engine.temps \cup {"committed.next"}
        /\ e.journal = engine.journal /\ e.committed = engine.committed
        /\ e.current = engine.current /\ e.backup = engine.backup
        /\ e.ijournal = engine.ijournal /\ e.ibackup = engine.ibackup
    BY <2>1, HolderFacts DEF EngineRec, JournalRec, IJournalRec, Temps
  <2> HIDE DEF e
  <2>4. EngineFacts(n, e)
    BY <2>1, <2>2, <2>3, HolderFacts, Nones DEF EngineFacts, Moved, PubFacts, ImportFacts, InputsSwept, GenFacts, SeenFacts, TornInv, Complete, Whole, IWhole, NoJournal, NoIJournal, NoItems, Leftovers, ITemps
  <2> QED
    BY <2>1, <2>2, <2>3, <2>4, HolderFacts, EngineStep DEF Moved
<1>7. CASE PubCommitRename(p)
  <2> DEFINE e == [engine EXCEPT !.temps = @ \ {"committed.next"}, !.committed = loc[p].goal]
  <2>1. /\ loc[p].pc = "pub_commit_rename" /\ Goto(p, "pub_commit_sync") /\ InEngine(e)
        /\ UNCHANGED <<wlock, rlock, pinned, env, seen>>
    BY <1>7 DEF PubCommitRename, At, Quiet, history
  <2>2. PICK n \in LocRec : Moved(n, p, "pub_commit_sync")
    BY <2>1, GotoLoc DEF IInv, Pcs
  <2>3. /\ e \in EngineRec /\ e.temps = engine.temps \ {"committed.next"}
        /\ e.committed = loc[p].goal /\ e.journal = engine.journal
        /\ e.current = engine.current /\ e.backup = engine.backup
        /\ e.ijournal = engine.ijournal /\ e.ibackup = engine.ibackup
    BY <2>1, HolderFacts DEF EngineRec, JournalRec, IJournalRec, Temps, LocRec
  <2> HIDE DEF e
  <2>4. EngineFacts(n, e)
    BY <2>1, <2>2, <2>3, HolderFacts, Nones DEF EngineFacts, Moved, PubFacts, ImportFacts, InputsSwept, GenFacts, SeenFacts, TornInv, Complete, Whole, IWhole, NoJournal, NoIJournal, NoItems, Leftovers, ITemps
  <2> QED
    BY <2>1, <2>2, <2>3, <2>4, HolderFacts, EngineStep DEF Moved
<1> QED
  BY <1>1, <1>2, <1>3, <1>4, <1>5, <1>6, <1>7

\* prepare_inputs, and what removes the marker after a failure.
LEMMA ImportInEngine ==
    ASSUME IInv, NEW p \in Procs,
           PrepBackup(p) \/ PrepJournal(p) \/ PrepJournalRename(p) \/ PrepInputsDone(p)
           \/ Abort(p) \/ Undo(p)
    PROVE  IInv'
<1> USE DEF Locked, Ready, Recovering, Publishing, Preparing, Cleaning
<1> loc[p] \in LocRec
  BY HolderFacts
<1> loc \in [Procs -> LocRec]
  BY DEF IInv, LocTypes
<1>1. CASE PrepBackup(p)
  <2> DEFINE i == loc[p].k + 1
             n == [loc[p] EXCEPT !.k = i]
  <2>1. /\ loc[p].pc = "prep_backup" /\ i \in Inputs
        /\ loc' = [loc EXCEPT ![p].k = i]
        /\ UNCHANGED <<wlock, rlock, pinned, env, seen>>
        /\ InEngine(IF i \notin Changed(p) THEN engine
                    ELSE [engine EXCEPT !.ibackup[i] = loc[p].snap[i], !.temps = @ \cup {"import.next"}])
    BY <1>1 DEF PrepBackup, At, Quiet, history
  <2>2. /\ n \in LocRec /\ loc' = [loc EXCEPT ![p] = n]
        /\ n.pc = "prep_backup" /\ n.ret = loc[p].ret /\ n.k # 0 /\ n.old = loc[p].old
        /\ n.snap = loc[p].snap /\ n.goal = loc[p].goal
    BY <2>1, GenerationAssumption DEF LocRec, Inputs
  <2>3. PICK e \in EngineRec :
             /\ InEngine(e)
             /\ e.journal = engine.journal /\ e.committed = engine.committed /\ e.current = engine.current
             /\ e.backup = engine.backup /\ e.ijournal = engine.ijournal
             /\ \A j \in Inputs : e.ibackup[j] \in {engine.ibackup[j], loc[p].snap[j]}
             /\ e.temps \subseteq engine.temps \cup {"import.next"}
    <3>1. CASE i \notin Changed(p)
      BY <2>1, <3>1, HolderFacts
    <3>2. CASE i \in Changed(p)
      <4> DEFINE b == [engine.ibackup EXCEPT ![i] = loc[p].snap[i]]
                 e == [engine EXCEPT !.ibackup = b, !.temps = @ \cup {"import.next"}]
      <4>1. b \in [Inputs -> Contents \cup {Torn}] /\ \A j \in Inputs : b[j] \in {engine.ibackup[j], loc[p].snap[j]}
        BY <2>1, HolderFacts DEF EngineRec, LocRec, Ids, Contents
      <4> HIDE DEF b
      <4>2. /\ e \in EngineRec /\ e.journal = engine.journal /\ e.committed = engine.committed
            /\ e.current = engine.current /\ e.backup = engine.backup /\ e.ijournal = engine.ijournal
            /\ e.ibackup = b /\ e.temps = engine.temps \cup {"import.next"}
        BY <4>1, HolderFacts DEF EngineRec, Temps
      <4>3. InEngine(e)
        BY <2>1, <3>2 DEF b
      <4> HIDE DEF e
      <4> QED
        BY <4>1, <4>2, <4>3
    <3> QED
      BY <3>1, <3>2
  <2>4. \A j \in Inputs : loc[p].snap[j] # Torn
    BY Nones DEF LocRec, Ids, Contents
  <2> HIDE DEF n, i
  <2>5. PubFacts(n, e, dengine)
    BY <2>1, <2>2, <2>3, HolderFacts DEF PubFacts, Whole, NoJournal, Leftovers
  <2>6. ImportFacts(n, e, dengine)
    BY <2>1, <2>2, <2>3, <2>4, HolderFacts DEF ImportFacts, NoIJournal, IWhole
  <2>7. GenFacts(n, gens, dgens) /\ SeenFacts(n, seen)
    BY <2>1, <2>2, HolderFacts DEF GenFacts, SeenFacts
  <2>8. TornInv(e, dengine) /\ Complete(e, dgens)
    BY <2>1, <2>3, HolderFacts DEF TornInv, Complete, Whole, NoJournal, NoIJournal, ImportFacts
  <2> QED
    BY <2>1, <2>2, <2>3, <2>5, <2>6, <2>7, <2>8, HolderFacts, EngineStep DEF EngineFacts
<1>2. CASE PrepJournal(p)
  <2> DEFINE n == [loc[p] EXCEPT !.k = 0, !.pc = "prep_rename_journal"]
             e == [engine EXCEPT !.temps = @ \cup {"import.journal.next"}]
  <2>1. /\ loc[p].pc = "prep_backup" /\ InEngine(e)
        /\ loc' = [loc EXCEPT ![p].k = 0, ![p].pc = "prep_rename_journal"]
        /\ UNCHANGED <<wlock, rlock, pinned, env, seen>>
    BY <1>2 DEF PrepJournal, At, Quiet, history
  <2>2. /\ n \in LocRec /\ loc' = [loc EXCEPT ![p] = n]
        /\ n.pc = "prep_rename_journal" /\ n.ret = loc[p].ret /\ n.old = loc[p].old
        /\ n.snap = loc[p].snap /\ n.goal = loc[p].goal
    BY <2>1, GenerationAssumption DEF LocRec, Pcs
  <2>3. /\ e \in EngineRec /\ e.journal = engine.journal /\ e.committed = engine.committed
        /\ e.current = engine.current /\ e.backup = engine.backup /\ e.ijournal = engine.ijournal
        /\ e.ibackup = engine.ibackup /\ e.temps = engine.temps \cup {"import.journal.next"}
    BY HolderFacts DEF EngineRec, Temps
  <2> HIDE DEF n, e
  <2>4. EngineFacts(n, e)
    BY <2>1, <2>2, <2>3, HolderFacts
       DEF EngineFacts, PubFacts, ImportFacts, GenFacts, SeenFacts, TornInv, Complete,
           Whole, IWhole, NoJournal, NoIJournal, Leftovers
  <2> QED
    BY <2>1, <2>2, <2>3, <2>4, HolderFacts, EngineStep
<1>3. CASE PrepJournalRename(p)
  <2> DEFINE j == [changed |-> Changed(p), present |-> {i \in Inputs : loc[p].snap[i] # None}]
             e == [engine EXCEPT !.temps = @ \ {"import.journal.next"}, !.ijournal = j]
  <2>1. /\ loc[p].pc = "prep_rename_journal" /\ Goto(p, "prep_sync") /\ InEngine(e)
        /\ UNCHANGED <<wlock, rlock, pinned, env, seen>>
    BY <1>3 DEF PrepJournalRename, At, Quiet, history
  <2>2. PICK n \in LocRec : Moved(n, p, "prep_sync")
    BY <2>1, GotoLoc DEF IInv, Pcs
  <2>3. j \in IJournalRec
    BY DEF IJournalRec, Changed
  <2> HIDE DEF j
  <2>4. /\ e \in EngineRec /\ e.journal = engine.journal /\ e.committed = engine.committed
        /\ e.current = engine.current /\ e.backup = engine.backup /\ e.ijournal = j
        /\ e.ibackup = engine.ibackup /\ e.temps = engine.temps \ {"import.journal.next"}
    BY <2>3, HolderFacts DEF EngineRec, Temps
  <2> HIDE DEF e
  <2>5. EngineFacts(n, e)
    BY <2>1, <2>2, <2>4, HolderFacts
       DEF EngineFacts, Moved, PubFacts, ImportFacts, GenFacts, SeenFacts, TornInv, Complete,
           Whole, IWhole, NoJournal, NoIJournal, Leftovers
  <2> QED
    BY <2>1, <2>2, <2>4, <2>5, HolderFacts, EngineStep DEF Moved
<1>4. CASE PrepInputsDone(p)
  <2> DEFINE n == [loc[p] EXCEPT !.k = 0, !.pc = "prep_root_sync"]
             e == [engine EXCEPT !.temps = @ \ {"import.next"}]
  <2>1. /\ loc[p].pc = "prep_input" /\ InEngine(e)
        /\ loc' = [loc EXCEPT ![p].k = 0, ![p].pc = "prep_root_sync"]
        /\ UNCHANGED <<wlock, rlock, pinned, env, seen>>
    BY <1>4 DEF PrepInputsDone, At, Quiet, history
  <2>2. /\ n \in LocRec /\ loc' = [loc EXCEPT ![p] = n]
        /\ n.pc = "prep_root_sync" /\ n.ret = loc[p].ret /\ n.old = loc[p].old
        /\ n.snap = loc[p].snap /\ n.goal = loc[p].goal
    BY <2>1, GenerationAssumption DEF LocRec, Pcs
  <2>3. /\ e \in EngineRec /\ e.journal = engine.journal /\ e.committed = engine.committed
        /\ e.current = engine.current /\ e.backup = engine.backup /\ e.ijournal = engine.ijournal
        /\ e.ibackup = engine.ibackup /\ e.temps = engine.temps \ {"import.next"}
    BY HolderFacts DEF EngineRec, Temps
  <2> HIDE DEF n, e
  <2>4. EngineFacts(n, e)
    BY <2>1, <2>2, <2>3, HolderFacts
       DEF EngineFacts, PubFacts, ImportFacts, GenFacts, SeenFacts, TornInv, Complete,
           Whole, IWhole, NoJournal, NoIJournal, Leftovers
  <2> QED
    BY <2>1, <2>2, <2>3, <2>4, HolderFacts, EngineStep
<1>5. CASE Abort(p) \/ Undo(p)
  <2> DEFINE e == [engine EXCEPT !.committed = None]
  <2>1. PICK n \in LocRec :
             /\ loc' = [loc EXCEPT ![p] = n] /\ n.ret \in {"publish_failed", "end"}
             /\ n.pc \in {"recover", "clean"} /\ (n.pc = "clean" => n.ret = "publish_failed")
             /\ n.old = loc[p].old
    <3>1. CASE Abort(p)
      <4> DEFINE l == IF engine.journal # None THEN "recover" ELSE "clean"
                 n == [loc[p] EXCEPT !.ret = "publish_failed", !.pc = l]
      <4> l \in Pcs /\ "publish_failed" \in Rets
        BY DEF Pcs, Rets
      <4>1. n \in LocRec /\ n.ret = "publish_failed" /\ n.pc = l /\ n.old = loc[p].old
        BY DEF LocRec
      <4>2. loc' = [loc EXCEPT ![p] = n]
        BY <3>1 DEF Abort
      <4> QED
        BY <4>1, <4>2
    <3>2. CASE Undo(p)
      <4> DEFINE n == [loc[p] EXCEPT !.ret = "end", !.pc = "recover", !.k = 0]
      <4> "recover" \in Pcs /\ "end" \in Rets
        BY DEF Pcs, Rets
      <4> 0 \in 0..NInputs
        BY GenerationAssumption
      <4>1. n \in LocRec /\ n.ret = "end" /\ n.pc = "recover" /\ n.old = loc[p].old
        BY DEF LocRec
      <4>2. loc' = [loc EXCEPT ![p] = n]
        BY <3>2 DEF Undo
      <4> QED
        BY <4>1, <4>2
    <3> QED
      BY <1>5, <3>1, <3>2
  <2>2. loc[p].pc \in {"abort", "undo"} /\ InEngine(e) /\ UNCHANGED <<wlock, rlock, pinned, env, seen>>
    BY <1>5 DEF Abort, Undo, At, Quiet, history
  <2>3. /\ e \in EngineRec /\ e.journal = engine.journal /\ e.committed = None
        /\ e.current = engine.current /\ e.backup = engine.backup /\ e.ijournal = engine.ijournal
        /\ e.ibackup = engine.ibackup /\ e.temps = engine.temps
    BY HolderFacts DEF EngineRec, Temps
  <2> HIDE DEF e
  <2>4. EngineFacts(n, e)
    BY <2>1, <2>2, <2>3, HolderFacts
       DEF EngineFacts, PubFacts, ImportFacts, GenFacts, SeenFacts, TornInv, Complete,
           Whole, IWhole, NoJournal, NoIJournal
  <2> QED
    BY <2>1, <2>2, <2>3, <2>4, HolderFacts, EngineStep DEF Rets
<1> QED
  BY <1>1, <1>2, <1>3, <1>4, <1>5

\* The owner's decisions, which change nothing but its locals.
LEMMA Decisions ==
    ASSUME IInv, NEW p \in Procs,
           Recover(p) \/ InputsRestored(p) \/ PublishFailed(p) \/ Decide(p)
           \/ ImportRead(p) \/ ImportCheck(p) \/ ImportRecheck(p)
    PROVE  IInv'
<1> USE DEF Locked, Ready, Recovering, Publishing, Preparing, Cleaning
<1> loc[p] \in LocRec
  BY HolderFacts
<1> loc \in [Procs -> LocRec]
  BY DEF IInv, LocTypes
<1> UNCHANGED <<files, disk, wlock, rlock, pinned, env, seen>>
  BY DEF Recover, InputsRestored, PublishFailed, Decide, ImportRead, ImportCheck, ImportRecheck,
         Quiet, history
<1>1. CASE Recover(p)
  <2>1. PICK l \in {"inputs", "undo_public", "publish_failed", "end"} :
             /\ loc[p].pc = "recover" /\ Goto(p, l) /\ (l = "undo_public" => engine.journal # None)
    BY <1>1 DEF Recover, Unrecovered, At
  <2>2. PICK n \in LocRec : Moved(n, p, l)
    BY <2>1, GotoLoc DEF IInv, Pcs
  <2>3. EngineFacts(n, engine)
    BY <2>1, <2>2, HolderFacts
       DEF EngineFacts, Moved, PubFacts, ImportFacts, GenFacts, SeenFacts
  <2> QED
    BY <2>1, <2>2, <2>3, HolderFacts, LocalStep DEF Moved
<1>2. CASE InputsRestored(p)
  <2> DEFINE l == IF engine.ijournal = None THEN "inputs_clean" ELSE "inputs_root_sync"
             n == [loc[p] EXCEPT !.k = 0, !.pc = l]
  <2>1. loc[p].pc = "inputs" /\ loc' = [loc EXCEPT ![p] = n]
    BY <1>2 DEF InputsRestored, At
  <2> l \in Pcs /\ 0 \in 0..NInputs
    BY GenerationAssumption DEF Pcs
  <2>2. n \in LocRec /\ n.pc = l /\ n.ret = loc[p].ret /\ n.old = loc[p].old
    BY DEF LocRec
  <2> HIDE DEF n
  <2>3. EngineFacts(n, engine)
    BY <2>1, <2>2, HolderFacts
       DEF EngineFacts, PubFacts, ImportFacts, GenFacts, SeenFacts
  <2> QED
    BY <2>1, <2>2, <2>3, HolderFacts, LocalStep
<1>3. CASE PublishFailed(p)
  <2>1. PICK l \in {"undo", "end"} : loc[p].pc = "publish_failed" /\ Goto(p, l)
    BY <1>3 DEF PublishFailed, At
  <2>2. PICK n \in LocRec : Moved(n, p, l)
    BY <2>1, GotoLoc DEF IInv, Pcs, Building
  <2>3. EngineFacts(n, engine)
    BY <2>1, <2>2, HolderFacts
       DEF EngineFacts, Moved, PubFacts, ImportFacts, GenFacts, SeenFacts
  <2> QED
    BY <2>1, <2>2, <2>3, HolderFacts, LocalStep DEF Moved
<1>4. CASE Decide(p)
  <2>1. PICK l \in {"pub_backup", "end"} : loc[p].pc = "decide" /\ Goto(p, l)
    BY <1>4 DEF Decide, At
  <2>2. PICK n \in LocRec : Moved(n, p, l)
    BY <2>1, GotoLoc DEF IInv, Pcs
  <2>3. EngineFacts(n, engine)
    BY <2>1, <2>2, HolderFacts
       DEF EngineFacts, Moved, PubFacts, ImportFacts, GenFacts, SeenFacts
  <2> QED
    BY <2>1, <2>2, <2>3, HolderFacts, LocalStep DEF Moved
<1>5. CASE ImportRead(p)
  <2>1. PICK changed \in SUBSET (Inputs \ Editable) :
             loc' = [loc EXCEPT ![p].snap = root.input, ![p].old = engine.current,
                       ![p].goal = [i \in Inputs |-> IF i \in changed THEN Imported ELSE root.input[i]],
                       ![p].pc = "import_check"]
    BY <1>5 DEF ImportRead
  <2> DEFINE g == [i \in Inputs |-> IF i \in changed THEN Imported ELSE root.input[i]]
             n == [loc[p] EXCEPT !.snap = root.input, !.old = engine.current, !.goal = g,
                                 !.pc = "import_check"]
  <2>2. g \in Ids /\ root.input \in Ids /\ engine.current \in Ids \cup {None} /\ "import_check" \in Pcs
    BY RootFacts, HolderFacts, GenerationAssumption DEF EngineRec, Ids, Pcs, Building
  <2>3. loc[p].pc = "import_read" /\ loc' = [loc EXCEPT ![p] = n]
    BY <1>5, <2>1 DEF ImportRead, At
  <2> HIDE DEF g
  <2>4. /\ n \in LocRec /\ n.pc = "import_check" /\ n.ret = loc[p].ret /\ n.old = engine.current
        /\ n.snap = root.input
    BY <2>2 DEF LocRec
  <2> HIDE DEF n
  <2>5. root.input \in seen
    <3>1. wlock = p
      BY <2>3 DEF IInv, LockInv
    <3> QED
      BY <3>1, Nones DEF IInv, LockInv
  <2>6. EngineFacts(n, engine)
    BY <2>3, <2>4, <2>5, HolderFacts
       DEF EngineFacts, PubFacts, ImportFacts, GenFacts, SeenFacts, Complete
  <2> QED
    BY <2>3, <2>4, <2>6, HolderFacts, LocalStep
<1>6. CASE ImportCheck(p)
  <2>1. PICK l \in {"install", "end"} : loc[p].pc = "import_check" /\ Goto(p, l)
    BY <1>6 DEF ImportCheck, At
  <2>2. PICK n \in LocRec : Moved(n, p, l)
    BY <2>1, GotoLoc DEF IInv, Pcs, Building
  <2>3. EngineFacts(n, engine)
    BY <2>1, <2>2, HolderFacts
       DEF EngineFacts, Moved, PubFacts, ImportFacts, GenFacts, SeenFacts
  <2> QED
    BY <2>1, <2>2, <2>3, HolderFacts, LocalStep DEF Moved
<1>7. CASE ImportRecheck(p)
  <2>1. PICK l \in {"decide", "prep_backup", "end"} : loc[p].pc = "import_recheck" /\ Goto(p, l)
    BY <1>7 DEF ImportRecheck, At
  <2>2. PICK n \in LocRec : Moved(n, p, l)
    BY <2>1, GotoLoc DEF IInv, Pcs, Building
  <2>3. IWhole(engine, dengine) /\ NoIJournal(engine, dengine)
    BY <2>1, HolderFacts, Nones DEF ImportFacts, InputsSwept, NoItems, IWhole, NoIJournal
  <2>4. EngineFacts(n, engine)
    BY <2>1, <2>2, <2>3, HolderFacts
       DEF EngineFacts, Moved, PubFacts, ImportFacts, GenFacts, SeenFacts
  <2> QED
    BY <2>1, <2>2, <2>4, HolderFacts, LocalStep DEF Moved
<1> QED
  BY <1>1, <1>2, <1>3, <1>4, <1>5, <1>6, <1>7

-----------------------------------------------------------------------------
(* Steps that change ROOT *)

LEMMA RootStep ==
    ASSUME IInv, NEW p \in Procs, loc[p].pc \in Locked,
           NEW n \in LocRec, loc' = [loc EXCEPT ![p] = n], n.ret \in Rets,
           NEW r \in RootRec, NEW e \in EngineRec, root' = r, engine' = e,
           UNCHANGED <<gens, disk, wlock, rlock, pinned, env>>,
           seen \subseteq seen', r.input \in seen',
           EngineFacts(n, e)
    PROVE  IInv'
<1>1. dengine' = dengine /\ droot' = droot /\ gens' = gens /\ dgens' = dgens
  BY DEF disk
<1>2. FileTypes' /\ RestTypes'
  BY <1>1 DEF IInv, FileTypes, RestTypes, env
<1>3. LocTypes' /\ loc'[p] = n /\ \A q \in Procs \ {p} : loc'[q] = loc[q]
  BY LocUpdate DEF IInv
<1>4. TornInv(engine', dengine') /\ Complete(engine', dgens') /\ Complete(dengine', dgens')
  BY <1>1 DEF IInv, EngineFacts
<1>5. SeenFacts(n, seen')
  BY DEF EngineFacts, SeenFacts
<1> QED
  BY <1>1, <1>2, <1>3, <1>4, <1>5, HolderStep DEF EngineFacts

LEMMA OwnerSees ==
    ASSUME IInv, NEW p \in Procs, loc[p].pc \in Locked
    PROVE  wlock = p /\ wlock # None /\ root.input \in seen
<1>1. wlock = p
  BY DEF IInv, LockInv
<1> QED
  BY <1>1, Nones DEF IInv, LockInv

LEMMA StepsInRoot ==
    ASSUME IInv, NEW p \in Procs,
           UndoPublic(p) \/ RestoreInput(p) \/ PubRename(p) \/ PrepInput(p) \/ LegacyExport(p)
    PROVE  IInv'
<1> USE DEF Locked, Ready, Recovering, Publishing, Preparing, Cleaning
<1> loc[p] \in LocRec /\ engine \in EngineRec /\ root \in RootRec
  BY HolderFacts, RootFacts
<1> loc \in [Procs -> LocRec]
  BY DEF IInv, LocTypes
<1> UNCHANGED <<gens, disk, wlock, rlock, pinned, env>>
  BY DEF UndoPublic, RestoreInput, PubRename, PrepInput, LegacyExport, InBoth, Quiet
<1>1. CASE UndoPublic(p)
  <2>1. loc[p].pc = "undo_public" /\ engine.journal # None /\ engine' = engine /\ seen' = seen
    BY <1>1, HolderFacts DEF UndoPublic, At, PubFacts, Quiet, history
  <2>2. engine.backup \in Exports
    BY <2>1, HolderFacts DEF TornInv, Whole, NoJournal, EngineRec
  <2>3. PICK l \in {"undo_select", "publish_failed", "end"}, r \in RootRec :
             Goto(p, l) /\ root' = r /\ r.input = root.input
    <3>1. CASE engine.journal.present /\ engine.backup = None
      BY <1>1, <3>1 DEF UndoPublic, Unrecovered
    <3>2. CASE ~(engine.journal.present /\ engine.backup = None)
      <4> DEFINE x == IF engine.journal.present THEN engine.backup ELSE None
                 r == [root EXCEPT !.public = x]
      <4>1. x \in Exports
        BY <2>2 DEF Exports
      <4> HIDE DEF x
      <4>2. r \in RootRec /\ r.input = root.input
        BY <4>1 DEF RootRec
      <4>3. root' = r /\ Goto(p, "undo_select")
        BY <1>1, <3>2 DEF UndoPublic, x
      <4> QED
        BY <4>2, <4>3
    <3> QED
      BY <3>1, <3>2
  <2>4. PICK n \in LocRec : Moved(n, p, l)
    BY <2>3, GotoLoc DEF IInv, Pcs
  <2>5. EngineFacts(n, engine)
    BY <2>1, <2>3, <2>4, HolderFacts
       DEF EngineFacts, Moved, PubFacts, ImportFacts, GenFacts, SeenFacts
  <2> QED
    BY <2>1, <2>3, <2>4, <2>5, HolderFacts, OwnerSees, RootStep DEF Moved
<1>2. CASE RestoreInput(p)
  <2> DEFINE i == loc[p].k + 1
  <2>1. /\ loc[p].pc = "inputs" /\ engine.ijournal # None /\ i \in Inputs
        /\ engine' = engine /\ seen' = seen \cup {root'.input}
    BY <1>2 DEF RestoreInput, At
  <2>2. \A j \in Inputs : engine.ibackup[j] \in Contents
    BY <2>1, HolderFacts DEF TornInv, IWhole, NoIJournal, EngineRec
  <2>3. PICK n \in LocRec, r \in RootRec :
             /\ loc' = [loc EXCEPT ![p] = n] /\ root' = r
             /\ n.pc \in {"inputs", "publish_failed", "end"} /\ n.ret = loc[p].ret /\ n.old = loc[p].old
    <3>1. CASE loc' = [loc EXCEPT ![p].pc = Unrecovered(p), ![p].k = 0] /\ UNCHANGED root
      <4> DEFINE n == [loc[p] EXCEPT !.pc = Unrecovered(p), !.k = 0]
      <4>1. Unrecovered(p) \in {"publish_failed", "end"} /\ Unrecovered(p) \in Pcs /\ 0 \in 0..NInputs
        BY GenerationAssumption DEF Unrecovered, Pcs
      <4>2. n \in LocRec /\ n.pc = Unrecovered(p) /\ n.ret = loc[p].ret /\ n.old = loc[p].old
        BY <4>1 DEF LocRec
      <4>3. loc' = [loc EXCEPT ![p] = n]
        BY <3>1
      <4> QED
        BY <3>1, <4>1, <4>2, <4>3
    <3>2. CASE /\ loc' = [loc EXCEPT ![p].k = i]
               /\ root' = IF i \notin engine.ijournal.changed THEN root
                          ELSE [root EXCEPT !.input[i] = IF i \in engine.ijournal.present
                                                         THEN engine.ibackup[i] ELSE None]
      <4> DEFINE n == [loc[p] EXCEPT !.k = i]
      <4>1. n \in LocRec /\ n.pc = "inputs" /\ n.ret = loc[p].ret /\ n.old = loc[p].old
        BY <2>1, GenerationAssumption DEF LocRec, Inputs
      <4>2. loc' = [loc EXCEPT ![p] = n]
        BY <3>2
      <4>3. root' \in RootRec
        <5> DEFINE v == IF i \in engine.ijournal.present THEN engine.ibackup[i] ELSE None
                   in == [root.input EXCEPT ![i] = v]
        <5>1. in \in Ids
          BY <2>1, <2>2 DEF RootRec, Ids, Contents
        <5>2. root' = IF i \notin engine.ijournal.changed THEN root ELSE [root EXCEPT !.input = in]
          BY <3>2
        <5> HIDE DEF in
        <5> QED
          BY <5>1, <5>2 DEF RootRec
      <4> QED
        BY <4>1, <4>2, <4>3
    <3> QED
      BY <1>2, <3>1, <3>2 DEF RestoreInput
  <2> HIDE DEF i
  <2>4. EngineFacts(n, engine)
    BY <2>1, <2>3, HolderFacts
       DEF EngineFacts, PubFacts, ImportFacts, GenFacts, SeenFacts
  <2> QED
    BY <2>1, <2>3, <2>4, HolderFacts, RootStep
<1>3. CASE PubRename(p)
  <2> DEFINE r == [root EXCEPT !.public = loc[p].goal]
             e == [engine EXCEPT !.temps = @ \ {"export.next"}]
  <2>1. loc[p].pc = "pub_rename" /\ root' = r /\ engine' = e /\ Goto(p, "pub_select") /\ seen' = seen
    BY <1>3 DEF PubRename, At, InBoth, Quiet, history
  <2>2. r \in RootRec /\ r.input = root.input
    BY DEF RootRec, LocRec, Exports
  <2>3. /\ e \in EngineRec /\ e.journal = engine.journal /\ e.committed = engine.committed
        /\ e.current = engine.current /\ e.backup = engine.backup /\ e.ijournal = engine.ijournal
        /\ e.ibackup = engine.ibackup /\ e.temps = engine.temps \ {"export.next"}
    BY DEF EngineRec, Temps
  <2> HIDE DEF r, e
  <2>4. PICK n \in LocRec : Moved(n, p, "pub_select")
    BY <2>1, GotoLoc DEF IInv, Pcs
  <2>5. EngineFacts(n, e)
    BY <2>1, <2>3, <2>4, HolderFacts
       DEF EngineFacts, Moved, PubFacts, ImportFacts, GenFacts, SeenFacts, TornInv, Complete,
           Whole, IWhole, NoJournal, NoIJournal
  <2> QED
    BY <2>1, <2>2, <2>3, <2>4, <2>5, HolderFacts, OwnerSees, RootStep DEF Moved
<1>4. CASE PrepInput(p)
  <2> DEFINE i == loc[p].k + 1
             n == [loc[p] EXCEPT !.k = i]
             in == [root.input EXCEPT ![i] = loc[p].goal[i]]
  <2>1. /\ loc[p].pc = "prep_input" /\ i \in Inputs /\ engine' = engine
        /\ seen' = seen \cup {root'.input} /\ loc' = [loc EXCEPT ![p] = n]
        /\ root' = IF i \notin Changed(p) THEN root ELSE [root EXCEPT !.input = in]
    BY <1>4 DEF PrepInput, At
  <2>2. /\ n \in LocRec /\ n.pc = "prep_input" /\ n.ret = loc[p].ret /\ n.old = loc[p].old
        /\ n.snap = loc[p].snap /\ n.goal = loc[p].goal
    BY <2>1, GenerationAssumption DEF LocRec, Inputs
  <2>3. in \in Ids
    BY <2>1 DEF RootRec, LocRec, Ids
  <2> HIDE DEF in
  <2>4. PICK r \in RootRec : root' = r
    BY <2>1, <2>3 DEF RootRec
  <2> HIDE DEF i, n
  <2>5. EngineFacts(n, engine)
    BY <2>1, <2>2, HolderFacts
       DEF EngineFacts, PubFacts, ImportFacts, GenFacts, SeenFacts
  <2> QED
    BY <2>1, <2>2, <2>4, <2>5, HolderFacts, RootStep
<1>5. CASE LegacyExport(p)
  <2> DEFINE r == [root EXCEPT !.public = Legacy]
  <2>1. loc[p].pc = "legacy" /\ root' = r /\ engine' = engine /\ Goto(p, "end") /\ seen' = seen
    BY <1>5 DEF LegacyExport, At
  <2>2. r \in RootRec /\ r.input = root.input
    BY DEF RootRec, Exports
  <2> HIDE DEF r
  <2>3. PICK n \in LocRec : Moved(n, p, "end")
    BY <2>1, GotoLoc DEF IInv, Pcs
  <2>4. EngineFacts(n, engine)
    BY <2>1, <2>3, HolderFacts
       DEF EngineFacts, Moved, PubFacts, ImportFacts, GenFacts, SeenFacts
  <2> QED
    BY <2>1, <2>2, <2>3, <2>4, HolderFacts, OwnerSees, RootStep DEF Moved
<1> QED
  BY <1>1, <1>2, <1>3, <1>4, <1>5

-----------------------------------------------------------------------------
(* Steps that make entries durable *)

\* d holds, entry by entry, what the directory or the disk holds.
Blend(d) ==
    /\ d \in EngineRec
    /\ d.journal \in {engine.journal, dengine.journal}
    /\ d.current \in {engine.current, dengine.current}
    /\ d.backup \in {engine.backup, dengine.backup}
    /\ d.ijournal \in {engine.ijournal, dengine.ijournal}
    /\ d.ibackup \in {engine.ibackup, dengine.ibackup}

\* More is on the disk, nothing else.
MoreDurable ==
    /\ UNCHANGED files
    /\ droot' \in RootRec /\ Blend(dengine') /\ dgens' \in {gens, dgens}

\* Whatever reaches the disk, every step still finds what it needs.
LEMMA BlendKeeps ==
    ASSUME IInv, NEW d, Blend(d), NEW q \in Procs
    PROVE  /\ PubFacts(loc[q], engine, d) /\ ImportFacts(loc[q], engine, d)
           /\ TornInv(engine, d) /\ Complete(d, dgens)
<1>1. PubFacts(loc[q], engine, d)
  BY HolderFacts DEF Blend, PubFacts, NoJournal, Whole
<1>2. ImportFacts(loc[q], engine, d)
  BY HolderFacts DEF Blend, ImportFacts, InputsSwept, NoIJournal, IWhole
<1>3. TornInv(engine, d)
  BY HolderFacts DEF Blend, TornInv, NoIJournal, IWhole, NoJournal, Whole
<1>4. Complete(d, dgens)
  BY HolderFacts DEF Blend, Complete
<1> QED
  BY <1>1, <1>2, <1>3, <1>4

\* The owner makes entries durable and goes on at n.
LEMMA SyncStep ==
    ASSUME IInv, NEW p \in Procs, loc[p].pc \in Locked, MoreDurable,
           NEW n \in LocRec, loc' = [loc EXCEPT ![p] = n], n.ret \in Rets,
           UNCHANGED <<wlock, rlock, pinned, env, seen>>,
           PubFacts(n, engine, dengine'), ImportFacts(n, engine, dengine'),
           GenFacts(n, gens, dgens'), SeenFacts(n, seen)
    PROVE  IInv'
<1>1. UNCHANGED <<root, engine, gens>> /\ dgens \subseteq dgens'
  BY DEF MoreDurable, files, IInv, FileTypes
<1>2. FileTypes' /\ RestTypes'
  BY <1>1 DEF MoreDurable, Blend, IInv, FileTypes, RestTypes, env
<1>3. LocTypes' /\ loc'[p] = n /\ \A q \in Procs \ {p} : loc'[q] = loc[q]
  BY LocUpdate DEF IInv
<1>4. TornInv(engine, dengine') /\ Complete(dengine', dgens)
  BY BlendKeeps DEF MoreDurable
<1>5. TornInv(engine', dengine') /\ Complete(engine', dgens') /\ Complete(dengine', dgens')
  BY <1>1, <1>4 DEF IInv, Complete
<1>6. wlock' # None => root'.input \in seen'
  BY <1>1 DEF IInv, LockInv
<1> QED
  BY <1>1, <1>2, <1>3, <1>5, <1>6, HolderStep

\* fsync of the engine directory, of ROOT and of generations/.
LEMMA Syncs ==
    ASSUME IInv
    PROVE  /\ SyncEngine => MoreDurable /\ dengine' = engine
           /\ SyncRoot => MoreDurable
           /\ SyncGenerations /\ UNCHANGED files => MoreDurable /\ dgens' = gens
           /\ SyncAll /\ UNCHANGED files => MoreDurable
<1>1. Blend(engine) /\ Blend(dengine) /\ root \in RootRec /\ droot \in RootRec
  BY DEF Blend, IInv, FileTypes
<1> QED
  BY <1>1 DEF SyncEngine, SyncRoot, SyncGenerations, SyncAll, MoreDurable

\* fsync of the engine directory, and of ROOT, between two steps of the owner.
LEMMA SyncSteps ==
    ASSUME IInv, NEW p \in Procs,
           \/ Clean2(p) \/ UndoEngineSync(p) \/ InputsEngineSync(p) \/ InputsUnlinkSync(p)
           \/ InputsCleanSync(p) \/ PubJournalSync(p) \/ PubEngineSync(p) \/ PrepSync(p)
           \/ UndoRootSync(p) \/ InputsRootSync(p) \/ PubRootSync(p) \/ PrepRootSync(p)
    PROVE  IInv'
<1> USE DEF Locked, Ready, Recovering, Publishing, Preparing, Cleaning
<1> DEFINE EngineHops == {<<"clean_sync", "clean_rest">>, <<"undo_engine_sync", "inputs">>,
                           <<"inputs_engine_sync", "inputs_unlink">>, <<"inputs_unlink_sync", "inputs_clean">>,
                           <<"inputs_clean_sync", "clean">>, <<"pub_journal_sync", "pub_rename">>,
                           <<"pub_engine_sync", "pub_commit">>, <<"prep_sync", "prep_input">>}
           RootHops == {<<"undo_root_sync", "undo_engine_sync">>, <<"inputs_root_sync", "inputs_engine_sync">>,
                         <<"pub_root_sync", "pub_engine_sync">>, <<"prep_root_sync", "decide">>}
<1>1. PICK h \in EngineHops \cup RootHops :
           /\ loc[p].pc = h[1] /\ Goto(p, h[2]) /\ UNCHANGED <<wlock, rlock, pinned, env, seen>>
           /\ IF h \in EngineHops THEN SyncEngine ELSE SyncRoot
  <2>1. CASE Clean2(p)
    BY <2>1 DEF Clean2, At, Quiet, history
  <2>2. CASE UndoEngineSync(p)
    BY <2>2 DEF UndoEngineSync, At, Quiet, history
  <2>3. CASE InputsEngineSync(p)
    BY <2>3 DEF InputsEngineSync, At, Quiet, history
  <2>4. CASE InputsUnlinkSync(p)
    BY <2>4 DEF InputsUnlinkSync, At, Quiet, history
  <2>5. CASE InputsCleanSync(p)
    BY <2>5 DEF InputsCleanSync, At, Quiet, history
  <2>6. CASE PubJournalSync(p)
    BY <2>6 DEF PubJournalSync, At, Quiet, history, SyncJournal
  <2>7. CASE PubEngineSync(p)
    BY <2>7 DEF PubEngineSync, At, Quiet, history
  <2>8. CASE PrepSync(p)
    BY <2>8 DEF PrepSync, At, Quiet, history, SyncJournal
  <2>9. CASE UndoRootSync(p)
    BY <2>9 DEF UndoRootSync, At, Quiet, history
  <2>10. CASE InputsRootSync(p)
    BY <2>10 DEF InputsRootSync, At, Quiet, history
  <2>11. CASE PubRootSync(p)
    BY <2>11 DEF PubRootSync, At, Quiet, history
  <2>12. CASE PrepRootSync(p)
    BY <2>12 DEF PrepRootSync, At, Quiet, history
  <2> QED
    BY <2>1, <2>2, <2>3, <2>4, <2>5, <2>6, <2>7, <2>8, <2>9, <2>10, <2>11, <2>12
<1>2. h[2] \in Pcs /\ h[1] \in Locked
  <2>1. h[1] \in Locked
    BY <1>1
  <2>2. h[2] \in Recovering \cup Publishing \cup Preparing \cup {"decide"}
    BY <1>1
  <2> QED
    BY <2>1, <2>2 DEF Pcs, Building
<1>3. PICK n \in LocRec : Moved(n, p, h[2])
  BY <1>1, <1>2, GotoLoc DEF IInv
<1>4. MoreDurable /\ (h \in EngineHops => dengine' = engine)
  BY <1>1, Syncs
<1>5. PubFacts(loc[p], engine, dengine') /\ ImportFacts(loc[p], engine, dengine')
  BY <1>4, BlendKeeps DEF MoreDurable
<1>6. PubFacts(n, engine, dengine')
  BY <1>1, <1>3, <1>4, <1>5 DEF Moved, PubFacts, NoJournal
<1>7. ImportFacts(n, engine, dengine')
  BY <1>1, <1>3, <1>4, <1>5 DEF Moved, ImportFacts, InputsSwept
<1>8. GenFacts(n, gens, dgens') /\ SeenFacts(n, seen)
  <2>1. dgens \subseteq dgens'
    BY <1>4 DEF MoreDurable, IInv, FileTypes
  <2> QED
    BY <1>1, <1>3, <2>1, HolderFacts DEF Moved, GenFacts, SeenFacts
<1> QED
  BY <1>1, <1>2, <1>3, <1>4, <1>6, <1>7, <1>8, HolderFacts, SyncStep DEF Moved

\* The last fsync of a recovery, which returns to where it was called; the fsync of
\* generations/.
LEMMA LastSyncs ==
    ASSUME IInv, NEW p \in Procs, Clean4(p) \/ GensSync(p)
    PROVE  IInv'
<1> USE DEF Locked, Ready, Recovering, Publishing, Preparing, Cleaning
<1>1. CASE Clean4(p)
  <2>1. /\ loc[p].pc = "clean_end" /\ SyncEngine /\ Goto(p, loc[p].ret)
        /\ UNCHANGED <<wlock, rlock, pinned, env, seen>>
    BY <1>1 DEF Clean4, At
  <2>2. loc[p].ret \in Rets /\ loc[p].ret \in Pcs
    BY <2>1, HolderFacts DEF Rets, Pcs, Building
  <2>3. PICK n \in LocRec : Moved(n, p, loc[p].ret)
    BY <2>1, <2>2, GotoLoc DEF IInv
  <2>4. MoreDurable /\ dengine' = engine /\ dgens \subseteq dgens'
    BY <2>1, Syncs DEF MoreDurable, IInv, FileTypes
  <2>5. PubFacts(n, engine, dengine')
    BY <2>1, <2>2, <2>3, <2>4, HolderFacts, Nones DEF Moved, PubFacts, NoJournal, Whole, Rets
  <2>6. ImportFacts(n, engine, dengine')
    BY <2>1, <2>2, <2>3, <2>4, HolderFacts DEF Moved, ImportFacts, InputsSwept, Rets
  <2>7. GenFacts(n, gens, dgens') /\ SeenFacts(n, seen)
    BY <2>1, <2>2, <2>3, <2>4, HolderFacts DEF Moved, GenFacts, SeenFacts, Rets
  <2> QED
    BY <2>1, <2>2, <2>3, <2>4, <2>5, <2>6, <2>7, SyncStep DEF Moved
<1>2. CASE GensSync(p)
  <2>1. PICK l \in {"import_recheck", "decide"} :
             /\ loc[p].pc = "gens_sync" /\ SyncGenerations /\ UNCHANGED files /\ Goto(p, l)
             /\ UNCHANGED <<wlock, rlock, pinned, env, seen>>
    BY <1>2 DEF GensSync, At, Quiet, history
  <2>2. PICK n \in LocRec : Moved(n, p, l)
    BY <2>1, GotoLoc DEF IInv, Pcs, Building
  <2>3. MoreDurable /\ dgens' = gens /\ dgens \subseteq dgens'
    BY <2>1, Syncs DEF IInv, FileTypes
  <2>4. PubFacts(loc[p], engine, dengine') /\ ImportFacts(loc[p], engine, dengine')
    BY <2>3, BlendKeeps DEF MoreDurable
  <2>5. PubFacts(n, engine, dengine') /\ ImportFacts(n, engine, dengine')
    BY <2>1, <2>2, <2>4 DEF Moved, PubFacts, ImportFacts
  <2>6. GenFacts(n, gens, dgens') /\ SeenFacts(n, seen)
    BY <2>1, <2>2, <2>3, HolderFacts DEF Moved, GenFacts, SeenFacts
  <2> QED
    BY <2>1, <2>2, <2>3, <2>5, <2>6, HolderFacts, SyncStep DEF Moved
<1> QED
  BY <1>1, <1>2

\* The staged directory becomes a generation.
LEMMA InstallKeeps ==
    ASSUME IInv, NEW p \in Procs, Install(p)
    PROVE  IInv'
<1> USE DEF Locked, Ready, Recovering, Publishing, Preparing, Cleaning
<1>1. /\ loc[p].pc = "install" /\ gens' = gens \cup {loc[p].goal} /\ Goto(p, "gens_sync")
      /\ UNCHANGED <<root, engine, droot, dengine, dgens, wlock, rlock, pinned, env, seen>>
  BY DEF Install, At, Quiet, history, disk
<1>2. PICK n \in LocRec : Moved(n, p, "gens_sync")
  BY <1>1, GotoLoc DEF IInv, Pcs, Building
<1>3. LocTypes' /\ loc'[p] = n /\ \A q \in Procs \ {p} : loc'[q] = loc[q]
  BY <1>2, LocUpdate DEF IInv, Moved
<1>4. FileTypes' /\ RestTypes'
  BY <1>1, HolderFacts DEF IInv, FileTypes, RestTypes, env, LocRec
<1>5. PubFacts(n, engine, dengine) /\ ImportFacts(n, engine, dengine)
  BY <1>1, <1>2, HolderFacts DEF Moved, PubFacts, ImportFacts
<1>6. GenFacts(n, gens', dgens) /\ SeenFacts(n, seen)
  BY <1>1, <1>2, HolderFacts DEF Moved, GenFacts, SeenFacts
<1>7. wlock' # None => root'.input \in seen'
  BY <1>1 DEF IInv, LockInv
<1> QED
  BY <1>1, <1>2, <1>3, <1>4, <1>5, <1>6, <1>7, HolderFacts, HolderStep DEF Moved

-----------------------------------------------------------------------------
(* Steps outside the lock, and steps that take or release it *)

\* An invocation comes to a step outside the lock, with the lock released if it had it.
LEMMA OutsideStep ==
    ASSUME IInv, NEW p \in Procs, MoreDurable, RestTypes',
           NEW n \in LocRec, loc' = [loc EXCEPT ![p] = n],
           n.pc \notin Locked, n.pc # "idle" => n.ret \in Rets, n.old \in dgens \cup {None},
           UNCHANGED <<wlock, seen>> \/ (wlock = p /\ wlock' = None)
    PROVE  IInv'
<1>1. UNCHANGED <<root, engine, gens>> /\ dgens \subseteq dgens'
  BY DEF MoreDurable, files, IInv, FileTypes
<1>2. FileTypes'
  BY <1>1 DEF MoreDurable, Blend, IInv, FileTypes
<1>3. LocTypes' /\ loc'[p] = n /\ \A q \in Procs \ {p} : loc'[q] = loc[q]
  BY LocUpdate DEF IInv
<1>4. ASSUME NEW q \in Procs, loc'[q].pc \in Locked
      PROVE  q # p /\ loc'[q] = loc[q] /\ wlock = q /\ UNCHANGED <<wlock, seen>>
  BY <1>3, <1>4 DEF IInv, LockInv
<1>5. ASSUME NEW q \in Procs
      PROVE  /\ PubFacts(loc'[q], engine', dengine') /\ ImportFacts(loc'[q], engine', dengine')
             /\ GenFacts(loc'[q], gens', dgens') /\ SeenFacts(loc'[q], seen')
  <2>1. CASE loc'[q].pc \notin Locked
    <3>1. loc'[q].old \in dgens' \cup {None}
      BY <1>1, <1>3, HolderFacts DEF GenFacts
    <3> QED
      BY <2>1, <3>1, Outside
  <2>2. CASE loc'[q].pc \in Locked
    <3>1. loc'[q] = loc[q] /\ UNCHANGED seen
      BY <1>4, <2>2
    <3>2. PubFacts(loc[q], engine, dengine') /\ ImportFacts(loc[q], engine, dengine')
      BY BlendKeeps DEF MoreDurable
    <3>3. GenFacts(loc[q], gens, dgens') /\ SeenFacts(loc[q], seen)
      BY <1>1, HolderFacts DEF GenFacts
    <3> QED
      BY <1>1, <3>1, <3>2, <3>3
  <2> QED
    BY <2>1, <2>2
<1>6. StepInv'
  BY <1>5 DEF StepInv
<1>7. LockInv'
  BY <1>1, <1>3, <1>4 DEF IInv, LockInv
<1>8. TornInv(engine, dengine') /\ Complete(dengine', dgens)
  BY BlendKeeps DEF MoreDurable
<1>9. TornInv(engine', dengine') /\ Complete(engine', dgens') /\ Complete(dengine', dgens')
  BY <1>1, <1>8 DEF IInv, Complete
<1> QED
  BY <1>2, <1>3, <1>6, <1>7, <1>9 DEF IInv

\* Nothing reaches the disk in most of them.
LEMMA NothingDurable ==
    ASSUME IInv, UNCHANGED <<files, disk>>
    PROVE  MoreDurable
BY DEF MoreDurable, Blend, disk, IInv, FileTypes

\* An invocation takes the lock that nobody has.
LEMMA LockStep ==
    ASSUME IInv, NEW p \in Procs, UNCHANGED <<files, disk, rlock, pinned, env>>,
           NEW n \in LocRec, loc' = [loc EXCEPT ![p] = n], n.pc = "recover", n.ret \in Rets,
           n.old = loc[p].old, wlock = None, wlock' = p, seen' = {root.input}
    PROVE  IInv'
<1>1. UNCHANGED <<root, engine, gens, droot, dengine, dgens>>
  BY DEF files, disk
<1>2. FileTypes' /\ RestTypes'
  BY <1>1 DEF IInv, FileTypes, RestTypes, env
<1>3. LocTypes' /\ loc'[p] = n /\ \A q \in Procs \ {p} : loc'[q] = loc[q]
  BY LocUpdate DEF IInv
<1>4. \A q \in Procs : loc[q].pc \notin Locked
  BY Nones DEF IInv, LockInv
<1>5. LockInv'
  BY <1>1, <1>3, <1>4 DEF IInv, LockInv
<1>6. ASSUME NEW q \in Procs
      PROVE  /\ PubFacts(loc'[q], engine, dengine) /\ ImportFacts(loc'[q], engine, dengine)
             /\ GenFacts(loc'[q], gens, dgens) /\ SeenFacts(loc'[q], seen')
  <2>1. CASE q = p
    BY <1>3, <2>1, HolderFacts
       DEF PubFacts, ImportFacts, GenFacts, SeenFacts, Ready, Publishing, Preparing, Cleaning
  <2>2. CASE q # p
    <3>1. loc'[q] = loc[q] /\ loc[q].pc \notin Locked /\ loc[q].old \in dgens \cup {None}
      BY <1>3, <1>4, <2>2, HolderFacts DEF GenFacts
    <3> QED
      BY <3>1, Outside
  <2> QED
    BY <2>1, <2>2
<1>7. StepInv'
  BY <1>1, <1>6 DEF StepInv
<1> QED
  BY <1>1, <1>2, <1>3, <1>5, <1>7 DEF IInv

\* A retry goes back to the snapshot, or gives up.
LEMMA RetryLoc ==
    ASSUME IInv, NEW p \in Procs, Retry(p)
    PROVE  /\ \E n \in LocRec : /\ loc' = [loc EXCEPT ![p] = n] /\ n.pc \in {"end", "snapshot"}
                                /\ n.ret = loc[p].ret /\ n.old = loc[p].old /\ n.k = loc[p].k
                                /\ n.snap = NoItems /\ n.goal = NoItems
           /\ UNCHANGED <<wlock, seen>> \/ (wlock = p /\ wlock' = None)
<1> DEFINE l == IF loc[p].attempt = 3 THEN "end" ELSE "snapshot"
           a == IF loc[p].attempt = 3 THEN loc[p].attempt ELSE loc[p].attempt + 1
           n == [loc[p] EXCEPT !.pc = l, !.attempt = a, !.snap = NoItems, !.goal = NoItems]
<1>1. loc[p] \in LocRec /\ loc \in [Procs -> LocRec]
  BY DEF IInv, LocTypes
<1>2. l \in Pcs /\ a \in 0..3 /\ NoItems \in Ids
  BY <1>1 DEF Pcs, Building, LocRec, NoItems, Ids
<1>3. loc' = [loc EXCEPT ![p] = n]
  BY <1>1 DEF Retry, LastAttempt, NextAttempt
<1>4. l \in {"end", "snapshot"}
  OBVIOUS
<1> HIDE DEF l, a
<1>5. /\ n \in LocRec /\ n.pc = l /\ n.ret = loc[p].ret /\ n.old = loc[p].old /\ n.k = loc[p].k
      /\ n.snap = NoItems /\ n.goal = NoItems
  BY <1>1, <1>2 DEF LocRec
<1>6. UNCHANGED <<wlock, seen>> \/ (wlock = p /\ wlock' = None)
  BY DEF Retry, Unlock
<1> QED
  BY <1>3, <1>4, <1>5, <1>6

\* The invocation is away.
LEMMA IdleRec == Idle \in LocRec /\ Idle.pc = "idle" /\ Idle.old = None
<1>1. NoItems \in Ids /\ 0 \in 0..NInputs
  BY GenerationAssumption DEF NoItems, Ids
<1> QED
  BY <1>1 DEF Idle, LocRec, Pcs

\* It returns, or is killed.
LEMMA EndStep ==
    ASSUME IInv, NEW p \in Procs, End(p), MoreDurable, RestTypes'
    PROVE  IInv'
<1>1. "idle" \notin Locked
  BY DEF Locked, Ready, Recovering, Publishing, Preparing
<1>2. loc' = [loc EXCEPT ![p] = Idle] /\ (UNCHANGED <<wlock, seen>> \/ (wlock = p /\ wlock' = None))
  BY DEF End, Unlock
<1> QED
  BY <1>1, <1>2, IdleRec, OutsideStep

\* A goto outside the lock.
LEMMA OutsideGoto ==
    ASSUME IInv, NEW p \in Procs, NEW l \in Pcs, l \notin Locked, loc[p].pc # "idle", Goto(p, l),
           UNCHANGED <<files, disk, wlock, rlock, pinned, env, seen>>
    PROVE  IInv'
<1>1. PICK n \in LocRec : Moved(n, p, l)
  BY GotoLoc DEF IInv
<1>2. RestTypes' /\ MoreDurable
  BY NothingDurable DEF IInv, RestTypes, env
<1>3. n.ret \in Rets /\ n.old \in dgens \cup {None}
  BY <1>1, HolderFacts DEF Moved, GenFacts
<1> QED
  BY <1>1, <1>2, <1>3, OutsideStep DEF Moved

\* The same for a retry.
LEMMA RetryKeeps ==
    ASSUME IInv, NEW p \in Procs, loc[p].pc # "idle", Retry(p),
           UNCHANGED <<files, disk, rlock, pinned, env>>
    PROVE  IInv'
<1>1. "end" \notin Locked /\ "snapshot" \notin Locked
  BY DEF Locked, Ready, Recovering, Publishing, Preparing
<1>2. PICK n \in LocRec : /\ loc' = [loc EXCEPT ![p] = n] /\ n.pc \in {"end", "snapshot"}
                          /\ n.ret = loc[p].ret /\ n.old = loc[p].old
  BY RetryLoc
<1>3. UNCHANGED <<wlock, seen>> \/ (wlock = p /\ wlock' = None)
  BY RetryLoc
<1>4. RestTypes' /\ MoreDurable
  BY <1>3, NothingDurable DEF IInv, RestTypes, env
<1>5. n.ret \in Rets /\ n.old \in dgens \cup {None}
  BY <1>2, HolderFacts DEF GenFacts
<1> QED
  BY <1>1, <1>2, <1>3, <1>4, <1>5, OutsideStep

\* The steps of a compiler that are outside the lock, take it or release it.
LEMMA CompilerSteps ==
    ASSUME IInv, NEW p \in Procs,
           \/ (\E kind \in Kinds : Start(p, kind)) \/ Lock(p) \/ EndAt(p) \/ Selected(p) \/ Snapshot(p)
           \/ Warm(p) \/ Build(p) \/ Recheck(p) \/ PubCommitSync(p) \/ Kill(p)
    PROVE  IInv'
<1> loc[p] \in LocRec /\ loc \in [Procs -> LocRec]
  BY DEF IInv, LocTypes
<1>1. /\ "end" \notin Locked /\ "lock" \notin Locked /\ "snapshot" \notin Locked
      /\ "warm" \notin Locked /\ "build" \notin Locked
  BY DEF Locked, Ready, Recovering, Publishing, Preparing
<1>2. {"end", "lock", "snapshot", "warm", "build", "recover", "install"} \subseteq Pcs
  BY DEF Pcs, Building, Recovering
<1>3. ASSUME NEW kind \in Kinds, Start(p, kind)
      PROVE  IInv'
  <2> DEFINE r == CASE kind = "compile" -> "selected" [] kind = "import" -> "import_read"
                    [] kind = "legacy" -> "legacy"
             n == [Idle EXCEPT !.pc = "lock", !.kind = kind, !.ret = r]
  <2>1. r \in Rets
    BY GenerationAssumption DEF Rets
  <2>2. loc' = [loc EXCEPT ![p] = n] /\ SyncAll /\ UNCHANGED <<files, wlock, rlock, pinned, env, seen>>
    BY <1>3 DEF Start, Quiet, history
  <2> HIDE DEF r
  <2>3. n \in LocRec /\ n.pc = "lock" /\ n.ret = r /\ n.old = None
    BY <1>2, <2>1, IdleRec DEF LocRec
  <2>4. RestTypes' /\ MoreDurable
    BY <2>2, Syncs DEF IInv, RestTypes, env
  <2> HIDE DEF n
  <2> QED
    BY <1>1, <2>1, <2>2, <2>3, <2>4, OutsideStep
<1>4. CASE Lock(p)
  <2>1. loc[p].pc = "lock" /\ UNCHANGED <<files, disk, rlock, pinned, env>>
    BY <1>4 DEF Lock, At
  <2>2. CASE Free
    <3>1. wlock = None /\ wlock' = p /\ seen' = {root.input} /\ Goto(p, "recover")
      BY <1>4, <2>2 DEF Lock, Free
    <3>2. PICK n \in LocRec : Moved(n, p, "recover")
      BY <1>2, <3>1, GotoLoc DEF IInv
    <3> QED
      BY <2>1, <3>1, <3>2, HolderFacts, LockStep DEF Moved
  <2>3. CASE ~Free
    BY <1>1, <1>2, <1>4, <2>1, <2>3, OutsideGoto DEF Lock
  <2> QED
    BY <2>2, <2>3
<1>5. CASE EndAt(p)
  <2>1. End(p) /\ UNCHANGED <<files, disk, pinned, env>>
    BY <1>5 DEF EndAt
  <2>2. RestTypes' /\ MoreDurable
    BY <2>1, NothingDurable DEF End, Unlock, IInv, RestTypes, env
  <2> QED
    BY <2>1, <2>2, EndStep
<1>6. CASE Selected(p)
  <2> DEFINE l == IF engine.current \in gens \cup {None} THEN "snapshot" ELSE "end"
             n == [loc[p] EXCEPT !.prev = engine.current, !.attempt = 1, !.pc = l]
  <2>1. loc[p].pc = "selected" /\ loc' = [loc EXCEPT ![p] = n] /\ UNCHANGED <<files, disk, rlock, pinned, env>>
    BY <1>6 DEF Selected, At
  <2>2. UNCHANGED <<wlock, seen>> \/ (wlock = p /\ wlock' = None)
    BY <1>6 DEF Selected, Unlock
  <2>3. l \in Pcs /\ l \notin Locked
    BY <1>1, <1>2
  <2> HIDE DEF l
  <2> engine.current \in Ids \cup {None} /\ 1 \in 0..3
    BY HolderFacts DEF EngineRec
  <2>4. n \in LocRec /\ n.pc = l /\ n.ret = loc[p].ret /\ n.old = loc[p].old
    BY <2>3 DEF LocRec
  <2>5. RestTypes' /\ MoreDurable
    BY <2>1, <2>2, NothingDurable DEF IInv, RestTypes, env
  <2> HIDE DEF n
  <2> QED
    BY <2>1, <2>2, <2>3, <2>4, <2>5, HolderFacts, OutsideStep DEF GenFacts
<1>7. CASE Snapshot(p)
  <2>1. loc[p].pc = "snapshot" /\ UNCHANGED <<files, disk, rlock, pinned, env>>
    BY <1>7 DEF Snapshot, At
  <2>2. CASE Retry(p)
    BY <2>1, <2>2, RetryKeeps
  <2>3. CASE Goto(p, "end") /\ UNCHANGED <<wlock, seen>>
    BY <1>1, <1>2, <2>1, <2>3, OutsideGoto
  <2>4. CASE /\ loc' = [loc EXCEPT ![p].snap = root.input, ![p].goal = root.input,
                                   ![p].pc = IF loc[p].prev = root.input THEN "warm" ELSE "build"]
             /\ UNCHANGED <<wlock, seen>>
    <3> DEFINE l == IF loc[p].prev = root.input THEN "warm" ELSE "build"
               n == [loc[p] EXCEPT !.snap = root.input, !.goal = root.input, !.pc = l]
    <3>1. loc' = [loc EXCEPT ![p] = n]
      BY <2>4
    <3>2. l \in Pcs /\ l \notin Locked
      BY <1>1, <1>2
    <3> HIDE DEF l
    <3>3. n \in LocRec /\ n.pc = l /\ n.ret = loc[p].ret /\ n.old = loc[p].old
      BY <3>2, RootFacts DEF LocRec
    <3>4. RestTypes' /\ MoreDurable
      BY <2>1, <2>4, NothingDurable DEF IInv, RestTypes, env
    <3> HIDE DEF n
    <3> QED
      BY <2>1, <2>4, <3>1, <3>2, <3>3, <3>4, HolderFacts, OutsideStep DEF GenFacts
  <2> QED
    BY <1>7, <2>2, <2>3, <2>4 DEF Snapshot
<1>8. CASE Warm(p)
  <2>1. loc[p].pc = "warm" /\ UNCHANGED <<files, disk, rlock, pinned, env>>
    BY <1>8 DEF Warm, At
  <2>2. CASE Retry(p)
    BY <2>1, <2>2, RetryKeeps
  <2>3. CASE (Goto(p, "end") \/ Goto(p, "build")) /\ UNCHANGED <<wlock, seen>>
    BY <1>1, <1>2, <2>1, <2>3, OutsideGoto
  <2> QED
    BY <1>8, <2>2, <2>3 DEF Warm
<1>9. CASE Build(p)
  <2>1. loc[p].pc = "build" /\ UNCHANGED <<files, disk, rlock, pinned, env>>
    BY <1>9 DEF Build, At
  <2>2. CASE Goto(p, "end") /\ UNCHANGED <<wlock, seen>>
    BY <1>1, <1>2, <2>1, <2>2, OutsideGoto
  <2>3. CASE /\ Free /\ wlock' = p /\ seen' = {root.input}
             /\ loc' = [loc EXCEPT ![p].pc = "recover", ![p].ret = "recheck"]
    <3> DEFINE n == [loc[p] EXCEPT !.pc = "recover", !.ret = "recheck"]
    <3>1. loc' = [loc EXCEPT ![p] = n]
      BY <2>3
    <3>2. "recheck" \in Rets
      BY DEF Rets
    <3>3. n \in LocRec /\ n.pc = "recover" /\ n.ret = "recheck" /\ n.old = loc[p].old
      BY <1>2, <3>2 DEF LocRec
    <3>4. wlock = None /\ wlock' = p /\ seen' = {root.input}
      BY <2>3 DEF Free
    <3> HIDE DEF n
    <3> QED
      BY <2>1, <3>1, <3>2, <3>3, <3>4, LockStep
  <2> QED
    BY <1>9, <2>2, <2>3 DEF Build
<1>10. CASE Recheck(p)
  <2>1. loc[p].pc = "recheck" /\ UNCHANGED <<files, disk, rlock, pinned, env>>
    BY <1>10 DEF Recheck, At
  <2>2. CASE Retry(p)
    BY <2>1, <2>2, RetryKeeps
  <2>3. CASE /\ UnchangedInputs(p) /\ UNCHANGED <<wlock, seen>>
             /\ loc' = [loc EXCEPT ![p].old = engine.current, ![p].pc = "install"]
    <3> DEFINE n == [loc[p] EXCEPT !.old = engine.current, !.pc = "install"]
    <3>1. loc' = [loc EXCEPT ![p] = n]
      BY <2>3
    <3>2. /\ n \in LocRec /\ n.pc = "install" /\ n.ret = loc[p].ret /\ n.old = engine.current
          /\ n.snap = loc[p].snap
      BY <1>2, HolderFacts DEF LocRec, EngineRec
    <3> HIDE DEF n
    <3>3. "recheck" \in Locked /\ n.snap \in seen
      BY <2>1, <2>3, <3>2, OwnerSees DEF UnchangedInputs, Locked, Ready
    <3>4. EngineFacts(n, engine)
      BY <2>1, <3>2, <3>3, HolderFacts
         DEF EngineFacts, PubFacts, ImportFacts, GenFacts, SeenFacts, Complete,
             Ready, Publishing, Preparing, Cleaning
    <3> QED
      BY <2>1, <2>3, <3>1, <3>2, <3>3, <3>4, HolderFacts, LocalStep
  <2> QED
    BY <1>10, <2>2, <2>3 DEF Recheck
<1>11. CASE PubCommitSync(p)
  <2>1. End(p) /\ SyncEngine /\ UNCHANGED <<pinned, env>>
    BY <1>11 DEF PubCommitSync
  <2>2. RestTypes' /\ MoreDurable
    BY <2>1, Syncs DEF End, Unlock, IInv, RestTypes, env
  <2> QED
    BY <2>1, <2>2, EndStep
<1>12. CASE Kill(p)
  <2>1. /\ End(p) /\ kills < MaxKills /\ kills' = kills + 1
        /\ UNCHANGED <<files, disk, pinned, faults, power>>
    BY <1>12 DEF Kill
  <2>2. kills' \in 0..MaxKills
    BY <2>1, GenerationAssumption DEF IInv, RestTypes
  <2>3. RestTypes' /\ MoreDurable
    BY <2>1, <2>2, NothingDurable DEF End, Unlock, IInv, RestTypes
  <2> QED
    BY <2>1, <2>3, EndStep
<1> QED
  BY <1>3, <1>4, <1>5, <1>6, <1>7, <1>8, <1>9, <1>10, <1>11, <1>12

-----------------------------------------------------------------------------
(* Failures, readers, the user, and the disk *)

\* What a save that fails half way leaves keeps its type, and tears no backup that a
\* journal names.
LEMMA LeftBehindFacts ==
    ASSUME IInv, NEW p \in Procs, NEW e \in LeftBehind(p)
    PROVE  /\ e \in EngineRec /\ TornInv(e, dengine) /\ Complete(e, dgens)
           /\ (loc[p].pc \notin Locked => e = engine)
<1> DEFINE l == loc[p].pc
           i == loc[p].k + 1
<1> engine \in EngineRec /\ loc[p] \in LocRec
  BY HolderFacts
<1>1. CASE e = engine
  BY <1>1, HolderFacts
<1>2. CASE l = "pub_backup" /\ e = [engine EXCEPT !.backup = Torn]
  <2>1. /\ e \in EngineRec /\ e.journal = engine.journal /\ e.current = engine.current
        /\ e.ijournal = engine.ijournal /\ e.ibackup = engine.ibackup
    BY <1>2 DEF EngineRec
  <2>2. NoJournal(engine, dengine)
    BY <1>2, HolderFacts DEF PubFacts, Ready
  <2> QED
    BY <1>2, <2>1, <2>2, HolderFacts
       DEF TornInv, Complete, NoJournal, NoIJournal, IWhole, Locked, Publishing
<1>3. CASE /\ l \in {"pub_export", "pub_journal", "pub_commit", "prep_backup"}
           /\ \E t \in Temps : e = [engine EXCEPT !.temps = @ \cup {t}]
  <2>1. /\ e \in EngineRec /\ e.journal = engine.journal /\ e.current = engine.current
        /\ e.ijournal = engine.ijournal /\ e.ibackup = engine.ibackup /\ e.backup = engine.backup
    BY <1>3 DEF EngineRec
  <2> QED
    BY <1>3, <2>1, HolderFacts
       DEF TornInv, Complete, NoJournal, NoIJournal, Whole, IWhole, Locked, Publishing, Preparing, Ready
<1>4. CASE /\ l = "prep_backup" /\ i \in Changed(p)
           /\ e \in {[engine EXCEPT !.ibackup[i] = IF loc[p].snap[i] = None THEN None ELSE Torn],
                     [engine EXCEPT !.ibackup[i] = loc[p].snap[i], !.temps = @ \cup {"import.next"}]}
  <2> DEFINE b == [engine.ibackup EXCEPT ![i] = IF loc[p].snap[i] = None THEN None ELSE Torn]
             b2 == [engine.ibackup EXCEPT ![i] = loc[p].snap[i]]
  <2>1. i \in Inputs
    BY <1>4 DEF Changed
  <2>2. b \in [Inputs -> Contents \cup {Torn}] /\ b2 \in [Inputs -> Contents \cup {Torn}]
    BY <2>1 DEF EngineRec, LocRec, Ids, Contents
  <2>3. e \in {[engine EXCEPT !.ibackup = b], [engine EXCEPT !.ibackup = b2, !.temps = @ \cup {"import.next"}]}
    BY <1>4
  <2> HIDE DEF b, b2
  <2>4. /\ e \in EngineRec /\ e.journal = engine.journal /\ e.current = engine.current
        /\ e.ijournal = engine.ijournal /\ e.backup = engine.backup
    BY <2>2, <2>3, ZenonT(60) DEF EngineRec, Temps
  <2>5. NoIJournal(engine, dengine) /\ NoJournal(engine, dengine)
    BY <1>4, HolderFacts DEF ImportFacts, PubFacts, Ready, Preparing
  <2> QED
    BY <1>4, <2>4, <2>5, HolderFacts
       DEF TornInv, Complete, NoJournal, NoIJournal, Whole, Locked, Preparing, Ready
<1> QED
  BY <1>1, <1>2, <1>3, <1>4 DEF LeftBehind, Temps

\* A call fails.
LEMMA FailKeeps ==
    ASSUME IInv, NEW p \in Procs, Fail(p)
    PROVE  IInv'
<1> DEFINE n == [loc[p] EXCEPT !.pc = OnError(p), !.k = 0]
           Landing == {"publish_failed", "end", "abort", "undo"}
<1> loc[p] \in LocRec /\ loc \in [Procs -> LocRec]
  BY DEF IInv, LocTypes
<1>1. /\ faults < MaxFaults /\ faults' = faults + 1 /\ loc[p].pc \in Checked
      /\ engine' \in LeftBehind(p) /\ loc' = [loc EXCEPT ![p] = n]
      /\ UNCHANGED <<order, root, gens, disk, wlock, rlock, pinned, kills, power, allowed, seen>>
  BY DEF Fail, history
<1>2. /\ OnError(p) \in Landing
      /\ (loc[p].pc \notin Locked => OnError(p) = "end")
  BY DEF OnError, Unrecovered, Locked, Ready
<1>3. OnError(p) \in Pcs /\ 0 \in 0..NInputs
  BY <1>2, GenerationAssumption DEF Pcs, Building
<1>4. n \in LocRec /\ n.pc = OnError(p) /\ n.ret = loc[p].ret /\ n.old = loc[p].old
  BY <1>3 DEF LocRec
<1> HIDE DEF n
<1>5. loc[p].pc # "idle"
  BY <1>1 DEF Checked, Recovering, Publishing, Preparing, Building
<1>6. n.ret \in Rets /\ n.old \in dgens \cup {None}
  BY <1>4, <1>5, HolderFacts DEF GenFacts
<1>7. engine' \in EngineRec /\ TornInv(engine', dengine) /\ Complete(engine', dgens)
  BY <1>1, LeftBehindFacts
<1>8. UNCHANGED <<droot, dengine, dgens>> /\ faults' \in 0..MaxFaults
  BY <1>1, GenerationAssumption DEF disk, IInv, RestTypes
<1>9. FileTypes' /\ RestTypes'
  BY <1>1, <1>7, <1>8 DEF IInv, FileTypes, RestTypes
<1>10. CASE loc[p].pc \in Locked
  <2>1. LocTypes' /\ loc'[p] = n /\ \A q \in Procs \ {p} : loc'[q] = loc[q]
    BY <1>1, <1>4, LocUpdate DEF IInv
  <2>2. /\ PubFacts(n, engine', dengine) /\ ImportFacts(n, engine', dengine)
        /\ GenFacts(n, gens, dgens) /\ SeenFacts(n, seen)
    BY <1>2, <1>4, <1>6
       DEF PubFacts, ImportFacts, GenFacts, SeenFacts, Ready, Publishing, Preparing, Cleaning
  <2>3. wlock' # None => root'.input \in seen'
    BY <1>1 DEF IInv, LockInv
  <2> QED
    BY <1>1, <1>4, <1>6, <1>7, <1>8, <1>9, <1>10, <2>1, <2>2, <2>3, HolderFacts, HolderStep
<1>11. CASE loc[p].pc \notin Locked
  <2>1. n.pc \notin Locked
    BY <1>2, <1>4, <1>11 DEF Locked, Ready, Recovering, Publishing, Preparing
  <2>2. UNCHANGED <<files, disk>>
    BY <1>1, <1>11, LeftBehindFacts DEF files
  <2> QED
    BY <1>1, <1>4, <1>6, <1>9, <2>1, <2>2, NothingDurable, OutsideStep
<1> QED
  BY <1>10, <1>11

\* Nobody moves: readers come and go, the user edits an input, entries reach the disk.
LEMMA StillStep ==
    ASSUME IInv, UNCHANGED <<loc, wlock, engine, gens>>, root' \in RootRec, droot' \in RootRec,
           Blend(dengine'), dgens' \in {gens, dgens}, RestTypes',
           seen \subseteq seen', wlock # None => root'.input \in seen'
    PROVE  IInv'
<1>1. FileTypes' /\ LocTypes' /\ LockInv' /\ dgens \subseteq dgens'
  BY DEF IInv, FileTypes, LocTypes, LockInv, Blend
<1>2. ASSUME NEW q \in Procs
      PROVE  /\ PubFacts(loc[q], engine, dengine') /\ ImportFacts(loc[q], engine, dengine')
             /\ GenFacts(loc[q], gens, dgens') /\ SeenFacts(loc[q], seen')
  <2>1. GenFacts(loc[q], gens, dgens') /\ SeenFacts(loc[q], seen')
    BY <1>1, HolderFacts DEF GenFacts, SeenFacts
  <2> QED
    BY <2>1, BlendKeeps
<1>3. StepInv'
  BY <1>2 DEF StepInv
<1>4. TornInv(engine, dengine') /\ Complete(dengine', dgens)
  BY DEF Blend, IInv, TornInv, NoIJournal, IWhole, NoJournal, Whole, Complete
<1>5. TornInv(engine', dengine') /\ Complete(engine', dgens') /\ Complete(dengine', dgens')
  BY <1>1, <1>4 DEF IInv, Complete
<1> QED
  BY <1>1, <1>3, <1>5 DEF IInv

\* A reader takes the shared lock, and pins a generation.
LEMMA ReaderSteps ==
    ASSUME IInv, NEW r \in Readers, ReaderLock(r) \/ Pin(r)
    PROVE  IInv'
<1>1. UNCHANGED <<files, disk, loc, wlock, env, seen>>
  BY DEF ReaderLock, Pin, history
<1>2. engine.current \in Ids \cup {None}
  BY DEF IInv, FileTypes, EngineRec
<1>3. RestTypes'
  <2>1. pinned' \in [Readers -> Ids \cup {None}] /\ rlock' \subseteq Readers
    BY <1>2 DEF ReaderLock, Pin, Pins, PinResult, IInv, RestTypes
  <2> QED
    BY <1>1, <2>1 DEF IInv, RestTypes, env
<1>4. MoreDurable
  BY <1>1, NothingDurable
<1> QED
  BY <1>1, <1>3, <1>4, RootFacts, StillStep DEF MoreDurable, files, IInv, LockInv

\* The user edits an input.
LEMMA EditKeeps ==
    ASSUME IInv, NEW i \in Editable, NEW v \in Versions, Edit(i, v)
    PROVE  IInv'
<1>1. i \in Inputs /\ v \in Contents
  BY GenerationAssumption DEF Contents
<1>2. ASSUME NEW r \in RootRec
      PROVE  [r EXCEPT !.input[i] = v] \in RootRec
  <2> DEFINE x == [r.input EXCEPT ![i] = v]
  <2>1. x \in Ids
    BY <1>1 DEF RootRec, Ids, Contents
  <2> HIDE DEF x
  <2>2. [r EXCEPT !.input = x] \in RootRec
    BY <2>1 DEF RootRec
  <2> QED
    BY <2>2 DEF x
<1>3. root' \in RootRec /\ droot' \in RootRec
  BY <1>2, RootFacts DEF Edit
<1>4. /\ UNCHANGED <<loc, wlock, engine, gens, dengine, dgens, rlock, pinned, env>>
      /\ seen \subseteq seen' /\ (wlock # None => root'.input \in seen')
  BY DEF Edit
<1>5. RestTypes' /\ Blend(dengine')
  BY <1>4 DEF IInv, FileTypes, RestTypes, env, Blend
<1> QED
  BY <1>3, <1>4, <1>5, StillStep

\* Entries reach the disk on their own.
LEMMA WritebackKeeps ==
    ASSUME IInv, WritebackAll \/ WritebackDirectory \/ WritebackEntry
    PROVE  IInv'
<1>1. UNCHANGED <<root, engine, gens, loc, wlock, rlock, pinned, env, seen>>
  BY DEF WritebackAll, WritebackDirectory, WritebackEntry, files, history
<1>2. root \in RootRec /\ droot \in RootRec /\ Blend(engine) /\ Blend(dengine)
  BY DEF IInv, FileTypes, Blend
<1>3. droot' \in RootRec
  <2>1. ASSUME NEW i \in Inputs
        PROVE  [droot EXCEPT !.input[i] = root.input[i]] \in RootRec
    <3> DEFINE x == [droot.input EXCEPT ![i] = root.input[i]]
    <3>1. x \in Ids
      BY <1>2 DEF RootRec, Ids
    <3> HIDE DEF x
    <3>2. [droot EXCEPT !.input = x] \in RootRec
      BY <1>2, <3>1 DEF RootRec
    <3> QED
      BY <3>2 DEF x
  <2>2. [droot EXCEPT !.public = root.public] \in RootRec
    BY <1>2 DEF RootRec
  <2> QED
    BY <1>2, <2>1, <2>2 DEF WritebackAll, WritebackDirectory, WritebackEntry, SyncAll
<1>4. Blend(dengine')
  <2>1. ASSUME NEW f \in DOMAIN engine
        PROVE  Blend([dengine EXCEPT ![f] = engine[f]])
    <3>1. engine \in EngineRec /\ dengine \in EngineRec
      BY <1>2 DEF Blend
    <3>2. f \in {"journal", "committed", "current", "backup", "ijournal", "ibackup", "temps"}
      BY <2>1, <3>1 DEF EngineRec
    <3> QED
      BY <3>1, <3>2 DEF Blend, EngineRec
  <2> QED
    BY <1>2, <2>1 DEF WritebackAll, WritebackDirectory, WritebackEntry, SyncAll
<1>5. dgens' \in {gens, dgens}
  BY DEF WritebackAll, WritebackDirectory, WritebackEntry, SyncAll
<1>6. RestTypes' /\ (wlock # None => root'.input \in seen')
  BY <1>1 DEF IInv, RestTypes, LockInv, env
<1> QED
  BY <1>1, <1>2, <1>3, <1>4, <1>5, <1>6, StillStep

\* Everybody is away and the directories are what the disk holds.
LEMMA PowerLossKeeps ==
    ASSUME IInv, PowerLoss
    PROVE  IInv'
<1>1. /\ root' = droot /\ engine' = dengine /\ gens' = dgens /\ UNCHANGED <<droot, dengine, dgens>>
      /\ loc' = [p \in Procs |-> Idle] /\ wlock' = None
  BY DEF PowerLoss, disk
<1>2. FileTypes'
  BY <1>1 DEF IInv, FileTypes
<1>3. LocTypes' /\ \A p \in Procs : loc'[p] = Idle
  BY <1>1, IdleRec DEF LocTypes
<1>4. power' \in 0..MaxPower /\ pinned' \in [Readers -> Ids \cup {None}]
  BY GenerationAssumption DEF PowerLoss, IInv, RestTypes
<1>5. RestTypes'
  BY <1>1, <1>4 DEF PowerLoss, IInv, RestTypes
<1>6. Idle.pc \notin Locked /\ Idle.pc = "idle" /\ Idle.old = None
  BY IdleRec DEF Locked, Ready, Recovering, Publishing, Preparing
<1>7. LockInv' /\ StepInv'
  BY <1>1, <1>3, <1>6, Outside DEF LockInv, StepInv
<1>8. TornInv(dengine, dengine) /\ Complete(dengine, dgens)
  BY DEF IInv, TornInv, Whole, IWhole, NoJournal, NoIJournal
<1> QED
  BY <1>1, <1>2, <1>3, <1>5, <1>7, <1>8 DEF IInv

-----------------------------------------------------------------------------
(* The inductive invariant *)

LEMMA InitIInv == Init => IInv
<1> SUFFICES ASSUME Init PROVE IInv
  OBVIOUS
<1>1. root \in RootRec
  <2>1. PICK pub \in FirstExports, v \in Versions \ {Imported} :
             root = [public |-> pub, input |-> [i \in Inputs |-> IF i = 1 THEN v ELSE None]]
    BY DEF Init
  <2>2. [i \in Inputs |-> IF i = 1 THEN v ELSE None] \in Ids /\ pub \in Exports
    BY DEF Ids, FirstExports, Exports
  <2> QED
    BY <2>1, <2>2 DEF RootRec
<1>2. NoEngine \in EngineRec /\ NoEngine.journal = None /\ NoEngine.ijournal = None /\ NoEngine.current = None
  <2>1. NoItems \in [Inputs -> Contents \cup {Torn}]
    BY DEF NoItems, Contents
  <2> QED
    BY <2>1 DEF NoEngine, EngineRec, Exports
<1>3. FileTypes
  BY <1>1, <1>2 DEF Init, FileTypes
<1>4. LocTypes /\ \A p \in Procs : loc[p] = Idle
  BY IdleRec DEF Init, LocTypes
<1>5. RestTypes
  BY GenerationAssumption DEF Init, RestTypes
<1>6. Idle.pc \notin Locked /\ Idle.pc = "idle" /\ Idle.old = None
  BY IdleRec DEF Locked, Ready, Recovering, Publishing, Preparing
<1>7. LockInv /\ StepInv
  BY <1>4, <1>6, Outside DEF Init, LockInv, StepInv
<1>8. TornInv(engine, dengine) /\ Complete(engine, dgens) /\ Complete(dengine, dgens)
  BY <1>2 DEF Init, TornInv, NoJournal, NoIJournal, Complete
<1> QED
  BY <1>3, <1>4, <1>5, <1>7, <1>8 DEF IInv

LEMMA NextIInv == IInv /\ [Next]_vars => IInv'
<1> SUFFICES ASSUME IInv, [Next]_vars PROVE IInv'
  OBVIOUS
<1>1. ASSUME NEW p \in Procs, RecoverStep(p)
      PROVE  IInv'
  BY <1>1, RecoverInEngine, Decisions, StepsInRoot, SyncSteps, LastSyncs DEF RecoverStep
<1>2. ASSUME NEW p \in Procs, PublishStep(p)
      PROVE  IInv'
  BY <1>2, PublishInEngine, ImportInEngine, Decisions, StepsInRoot, SyncSteps, CompilerSteps
     DEF PublishStep
<1>3. ASSUME NEW p \in Procs, CompileStep(p)
      PROVE  IInv'
  BY <1>3, Decisions, LastSyncs, InstallKeeps, CompilerSteps DEF CompileStep
<1>4. ASSUME NEW p \in Procs, ImportStep(p)
      PROVE  IInv'
  BY <1>4, ImportInEngine, Decisions, StepsInRoot, SyncSteps DEF ImportStep
<1>5. ASSUME NEW p \in Procs, Step(p)
      PROVE  IInv'
  BY <1>1, <1>2, <1>3, <1>4, <1>5, StepsInRoot DEF Step
<1>6. ASSUME NEW p \in Procs, (\E kind \in Kinds : Start(p, kind)) \/ Fail(p) \/ Kill(p)
      PROVE  IInv'
  BY <1>6, CompilerSteps, FailKeeps
<1>7. CASE UNCHANGED vars
  <2>1. UNCHANGED <<files, disk, loc, wlock, rlock, pinned, env, seen>>
    BY <1>7 DEF vars, history
  <2>2. MoreDurable /\ RestTypes'
    BY <2>1, NothingDurable DEF IInv, RestTypes, env
  <2> QED
    BY <2>1, <2>2, RootFacts, StillStep DEF MoreDurable, files, IInv, LockInv
<1> QED
  BY <1>5, <1>6, <1>7, ReaderSteps, EditKeeps, WritebackKeeps, PowerLossKeeps DEF Next

LEMMA Invariant == Spec => []IInv
BY InitIInv, NextIInv, PTL DEF Spec

-----------------------------------------------------------------------------
(* The theorems *)

\* Every entry, on the disk too, keeps its type: no torn backup is ever restored to an
\* input or to the export, no counter passes its bound, and the compiler makes at most
\* three attempts (jf_compile).
THEOREM TypeCorrect == Spec => []TypeOK
<1>1. IInv => TypeOK
  <2> SUFFICES ASSUME IInv PROVE TypeOK
    OBVIOUS
  <2>1. RootOK(root) /\ RootOK(droot)
    BY DEF IInv, FileTypes, RootRec, RootOK, Ids, Contents
  <2>2. EngineOK(engine) /\ EngineOK(dengine)
    BY DEF IInv, FileTypes, EngineRec, EngineOK, JournalRec, IJournalRec, Journals, ImportJournals
  <2>3. \A p \in Procs : loc[p] \in LocRec
    BY DEF IInv, LocTypes
  <2> QED
    BY <2>1, <2>2, <2>3 DEF IInv, FileTypes, RestTypes, TypeOK, LocRec, Pcs
<1> QED
  BY <1>1, Invariant, PTL

\* What is published was built from inputs that were current since the lock was taken.
THEOREM PublishesCurrentInputs == Spec => []Fresh
<1>1. IInv => Fresh
  BY DEF IInv, StepInv, SeenFacts, Fresh
<1> QED
  BY <1>1, Invariant, PTL

\* No staging name is taken when it is created with O_EXCL, whatever failed or died before.
THEOREM NoStaleStaging == Spec => []StagingFree
<1>1. IInv => StagingFree
  <2> SUFFICES ASSUME IInv, NEW p \in Procs
               PROVE  /\ loc[p].pc = "pub_backup" => engine.backup = None
                      /\ loc[p].pc = "pub_export" => "export.next" \notin engine.temps
                      /\ loc[p].pc = "pub_journal" => "journal.next" \notin engine.temps
                      /\ loc[p].pc = "pub_commit" => "committed.next" \notin engine.temps
                      /\ loc[p].pc = "prep_backup" /\ loc[p].k = 0 =>
                            engine.ibackup = NoItems
                            /\ engine.temps \cap {"import.next", "import.journal.next"} = {}
    BY DEF StagingFree
  <2>1. PubFacts(loc[p], engine, dengine) /\ ImportFacts(loc[p], engine, dengine)
    BY HolderFacts
  <2>2. "export.next" \in Leftovers
    BY DEF Leftovers
  <2>3. loc[p].pc = "pub_export" => "export.next" \notin engine.temps
    BY <2>1, <2>2 DEF PubFacts
  <2>4. loc[p].pc = "prep_backup" /\ loc[p].k = 0 =>
           engine.ibackup = NoItems /\ engine.temps \cap {"import.next", "import.journal.next"} = {}
    BY <2>1 DEF ImportFacts, InputsSwept, ITemps
  <2> QED
    BY <2>1, <2>3, <2>4 DEF PubFacts, Ready
<1> QED
  BY <1>1, Invariant, PTL

\* The generation that the next recovery selects is complete, after a power loss too.
THEOREM SelectionComplete == Spec => []SelectedComplete
<1>1. IInv => SelectedComplete
  BY DEF IInv, FileTypes, Complete, SelectedComplete, Settled, View
<1> QED
  BY <1>1, Invariant, PTL

\* A reader pins only what the next recovery selects, whole and exported.
THEOREM PinnedIsSettled == Spec => PinsSettled
<1> DEFINE Sound == \A r \in Readers : pinned'[r] # pinned[r] /\ pinned'[r] # None =>
                       /\ pinned'[r] = Settled(root, engine).sel
                       /\ pinned'[r] \in gens
                       /\ engine.journal # None => Settled(root, engine).pub = pinned'[r]
<1>1. IInv /\ [Next]_vars => [Sound]_vars
  <2> SUFFICES ASSUME IInv, Next PROVE Sound
    OBVIOUS
  <2>1. CASE \E r \in Readers : Pin(r)
    <3>1. PICK r \in Readers : Pin(r)
      BY <2>1
    <3> SUFFICES ASSUME NEW s \in Readers, pinned'[s] # pinned[s], pinned'[s] # None
                 PROVE  /\ pinned'[s] = Settled(root, engine).sel /\ pinned'[s] \in gens
                        /\ engine.journal # None => Settled(root, engine).pub = pinned'[s]
      OBVIOUS
    <3>2. pinned'[s] = PinResult /\ PinResult # None
      BY <3>1 DEF Pin, Pins, IInv, RestTypes
    <3>3. /\ ~Unfinished(engine) /\ engine.current \in gens /\ PinResult = engine.current
          /\ (engine.journal # None => root.public = engine.current)
      BY <3>2 DEF PinResult
    <3>4. engine.journal # None => engine.committed # None
      BY <3>3, Nones DEF Unfinished, CommittedJournal, IInv, FileTypes
    <3> QED
      BY <3>2, <3>3, <3>4 DEF Settled, View
  <2>2. CASE PowerLoss
    BY <2>2 DEF PowerLoss
  <2>3. CASE UNCHANGED pinned
    BY <2>3
  <2>4. ASSUME NEW p \in Procs, RecoverStep(p)
        PROVE  UNCHANGED pinned
    BY <2>4 DEF RecoverStep, Quiet, Clean1, Clean2, Clean3, Clean4, Recover, UndoPublic, UndoSelect,
       UndoRootSync, UndoEngineSync, RestoreInput, InputsRestored, InputsRootSync, InputsEngineSync,
       InputsUnlink, InputsUnlinkSync, InputsClean, InputsCleanSync
  <2>5. ASSUME NEW p \in Procs, PublishStep(p)
        PROVE  UNCHANGED pinned
    BY <2>5 DEF PublishStep, Quiet, PubBackup, PubExport, PubJournal, PubJournalRename, PubJournalSync,
       PubRename, PubSelect, PubRootSync, PubEngineSync, PubCommit, PubCommitRename, PubCommitSync,
       Abort, PublishFailed
  <2>6. ASSUME NEW p \in Procs, CompileStep(p)
        PROVE  UNCHANGED pinned
    BY <2>6 DEF CompileStep, Quiet, Lock, Selected, Snapshot, Warm, Build, Recheck, Install, GensSync,
       Decide, EndAt
  <2>7. ASSUME NEW p \in Procs, ImportStep(p)
        PROVE  UNCHANGED pinned
    BY <2>7 DEF ImportStep, Quiet, ImportRead, ImportCheck, ImportRecheck, PrepBackup, PrepJournal,
       PrepJournalRename, PrepSync, PrepInput, PrepInputsDone, PrepRootSync, Undo
  <2>8. ASSUME NEW p \in Procs,
               LegacyExport(p) \/ (\E kind \in Kinds : Start(p, kind)) \/ Fail(p) \/ Kill(p)
        PROVE  UNCHANGED pinned
    BY <2>8 DEF LegacyExport, Start, Fail, Kill, Quiet
  <2>9. UNCHANGED pinned \/ PowerLoss \/ \E r \in Readers : Pin(r)
    BY <2>4, <2>5, <2>6, <2>7, <2>8
       DEF Next, Step, ReaderLock, Edit, WritebackAll, WritebackDirectory, WritebackEntry
  <2> QED
    BY <2>1, <2>2, <2>3, <2>9
<1> QED
  BY <1>1, Invariant, PTL DEF Spec, PinsSettled
=============================================================================
