----------------------- MODULE GenerationAtomicProofs -----------------------
(***************************************************************************)
(* Proof that a transaction of Generation is all or nothing, and that it   *)
(* implements AtomicPublication.                                           *)
(*                                                                         *)
(* Whatever of the directories has reached the disk is a blend of what     *)
(* they hold and of what the disk held before.  The inductive invariant    *)
(* says of the directories and the disk together which entries agree,      *)
(* journal by journal, so that every blend recovers to an allowed view;    *)
(* and of each step under the lock what the steps before it have settled.  *)
(***************************************************************************)
EXTENDS GenerationProofs

-----------------------------------------------------------------------------
(* r and e are ROOT and the engine directory, s and d what of them is on the
   disk, a the allowed views, o the order in which entries reach the disk. *)

ViewOf(c, pub, inp) == [sel |-> c, pub |-> pub, input |-> inp]

\* The export that a rollback puts back.
OldPublic(e) == IF e.journal.present THEN e.backup ELSE None

\* No journal: the selector is durable, of the export either is allowed.
Unjournaled(r, s, e, d, a) ==
    e.journal = None /\ d.journal = None =>
        /\ e.current = d.current
        /\ \A x \in {r, s} : ViewOf(e.current, x.public, Restored(r, e)) \in a

\* A transaction that is rolled back when the marker is missing and kept when it is
\* there; without the journal on the disk nothing has been replaced yet.
Journaled(r, s, e, d, a) ==
    e.journal # None =>
        /\ d.journal \in {None, e.journal}
        /\ {e.committed, d.committed} \subseteq {None, e.journal.next}
        /\ e.journal.present => d.backup \in {None, e.backup}
        /\ e.committed = None \/ d.committed = None =>
              ViewOf(e.journal.old, OldPublic(e), Restored(r, e)) \in a
        /\ e.committed # None =>
              d.journal = e.journal /\ d.current = e.current /\ s.public = r.public
        /\ \/ e.committed # None /\ e.current = e.journal.next /\ r.public = e.journal.next
           \/ e.committed = None /\ d.committed # None
           => /\ ViewOf(e.journal.next, e.journal.next, r.input) \in a
              /\ s.input = r.input
        /\ d.journal = None =>
              /\ e.committed = None /\ d.committed = None
              /\ e.current = e.journal.old /\ d.current = e.journal.old
              /\ r.public = OldPublic(e)
              /\ ViewOf(e.journal.old, s.public, Restored(r, e)) \in a

\* The journal is removed, not yet on the disk: what it would do is done.
Fenced(r, s, e, d, a) ==
    e.journal = None /\ d.journal # None =>
        /\ e.committed = d.committed /\ e.current = d.current /\ e.backup = d.backup
        /\ e.ijournal = None /\ d.ijournal = None
        /\ r.public = s.public
        /\ ViewOf(e.current, r.public, r.input) \in a
        /\ IF d.committed = None THEN d.current = d.journal.old /\ s.public = OldPublic(d)
           ELSE d.committed = d.journal.next /\ d.current = d.journal.next /\ s.public = d.journal.next

Committing(e, d) == Committed(e) /\ Committed(d)

\* The inputs on the disk differ only where an import's journal restores them; while the
\* journal is in one place only there is nothing to restore, or nothing that would be.
Imports(r, s, e, d) ==
    /\ e.ijournal = None \/ d.ijournal = None => s.input = r.input
    /\ e.ijournal # None /\ d.ijournal # None =>
          /\ d.ijournal = e.ijournal
          /\ \A i \in Inputs \ e.ijournal.changed : s.input[i] = r.input[i]
          /\ \A i \in e.ijournal.changed \cap e.ijournal.present : d.ibackup[i] \in {None, e.ibackup[i]}
    /\ e.ijournal # None /\ d.ijournal = None =>
          \A i \in e.ijournal.changed :
             IF i \in e.ijournal.present
             THEN r.input[i] = e.ibackup[i] /\ d.ibackup[i] \in {None, e.ibackup[i]}
             ELSE r.input[i] = None
    /\ e.ijournal = None /\ d.ijournal # None =>
          \/ Committing(e, d)
          \/ \A i \in d.ijournal.changed :
             IF i \in d.ijournal.present
             THEN e.ibackup[i] \in {None, d.ibackup[i]} /\ d.ibackup[i] \in {None, r.input[i]}
             ELSE r.input[i] = None
    /\ e.ijournal # None => e.ijournal.changed \cap Editable = {}
    /\ d.ijournal # None => d.ijournal.changed \cap Editable = {}

\* A marker is there only where the selector and the export are the journal's.
Firm(r, e) == Committed(e) => CommittedJournal(e) /\ r.public = e.journal.next

\* Recovery succeeds unless entries reach the disk in any order.
Sure(r, s, e, d, o) ==
    /\ o # "entry" => BackedUp(e) /\ BackedUp(d) /\ Firm(r, e) /\ Firm(s, d)
    /\ o = "directory" =>
          /\ Firm(r, d) /\ Firm(s, e)
          /\ e.journal # None /\ e.committed = None => d.committed = None

Shape(r, s, e, d, a, o) ==
    /\ Unjournaled(r, s, e, d, a) /\ Journaled(r, s, e, d, a) /\ Fenced(r, s, e, d, a)
    /\ Imports(r, s, e, d)
    /\ Sure(r, s, e, d, o)

-----------------------------------------------------------------------------
(* What the steps have settled *)

RestoringInputs == {"inputs", "inputs_root_sync", "inputs_engine_sync", "inputs_unlink",
                    "inputs_unlink_sync", "inputs_clean", "inputs_clean_sync"}

\* The journal's selector and export are in place, durably.
Ended(r, s, e, d) ==
    e.journal # None =>
        /\ s.public = r.public
        /\ IF e.committed = None
           THEN d.committed = None /\ r.public = OldPublic(e) /\ e.current = e.journal.old
           ELSE r.public = e.journal.next /\ e.current = e.journal.next

\* The inputs up to k are restored.
RestoredTo(r, e, k) ==
    e.ijournal # None /\ ~Committed(e) =>
        \A i \in e.ijournal.changed : i <= k =>
           IF i \in e.ijournal.present THEN e.ibackup[i] # None /\ r.input[i] = e.ibackup[i]
           ELSE r.input[i] = None

UndoFacts(l, r, s, e, d) ==
    /\ l.pc \in Recovering /\ l.ret \in {"publish_failed", "end"} => e.committed = None
    /\ l.pc \in {"undo_public", "undo_select", "undo_root_sync", "undo_engine_sync"} =>
          e.journal # None /\ e.committed = None
    /\ l.pc \in {"undo_select", "undo_root_sync", "undo_engine_sync"} => r.public = OldPublic(e)
    /\ l.pc \in {"undo_root_sync", "undo_engine_sync"} => e.current = e.journal.old
    /\ l.pc = "undo_engine_sync" => s.public = r.public
    /\ l.pc \in RestoringInputs \cup {"clean"} => Ended(r, s, e, d)
    /\ l.pc = "inputs" => RestoredTo(r, e, l.k)
    /\ l.pc \in {"inputs_root_sync", "inputs_engine_sync", "inputs_unlink"} =>
          e.ijournal # None /\ RestoredTo(r, e, NInputs)
    /\ l.pc \in {"inputs_engine_sync", "inputs_unlink"} => s.input = r.input
    /\ l.pc = "inputs_unlink" =>
          /\ d.journal = e.journal /\ d.committed = e.committed
          /\ d.ijournal = e.ijournal /\ d.ibackup = e.ibackup
    /\ l.pc = "clean_end" => e.committed = None
    /\ l.pc = "clean" /\ e.journal # None =>
          /\ d.journal = e.journal /\ d.committed = e.committed /\ d.current = e.current
          /\ d.backup = e.backup /\ e.ijournal = None /\ d.ijournal = None

\* Between the recovery and the journal.
Before == Ready \cup {"pub_export", "pub_journal", "pub_journal_rename"}
After == {"pub_rename", "pub_select", "pub_root_sync", "pub_engine_sync", "pub_commit",
          "pub_commit_rename", "pub_commit_sync"}

\* What is committed can still be taken back.
Revocable(r, e, d, a) ==
    /\ e.journal # None /\ d.journal = e.journal
    /\ e.committed = e.journal.next /\ e.current = e.journal.next /\ r.public = e.journal.next
    /\ ViewOf(e.journal.old, OldPublic(e), Restored(r, e)) \in a
    /\ e.ijournal = None => d.ijournal = None

JournalFacts(l, r, s, e, d, a, o) ==
    /\ l.pc \in Before \cup {"legacy"} => NoJournal(e, d)
    /\ l.pc \in Before \cup {"pub_journal_sync"} \cup (After \ {"pub_commit_sync"}) =>
          e.committed = None /\ d.committed = None
    /\ l.pc \in Before \ {"recheck", "import_read"} => l.old = e.current
    /\ l.pc \in Ready => e.backup = None /\ d.backup = None
    /\ l.pc \in {"pub_export", "pub_journal", "pub_journal_rename"} =>
          e.backup = r.public /\ d.backup \in {None, e.backup}
    /\ l.pc \in {"pub_journal_sync"} \cup After => e.journal # None /\ e.journal.next = l.goal
    /\ l.pc \in After => d.journal = e.journal
    /\ l.pc \in After \ {"pub_rename"} => r.public = l.goal
    /\ l.pc \in After \ {"pub_rename", "pub_select"} => e.current = l.goal
    /\ l.pc \in After \ {"pub_rename", "pub_select", "pub_root_sync"} =>
          s.public = r.public /\ s.input = r.input
    /\ l.pc \in {"pub_commit", "pub_commit_rename", "pub_commit_sync"} => d.current = e.current
    /\ l.pc \in {"decide", "prep_input", "prep_root_sync"} \cup Publishing =>
          (e.ijournal = None => d.ijournal = None)
    /\ l.pc = "pub_commit_sync" => Revocable(r, e, d, a)
    /\ l.pc \in {"abort", "publish_failed", "undo"} =>
          e.committed = None \/ (o # "directory" /\ Revocable(r, e, d, a))
    /\ l.pc = "abort" /\ e.journal = None => d.journal = None

\* The inputs that l's import changes.
Rewrites(l) == {i \in Inputs : l.goal[i] # l.snap[i]}

\* An import rewrites no input that the user edits; k is for the loops over the inputs;
\* the first recovery is the one an invocation starts with.
Sane(l) ==
    /\ Rewrites(l) \cap Editable = {}
    /\ l.pc \notin {"inputs", "prep_backup", "prep_input"} => l.k = 0
    /\ l.pc = "lock" => l.ret \in {"selected", "import_read", "legacy"}

PrepFacts(l, r, e, d) ==
    /\ Sane(l)
    /\ l.pc \in {"prep_backup", "prep_rename_journal"} =>
          \A i \in Rewrites(l) :
             /\ r.input[i] = l.snap[i] /\ d.ibackup[i] \in {None, e.ibackup[i]}
             /\ e.ibackup[i] = IF l.pc = "prep_backup" /\ i > l.k THEN None ELSE l.snap[i]
    /\ l.pc \in {"prep_sync", "prep_input"} => e.ijournal # None /\ e.ijournal.changed = Rewrites(l)
    /\ l.pc = "prep_input" => d.ijournal = e.ijournal

Settling(l, r, s, e, d, a, o) ==
    /\ UndoFacts(l, r, s, e, d)
    /\ JournalFacts(l, r, s, e, d, a, o)
    /\ PrepFacts(l, r, e, d)

AInv ==
    /\ order \in Orders
    /\ Shape(root, droot, engine, dengine, allowed, order)
    /\ \A p \in Procs : Settling(loc[p], root, droot, engine, dengine, allowed, order)

-----------------------------------------------------------------------------
(* Frames *)

\* What an invocation and the directories have.
LEMMA Have ==
    ASSUME IInv, AInv, NEW p \in Procs
    PROVE  /\ Unjournaled(root, droot, engine, dengine, allowed)
           /\ Journaled(root, droot, engine, dengine, allowed)
           /\ Fenced(root, droot, engine, dengine, allowed)
           /\ Imports(root, droot, engine, dengine)
           /\ Sure(root, droot, engine, dengine, order)
           /\ UndoFacts(loc[p], root, droot, engine, dengine)
           /\ JournalFacts(loc[p], root, droot, engine, dengine, allowed, order)
           /\ PrepFacts(loc[p], root, engine, dengine)
BY DEF AInv, Shape, Settling

\* The directories and the disk, each entry of its type.
LEMMA Types ==
    ASSUME IInv
    PROVE  /\ root \in RootRec /\ droot \in RootRec /\ engine \in EngineRec /\ dengine \in EngineRec
           /\ loc \in [Procs -> LocRec]
BY DEF IInv, FileTypes, LocTypes

\* A journal is there.
LEMMA NotNone == None \notin JournalRec /\ None \notin IJournalRec
BY GenerationAssumption DEF JournalRec, IJournalRec, Journals, ImportJournals

\* Outside the lock there is nothing to have settled.
LEMMA Away ==
    ASSUME NEW l, NEW r, NEW s, NEW e, NEW d, NEW a, NEW o,
           l.pc \notin Locked, Sane(l)
    PROVE  Settling(l, r, s, e, d, a, o)
<1> USE DEF Locked, Ready, Recovering, Publishing, Preparing
<1>1. UndoFacts(l, r, s, e, d)
  BY DEF UndoFacts, RestoringInputs
<1>2. JournalFacts(l, r, s, e, d, a, o)
  BY DEF JournalFacts, Before, After
<1>3. PrepFacts(l, r, e, d)
  BY DEF PrepFacts
<1> QED
  BY <1>1, <1>2, <1>3 DEF Settling

\* The owner of the lock is the only one to whom the directories matter.
LEMMA OwnerStep ==
    ASSUME IInv, AInv, NEW p \in Procs, loc[p].pc \in Locked,
           NEW n \in LocRec, loc' = [loc EXCEPT ![p] = n],
           UNCHANGED order, Shape(root', droot', engine', dengine', allowed', order'),
           Settling(n, root', droot', engine', dengine', allowed', order')
    PROVE  AInv'
<1>1. \A q \in Procs \ {p} : loc[q].pc \notin Locked
  BY DEF IInv, LockInv
<1>2. ASSUME NEW q \in Procs
      PROVE  Settling(loc'[q], root', droot', engine', dengine', allowed', order')
  <2>1. CASE q = p
    BY <2>1, Types
  <2>2. CASE q # p
    <3>1. loc'[q] = loc[q] /\ loc[q].pc \notin Locked
      BY <1>1, <2>2, Types
    <3>2. Sane(loc[q])
      BY Have DEF PrepFacts
    <3> QED
      BY <3>1, <3>2, Away
  <2> QED
    BY <2>1, <2>2
<1> QED
  BY <1>2 DEF AInv

\* A step that leaves the directories and the disk alone.
LEMMA LocalMove ==
    ASSUME IInv, AInv, NEW p \in Procs, NEW n \in LocRec, loc' = [loc EXCEPT ![p] = n],
           UNCHANGED <<root, engine, droot, dengine, allowed, order>>,
           Settling(n, root, droot, engine, dengine, allowed, order)
    PROVE  AInv'
<1>1. \A q \in Procs : loc'[q] = IF q = p THEN n ELSE loc[q]
  BY Types
<1> QED
  BY <1>1 DEF AInv

-----------------------------------------------------------------------------
(* What reaches the disk *)

\* x holds, entry by entry, what e or d holds.
EngineBlend(x, e, d) ==
    /\ x.journal \in {e.journal, d.journal} /\ x.committed \in {e.committed, d.committed}
    /\ x.current \in {e.current, d.current} /\ x.backup \in {e.backup, d.backup}
    /\ x.ijournal \in {e.ijournal, d.ijournal} /\ x.ibackup \in {e.ibackup, d.ibackup}

RootBlend(x, r, s) ==
    /\ x.public \in {r.public, s.public}
    /\ \A i \in Inputs : x.input[i] \in {r.input[i], s.input[i]}

\* Inputs are functions: equal when they agree everywhere.
LEMMA SameInputs ==
    ASSUME NEW r \in RootRec, NEW s \in RootRec, \A i \in Inputs : s.input[i] = r.input[i]
    PROVE  s.input = r.input
<1>1. r.input \in Ids /\ s.input \in Ids
  BY DEF RootRec
<1> QED
  BY <1>1 DEF Ids

\* A blend with the directories keeps the shape of the disk.
LEMMA BlendShape ==
    ASSUME NEW r \in RootRec, NEW s \in RootRec, NEW t \in RootRec,
           NEW e \in EngineRec, NEW d \in EngineRec, NEW x \in EngineRec, NEW a, NEW o,
           Shape(r, s, e, d, a, o), RootBlend(t, r, s), EngineBlend(x, e, d), Sure(r, t, e, x, o)
    PROVE  Shape(r, t, e, x, a, o)
<1>1. Unjournaled(r, t, e, x, a)
  <2>1. CASE e.journal = None /\ d.journal = None
    BY <2>1 DEF Shape, Unjournaled, RootBlend, EngineBlend
  <2>2. CASE e.journal = None /\ d.journal # None
    <3>1. Restored(r, e) = r.input
      BY <2>2 DEF Shape, Fenced, Restored
    <3> QED
      BY <2>2, <3>1 DEF Shape, Unjournaled, Fenced, RootBlend, EngineBlend
  <2>3. CASE e.journal # None
    BY <2>3 DEF Unjournaled
  <2> QED
    BY <2>1, <2>2, <2>3
<1>2. s.input = r.input => t.input = r.input
  <2> SUFFICES ASSUME s.input = r.input PROVE t.input = r.input
    OBVIOUS
  <2>1. \A i \in Inputs : t.input[i] = r.input[i]
    BY DEF RootBlend
  <2> QED
    BY <2>1, SameInputs
<1>3. Journaled(r, t, e, x, a)
  <2> SUFFICES ASSUME e.journal # None PROVE Journaled(r, t, e, x, a)
    BY DEF Journaled
  <2>1. Journaled(r, s, e, d, a)
    BY DEF Shape
  <2>2. CASE d.journal = None
    BY <1>2, <2>1, <2>2 DEF Journaled, RootBlend, EngineBlend
  <2>3. CASE d.journal = e.journal
    BY <1>2, <2>1, <2>3 DEF Journaled, RootBlend, EngineBlend
  <2> QED
    BY <2>1, <2>2, <2>3 DEF Journaled
<1>4. Fenced(r, t, e, x, a)
  BY <1>2 DEF Shape, Fenced, RootBlend, EngineBlend, OldPublic
<1>5. Imports(r, t, e, x)
  <2> USE <1>2 DEF RootBlend, EngineBlend
  <2>1. Imports(r, s, e, d)
    BY DEF Shape
  <2>2. CASE e.ijournal = None /\ d.ijournal = None
    BY <2>1, <2>2 DEF Imports
  <2>3. CASE e.ijournal # None /\ d.ijournal # None
    BY <2>1, <2>3 DEF Imports
  <2>4. CASE e.ijournal # None /\ d.ijournal = None
    BY <2>1, <2>4 DEF Imports
  <2>5. CASE e.ijournal = None /\ d.ijournal # None
    <3>1. t.input = r.input /\ x.ijournal \in {None, d.ijournal}
      BY <2>1, <2>5 DEF Imports
    <3>2. CASE Committing(e, d)
      <4>1. e.journal # None /\ d.journal # None /\ x.journal # None /\ x.committed # None
        BY <3>2 DEF Committing, Committed
      <4> QED
        BY <2>1, <2>5, <3>1, <3>2, <4>1 DEF Imports, Committing, Committed
    <3>3. CASE ~Committing(e, d)
      BY <2>1, <2>5, <3>1, <3>3 DEF Imports
    <3> QED
      BY <3>2, <3>3
  <2> QED
    BY <2>2, <2>3, <2>4, <2>5
<1> QED
  BY <1>1, <1>3, <1>4, <1>5 DEF Shape

\* It keeps what the steps have settled.
LEMMA BlendSettling ==
    ASSUME NEW r \in RootRec, NEW s \in RootRec, NEW t \in RootRec,
           NEW e \in EngineRec, NEW d \in EngineRec, NEW x \in EngineRec, NEW a, NEW o, NEW l,
           Settling(l, r, s, e, d, a, o), RootBlend(t, r, s), EngineBlend(x, e, d)
    PROVE  Settling(l, r, t, e, x, a, o)
<1>1. s.input = r.input => t.input = r.input
  <2> SUFFICES ASSUME s.input = r.input PROVE t.input = r.input
    OBVIOUS
  <2>1. \A i \in Inputs : t.input[i] = r.input[i]
    BY DEF RootBlend
  <2> QED
    BY <2>1, SameInputs
<1>2. UndoFacts(l, r, t, e, x)
  <2>1. UndoFacts(l, r, s, e, d)
    BY DEF Settling
  <2>2. l.pc \in RestoringInputs \cup {"clean"} => Ended(r, t, e, x)
    BY <2>1 DEF UndoFacts, Ended, RootBlend, EngineBlend
  <2> QED
    BY <1>1, <2>1, <2>2 DEF UndoFacts, RootBlend, EngineBlend
<1>3. JournalFacts(l, r, t, e, x, a, o)
  <2>1. JournalFacts(l, r, s, e, d, a, o)
    BY DEF Settling
  <2>2. Revocable(r, e, d, a) => Revocable(r, e, x, a)
    BY DEF Revocable, EngineBlend
  <2> QED
    BY <1>1, <2>1, <2>2 DEF JournalFacts, NoJournal, RootBlend, EngineBlend
<1>4. PrepFacts(l, r, e, x)
  BY DEF Settling, PrepFacts, EngineBlend
<1> QED
  BY <1>2, <1>3, <1>4 DEF Settling

\* What of the directories may be on the disk, by the order in which entries reach it.
Reaches(t, x) ==
    /\ t \in RootRec /\ x \in EngineRec
    /\ RootBlend(t, root, droot) /\ EngineBlend(x, engine, dengine)
    /\ order = "global" => <<t, x>> \in {<<root, engine>>, <<droot, dengine>>}
    /\ order = "directory" => t \in {root, droot} /\ x \in {engine, dengine}

\* Recovery still succeeds.
LEMMA ReachesSure ==
    ASSUME IInv, AInv, NEW t, NEW x, Reaches(t, x)
    PROVE  Sure(root, t, engine, x, order)
<1>1. Sure(root, droot, engine, dengine, order) /\ order \in {"global", "directory", "entry"}
  BY GenerationAssumption DEF AInv, Shape
<1>2. CASE order = "global"
  <2>1. (t = root /\ x = engine) \/ (t = droot /\ x = dengine)
    BY <1>2 DEF Reaches
  <2> QED
    BY <1>1, <1>2, <2>1 DEF Sure
<1>3. CASE order = "directory"
  <2>1. t \in {root, droot} /\ x \in {engine, dengine}
    BY <1>3 DEF Reaches
  <2> QED
    BY <1>1, <1>3, <2>1 DEF Sure
<1>4. CASE order = "entry"
  BY <1>4 DEF Sure
<1> QED
  BY <1>1, <1>2, <1>3, <1>4

\* More is on the disk, and everybody is where they were.
LEMMA DiskShape ==
    ASSUME IInv, AInv, NEW t, NEW x, Reaches(t, x)
    PROVE  /\ Shape(root, t, engine, x, allowed, order)
           /\ \A q \in Procs : Settling(loc[q], root, t, engine, x, allowed, order)
<1> t \in RootRec /\ x \in EngineRec /\ RootBlend(t, root, droot) /\ EngineBlend(x, engine, dengine)
  BY DEF Reaches
<1>1. Sure(root, t, engine, x, order)
  BY ReachesSure
<1>2. Shape(root, t, engine, x, allowed, order)
  BY <1>1, BlendShape, Types DEF AInv
<1>3. \A q \in Procs : Settling(loc[q], root, t, engine, x, allowed, order)
  BY BlendSettling, Types DEF AInv
<1> QED
  BY <1>2, <1>3

\* Nothing, or everything, or a whole directory where the order allows it.
LEMMA Reached ==
    ASSUME IInv
    PROVE  /\ Reaches(droot, dengine) /\ Reaches(root, engine)
           /\ order # "global" => Reaches(root, dengine) /\ Reaches(droot, engine)
BY Types DEF Reaches, RootBlend, EngineBlend

\* fsync of the engine directory, of ROOT, and of the whole hierarchy.
LEMMA SyncReaches ==
    ASSUME IInv
    PROVE  /\ SyncEngine => Reaches(droot', dengine') /\ dengine' = engine /\ UNCHANGED <<root, engine>>
           /\ SyncRoot => Reaches(droot', dengine') /\ droot' = root /\ UNCHANGED <<root, engine>>
           /\ SyncAll => Reaches(droot', dengine') /\ droot' = root /\ dengine' = engine
           /\ SyncGenerations => Reaches(droot', dengine')
<1>1. SyncEngine => Reaches(droot', dengine') /\ dengine' = engine /\ UNCHANGED <<root, engine>>
  <2> SUFFICES ASSUME SyncEngine PROVE Reaches(droot', dengine') /\ dengine' = engine /\ UNCHANGED <<root, engine>>
    OBVIOUS
  <2>1. dengine' = engine /\ droot' \in {root, droot} /\ UNCHANGED <<root, engine>> /\ (order = "global" => droot' = root)
    BY DEF SyncEngine, SyncAll, files
  <2> QED
    BY <2>1, Reached
<1>2. SyncRoot => Reaches(droot', dengine') /\ droot' = root /\ UNCHANGED <<root, engine>>
  <2> SUFFICES ASSUME SyncRoot PROVE Reaches(droot', dengine') /\ droot' = root /\ UNCHANGED <<root, engine>>
    OBVIOUS
  <2>1. droot' = root /\ dengine' \in {engine, dengine} /\ UNCHANGED <<root, engine>> /\ (order = "global" => dengine' = engine)
    BY DEF SyncRoot, SyncAll, files
  <2> QED
    BY <2>1, Reached
<1>3. SyncAll => Reaches(droot', dengine') /\ droot' = root /\ dengine' = engine
  BY Reached DEF SyncAll
<1>4. SyncGenerations => Reaches(droot', dengine')
  <2> SUFFICES ASSUME SyncGenerations PROVE Reaches(droot', dengine')
    OBVIOUS
  <2>1. (droot' = root /\ dengine' = engine) \/ (droot' = droot /\ dengine' = dengine)
    BY DEF SyncGenerations, SyncAll
  <2> QED
    BY <2>1, Reached
<1> QED
  BY <1>1, <1>2, <1>3, <1>4

\* The owner fsyncs and goes on at n.
LEMMA SyncMove ==
    ASSUME IInv, AInv, NEW p \in Procs, loc[p].pc \in Locked,
           NEW n \in LocRec, loc' = [loc EXCEPT ![p] = n],
           NEW t, NEW x, Reaches(t, x), droot' = t, dengine' = x,
           UNCHANGED <<root, engine, allowed, order>>,
           Settling(n, root, t, engine, x, allowed, order)
    PROVE  AInv'
BY DiskShape, OwnerStep

\* Entries reach the disk, and nobody moves.
LEMMA DiskStep ==
    ASSUME IInv, AInv, NEW t, NEW x, Reaches(t, x), droot' = t, dengine' = x,
           UNCHANGED <<root, engine, allowed, order, loc>>
    PROVE  AInv'
BY DiskShape DEF AInv

-----------------------------------------------------------------------------
(* The shape after each change of an entry *)

\* x is e but for the entries in f.
But(x, e, f) ==
    /\ "journal" \notin f => x.journal = e.journal
    /\ "committed" \notin f => x.committed = e.committed
    /\ "current" \notin f => x.current = e.current
    /\ "backup" \notin f => x.backup = e.backup
    /\ "ijournal" \notin f => x.ijournal = e.ijournal
    /\ "ibackup" \notin f => x.ibackup = e.ibackup

\* Without a journal the marker and the backup mean nothing, nor do the backups of
\* inputs without theirs.
LEMMA LooseShape ==
    ASSUME NEW r \in RootRec, NEW s \in RootRec, NEW e \in EngineRec, NEW d \in EngineRec,
           NEW x \in EngineRec, NEW a, NEW o, Shape(r, s, e, d, a, o),
           But(x, e, {"committed", "backup", "ibackup"}),
           NoJournal(e, d) \/ (x.committed = e.committed /\ x.backup = e.backup),
           NoIJournal(e, d) \/ x.ibackup = e.ibackup
    PROVE  Shape(r, s, x, d, a, o)
<1>0. /\ x.journal = e.journal /\ x.current = e.current /\ x.ijournal = e.ijournal
  BY DEF But
<1>1. Restored(r, x) = Restored(r, e)
  BY <1>0 DEF Restored, NoIJournal
<1>2. CASE NoJournal(e, d)
  <2>1. Unjournaled(r, s, x, d, a) /\ Journaled(r, s, x, d, a) /\ Fenced(r, s, x, d, a)
    BY <1>0, <1>1, <1>2 DEF Shape, Unjournaled, Journaled, Fenced, NoJournal
  <2>2. Imports(r, s, x, d)
    BY <1>0, <1>2 DEF Shape, Imports, NoJournal, NoIJournal, Committing, Committed
  <2>3. Sure(r, s, x, d, o)
    BY <1>0, <1>2 DEF Shape, Sure, BackedUp, Firm, Committed, NoJournal, NoIJournal
  <2> QED
    BY <2>1, <2>2, <2>3 DEF Shape
<1>3. CASE x.committed = e.committed /\ x.backup = e.backup
  <2>1. Unjournaled(r, s, x, d, a) /\ Journaled(r, s, x, d, a) /\ Fenced(r, s, x, d, a)
    BY <1>0, <1>1, <1>3 DEF Shape, Unjournaled, Journaled, Fenced, OldPublic
  <2>2. Imports(r, s, x, d)
    BY <1>0, <1>3 DEF Shape, Imports, NoIJournal, Committing, Committed
  <2>3. Sure(r, s, x, d, o)
    BY <1>0, <1>3 DEF Shape, Sure, BackedUp, Firm, Committed, CommittedJournal, NoIJournal
  <2> QED
    BY <2>1, <2>2, <2>3 DEF Shape
<1> QED
  BY <1>2, <1>3

\* cleanup_transaction removes a journal that has nothing left to do.
LEMMA FenceShape ==
    ASSUME NEW r \in RootRec, NEW s \in RootRec, NEW e \in EngineRec, NEW d \in EngineRec,
           NEW x \in EngineRec, NEW a, NEW o, Shape(r, s, e, d, a, o),
           But(x, e, {"journal"}), x.journal = None, e.journal # None, Ended(r, s, e, d),
           d.journal = e.journal, d.committed = e.committed, d.current = e.current,
           d.backup = e.backup, e.ijournal = None, d.ijournal = None
    PROVE  Shape(r, s, x, d, a, o)
<1>0. /\ x.committed = e.committed /\ x.current = e.current /\ x.backup = e.backup
      /\ x.ijournal = e.ijournal /\ x.ibackup = e.ibackup
  BY DEF But
<1>1. Restored(r, e) = r.input
  BY DEF Restored
<1>2. Unjournaled(r, s, x, d, a) /\ Journaled(r, s, x, d, a)
  BY DEF Unjournaled, Journaled
<1>3. Fenced(r, s, x, d, a)
  BY <1>0, <1>1 DEF Shape, Journaled, Fenced, Ended, OldPublic
<1>4. Imports(r, s, x, d)
  BY <1>0 DEF Shape, Imports
<1>5. Sure(r, s, x, d, o)
  BY <1>0 DEF Shape, Sure, BackedUp, Firm, Committed
<1> QED
  BY <1>2, <1>3, <1>4, <1>5 DEF Shape

\* recover_inputs removes its journal when the inputs are restored, or stay.
LEMMA UnlinkShape ==
    ASSUME NEW r \in RootRec, NEW s \in RootRec, NEW e \in EngineRec, NEW d \in EngineRec,
           NEW x \in EngineRec, NEW a, NEW o, Shape(r, s, e, d, a, o),
           But(x, e, {"ijournal"}), x.ijournal = None, e.ijournal # None,
           RestoredTo(r, e, NInputs), s.input = r.input,
           d.journal = e.journal, d.committed = e.committed,
           d.ijournal = e.ijournal, d.ibackup = e.ibackup
    PROVE  Shape(r, s, x, d, a, o)
<1>0. /\ x.journal = e.journal /\ x.committed = e.committed /\ x.current = e.current
      /\ x.backup = e.backup /\ x.ibackup = e.ibackup
  BY DEF But
<1>1. Restored(r, x) = r.input
  BY DEF Restored
<1>2. ~Committed(e) => Restored(r, e) = r.input
  <2> SUFFICES ASSUME ~Committed(e) PROVE Restored(r, e) = r.input
    OBVIOUS
  <2>1. r.input \in Ids
    BY DEF RootRec
  <2>2. ASSUME NEW i \in Inputs
        PROVE  Restored(r, e)[i] = r.input[i]
    <3>1. i <= NInputs
      BY GenerationAssumption DEF Inputs
    <3> QED
      BY <3>1 DEF Restored, RestoredTo
  <2>3. Restored(r, e) = [i \in Inputs |-> r.input[i]]
    BY <2>2 DEF Restored
  <2> QED
    BY <2>1, <2>3 DEF Ids
<1>3. Unjournaled(r, s, x, d, a)
  BY <1>0, <1>1, <1>2 DEF Shape, Unjournaled, Committed
<1>4. Journaled(r, s, x, d, a)
  BY <1>0, <1>1, <1>2 DEF Shape, Journaled, Committed, OldPublic
<1>5. Fenced(r, s, x, d, a)
  BY <1>0 DEF Shape, Fenced
<1>6. Imports(r, s, x, d)
  <2>1. Imports(r, s, e, d)
    BY DEF Shape
  <2>2. CASE Committed(e)
    BY <1>0, <2>1, <2>2 DEF Imports, Committing, Committed
  <2>3. CASE ~Committed(e)
    <3>1. \A i \in d.ijournal.changed : i <= NInputs
      BY GenerationAssumption DEF EngineRec, IJournalRec, Inputs
    <3> QED
      BY <1>0, <2>1, <2>3, <3>1 DEF Imports, RestoredTo
  <2> QED
    BY <2>2, <2>3
<1>7. Sure(r, s, x, d, o)
  BY <1>0 DEF Shape, Sure, BackedUp, Firm, Committed, CommittedJournal
<1> QED
  BY <1>3, <1>4, <1>5, <1>6, <1>7 DEF Shape

\* The backups of inputs go after their journal.
LEMMA SweepShape ==
    ASSUME NEW r \in RootRec, NEW s \in RootRec, NEW e \in EngineRec, NEW d \in EngineRec,
           NEW x \in EngineRec, NEW a, NEW o, Shape(r, s, e, d, a, o),
           But(x, e, {"ibackup"}), x.ibackup = NoItems, e.ijournal = None
    PROVE  Shape(r, s, x, d, a, o)
<1>0. /\ x.journal = e.journal /\ x.committed = e.committed /\ x.current = e.current
      /\ x.backup = e.backup /\ x.ijournal = None /\ \A i \in Inputs : x.ibackup[i] = None
  BY DEF But, NoItems
<1>1. Restored(r, x) = Restored(r, e)
  BY <1>0 DEF Restored
<1>2. Unjournaled(r, s, x, d, a) /\ Journaled(r, s, x, d, a) /\ Fenced(r, s, x, d, a)
  BY <1>0, <1>1 DEF Shape, Unjournaled, Journaled, Fenced, OldPublic
<1>3. Imports(r, s, x, d)
  <2>1. d.ijournal # None => d.ijournal.changed \subseteq Inputs
    BY DEF EngineRec, IJournalRec
  <2> QED
    BY <1>0, <2>1 DEF Shape, Imports, Committing, Committed
<1>4. Sure(r, s, x, d, o)
  BY <1>0 DEF Shape, Sure, BackedUp, Firm, Committed, CommittedJournal
<1> QED
  BY <1>2, <1>3, <1>4 DEF Shape

\* The selector changes under a journal that is rolled back.
LEMMA SelectShape ==
    ASSUME NEW r \in RootRec, NEW s \in RootRec, NEW e \in EngineRec, NEW d \in EngineRec,
           NEW x \in EngineRec, NEW a, NEW o, Shape(r, s, e, d, a, o),
           But(x, e, {"current"}), e.journal # None, e.committed = None,
           d.journal = None => x.current = e.journal.old
    PROVE  Shape(r, s, x, d, a, o)
<1>0. /\ x.journal = e.journal /\ x.committed = e.committed /\ x.backup = e.backup
      /\ x.ijournal = e.ijournal /\ x.ibackup = e.ibackup
  BY DEF But
<1>1. Restored(r, x) = Restored(r, e) /\ OldPublic(x) = OldPublic(e)
  BY <1>0 DEF Restored, OldPublic
<1>2. Journaled(r, s, x, d, a)
  BY <1>0, <1>1 DEF Shape, Journaled
<1>3. Unjournaled(r, s, x, d, a) /\ Fenced(r, s, x, d, a)
  BY <1>0 DEF Unjournaled, Fenced
<1>4. Imports(r, s, x, d)
  BY <1>0 DEF Shape, Imports, Committing, Committed
<1>5. Sure(r, s, x, d, o)
  BY <1>0 DEF Shape, Sure, BackedUp, Firm, Committed
<1> QED
  BY <1>2, <1>3, <1>4, <1>5 DEF Shape

\* The journal of a publication, over a backup of the present export.
LEMMA JournalShape ==
    ASSUME NEW r \in RootRec, NEW s \in RootRec, NEW e \in EngineRec, NEW d \in EngineRec,
           NEW x \in EngineRec, NEW a, NEW o, Shape(r, s, e, d, a, o),
           But(x, e, {"journal"}), NoJournal(e, d), x.journal # None,
           x.journal.old = e.current, x.journal.present = (r.public # None),
           e.committed = None, d.committed = None, e.backup = r.public, d.backup \in {None, e.backup}
    PROVE  Shape(r, s, x, d, a, o)
<1>0. /\ x.committed = e.committed /\ x.current = e.current /\ x.backup = e.backup
      /\ x.ijournal = e.ijournal /\ x.ibackup = e.ibackup
  BY DEF But
<1>1. Restored(r, x) = Restored(r, e) /\ OldPublic(x) = r.public
  BY <1>0 DEF Restored, OldPublic
<1>2. Journaled(r, s, x, d, a)
  BY <1>0, <1>1 DEF Shape, Unjournaled, Journaled, NoJournal
<1>3. Unjournaled(r, s, x, d, a) /\ Fenced(r, s, x, d, a)
  BY DEF Unjournaled, Fenced
<1>4. Imports(r, s, x, d)
  BY <1>0 DEF Shape, Imports, Committing, Committed, NoJournal
<1>5. Sure(r, s, x, d, o)
  <2>1. r.public # Torn
    BY Nones DEF RootRec
  <2> QED
    BY <1>0, <2>1 DEF Shape, Sure, BackedUp, Firm, Committed, NoJournal
<1> QED
  BY <1>2, <1>3, <1>4, <1>5 DEF Shape

\* The marker: from here on the new view is kept.
LEMMA MarkShape ==
    ASSUME NEW r \in RootRec, NEW s \in RootRec, NEW e \in EngineRec, NEW d \in EngineRec,
           NEW x \in EngineRec, NEW a, NEW o, Shape(r, s, e, d, a, o),
           But(x, e, {"committed"}), e.journal # None, d.journal = e.journal,
           e.committed = None, d.committed = None, x.committed = e.journal.next,
           e.current = e.journal.next, d.current = e.current,
           r.public = e.journal.next, s.public = r.public, s.input = r.input,
           e.ijournal = None => d.ijournal = None
    PROVE  Shape(r, s, x, d, a \cup {ViewOf(e.current, r.public, r.input)}, o)
<1>0. /\ x.journal = e.journal /\ x.current = e.current /\ x.backup = e.backup
      /\ x.ijournal = e.ijournal /\ x.ibackup = e.ibackup
  BY DEF But
<1>1. Restored(r, x) = Restored(r, e) /\ OldPublic(x) = OldPublic(e)
  BY <1>0 DEF Restored, OldPublic
<1>2. Journaled(r, s, x, d, a \cup {ViewOf(e.current, r.public, r.input)})
  BY <1>0, <1>1 DEF Shape, Journaled
<1>3. /\ Unjournaled(r, s, x, d, a \cup {ViewOf(e.current, r.public, r.input)})
      /\ Fenced(r, s, x, d, a \cup {ViewOf(e.current, r.public, r.input)})
  BY <1>0 DEF Unjournaled, Fenced
<1>4. Imports(r, s, x, d)
  BY <1>0 DEF Shape, Imports
<1>5. Sure(r, s, x, d, o)
  BY <1>0 DEF Shape, Sure, BackedUp, Firm, Committed, CommittedJournal
<1> QED
  BY <1>2, <1>3, <1>4, <1>5 DEF Shape

\* The marker of a publication that failed is removed.
LEMMA RevokeShape ==
    ASSUME NEW r \in RootRec, NEW s \in RootRec, NEW e \in EngineRec, NEW d \in EngineRec,
           NEW x \in EngineRec, NEW a, NEW o, Shape(r, s, e, d, a, o),
           But(x, e, {"committed"}), x.committed = None,
           e.committed = None \/ (o # "directory" /\ Revocable(r, e, d, a))
    PROVE  Shape(r, s, x, d, a, o)
<1>1. CASE e.committed = None
  BY <1>1, LooseShape DEF But
<1>2. CASE e.committed # None
  <2>0. /\ x.journal = e.journal /\ x.current = e.current /\ x.backup = e.backup
        /\ x.ijournal = e.ijournal /\ x.ibackup = e.ibackup
    BY DEF But
  <2>1. Restored(r, x) = Restored(r, e) /\ OldPublic(x) = OldPublic(e)
    BY <2>0 DEF Restored, OldPublic
  <2>2. Journaled(r, s, x, d, a)
    BY <1>2, <2>0, <2>1 DEF Shape, Journaled, Revocable
  <2>3. Unjournaled(r, s, x, d, a) /\ Fenced(r, s, x, d, a)
    BY <1>2, <2>0 DEF Unjournaled, Fenced, Revocable
  <2>4. Imports(r, s, x, d)
    BY <1>2, <2>0 DEF Shape, Imports, Revocable
  <2>5. Sure(r, s, x, d, o)
    BY <1>2, <2>0 DEF Shape, Sure, BackedUp, Firm, Committed
  <2> QED
    BY <2>2, <2>3, <2>4, <2>5 DEF Shape
<1> QED
  BY <1>1, <1>2

\* The journal of an import, over backups of the present inputs.
LEMMA ImportShape ==
    ASSUME NEW r \in RootRec, NEW s \in RootRec, NEW e \in EngineRec, NEW d \in EngineRec,
           NEW x \in EngineRec, NEW a, NEW o, Shape(r, s, e, d, a, o),
           But(x, e, {"ijournal"}), NoJournal(e, d), NoIJournal(e, d), x.ijournal # None,
           x.ijournal.changed \cap Editable = {},
           \A i \in x.ijournal.changed :
              IF i \in x.ijournal.present
              THEN /\ r.input[i] = e.ibackup[i] /\ d.ibackup[i] \in {None, e.ibackup[i]}
                   /\ e.ibackup[i] \notin {None, Torn}
              ELSE r.input[i] = None
    PROVE  Shape(r, s, x, d, a, o)
<1>0. /\ x.journal = e.journal /\ x.committed = e.committed /\ x.current = e.current
      /\ x.backup = e.backup /\ x.ibackup = e.ibackup
  BY DEF But
<1>1. Restored(r, e) = r.input
  BY DEF Restored, NoIJournal
<1>2. Restored(r, x) = r.input
  <2>1. Restored(r, x) = [i \in Inputs |-> r.input[i]]
    BY <1>0 DEF Restored
  <2> QED
    BY <2>1 DEF RootRec, Ids
<1>3. Unjournaled(r, s, x, d, a) /\ Journaled(r, s, x, d, a) /\ Fenced(r, s, x, d, a)
  BY <1>0, <1>1, <1>2 DEF Shape, Unjournaled, Journaled, Fenced, NoJournal
<1>4. Imports(r, s, x, d)
  BY <1>0 DEF Shape, Imports, NoIJournal
<1>5. Sure(r, s, x, d, o)
  BY <1>0 DEF Shape, Sure, BackedUp, Firm, Committed, NoJournal
<1> QED
  BY <1>3, <1>4, <1>5 DEF Shape

\* The export changes under a journal that is rolled back.
LEMMA PublicShape ==
    ASSUME NEW r \in RootRec, NEW s \in RootRec, NEW e \in EngineRec, NEW d \in EngineRec,
           NEW y \in RootRec, NEW a, NEW o, Shape(r, s, e, d, a, o),
           y.input = r.input, e.journal # None, e.committed = None,
           d.journal = None => y.public = OldPublic(e)
    PROVE  Shape(y, s, e, d, a, o)
<1>1. Restored(y, e) = Restored(r, e)
  BY DEF Restored
<1>2. Journaled(y, s, e, d, a)
  BY <1>1 DEF Shape, Journaled
<1>3. Unjournaled(y, s, e, d, a) /\ Fenced(y, s, e, d, a)
  BY DEF Unjournaled, Fenced
<1>4. Imports(y, s, e, d)
  BY DEF Shape, Imports
<1>5. Sure(y, s, e, d, o)
  BY DEF Shape, Sure, Firm, Committed
<1> QED
  BY <1>2, <1>3, <1>4, <1>5 DEF Shape

\* The legacy exporter writes its export, without a journal.
LEMMA LegacyShape ==
    ASSUME NEW r \in RootRec, NEW s \in RootRec, NEW e \in EngineRec, NEW d \in EngineRec,
           NEW y \in RootRec, NEW a, NEW o, Shape(r, s, e, d, a, o),
           y.input = r.input, NoJournal(e, d)
    PROVE  Shape(y, s, e, d, a \cup {ViewOf(e.current, y.public, Restored(y, e))}, o)
<1>1. Restored(y, e) = Restored(r, e)
  BY DEF Restored
<1> DEFINE b == a \cup {ViewOf(e.current, y.public, Restored(y, e))}
<1>2. Unjournaled(y, s, e, d, b) /\ Journaled(y, s, e, d, b) /\ Fenced(y, s, e, d, b)
  BY <1>1 DEF Shape, Unjournaled, Journaled, Fenced, NoJournal
<1>3. Imports(y, s, e, d)
  BY DEF Shape, Imports
<1>4. Sure(y, s, e, d, o)
  BY DEF Shape, Sure, Firm, Committed, NoJournal
<1> QED
  BY <1>2, <1>3, <1>4 DEF Shape

\* An input that the import's journal restores changes.
LEMMA InputShape ==
    ASSUME NEW r \in RootRec, NEW s \in RootRec, NEW e \in EngineRec, NEW d \in EngineRec,
           NEW y \in RootRec, NEW a, NEW o, Shape(r, s, e, d, a, o),
           y.public = r.public, e.ijournal # None,
           \A i \in Inputs \ e.ijournal.changed : y.input[i] = r.input[i],
           d.ijournal = None => y.input = r.input,
           e.journal # None => e.committed = None /\ d.committed = None
    PROVE  Shape(y, s, e, d, a, o)
<1>1. Restored(y, e) = Restored(r, e)
  BY DEF Restored
<1>2. Unjournaled(y, s, e, d, a) /\ Fenced(y, s, e, d, a)
  BY <1>1 DEF Shape, Unjournaled, Fenced
<1>3. Journaled(y, s, e, d, a)
  BY <1>1 DEF Shape, Journaled
<1>4. Imports(y, s, e, d)
  BY DEF Shape, Imports
<1>5. Sure(y, s, e, d, o)
  BY DEF Shape, Sure, Firm, Committed
<1> QED
  BY <1>2, <1>3, <1>4, <1>5 DEF Shape

-----------------------------------------------------------------------------
(* cleanup_transaction and recover *)

\* Where they change the engine directory.
LEMMA RecoverEngine ==
    ASSUME IInv, AInv, NEW p \in Procs,
           Clean1(p) \/ Clean3(p) \/ UndoSelect(p) \/ InputsUnlink(p) \/ InputsClean(p)
    PROVE  AInv'
<1> USE DEF Locked, Ready, Recovering, Publishing, Preparing
<1>1. CASE Clean1(p)
  <2> DEFINE e == [engine EXCEPT !.journal = None]
  <2>1. /\ loc[p].pc = "clean" /\ Goto(p, "clean_sync") /\ engine' = e
        /\ UNCHANGED <<root, droot, dengine, allowed, order>>
    BY <1>1 DEF Clean1, At, Quiet, history, env, InEngine, disk, CleanJournal
  <2>2. PICK n \in LocRec : Moved(n, p, "clean_sync")
    BY <2>1, GotoLoc DEF IInv, Pcs
  <2>3. e \in EngineRec /\ But(e, engine, {"journal"}) /\ e.journal = None
    BY <2>1, Have, HolderFacts, Types DEF But, EngineRec, JournalRec, IJournalRec, Temps, Exports
  <2> HIDE DEF e
  <2>4. Shape(root, droot, e, dengine, allowed, order)
    BY <2>1, <2>3, Have, Types, FenceShape, LooseShape DEF AInv, UndoFacts, RestoringInputs, But
  <2>5. UndoFacts(n, root, droot, e, dengine)
    BY <2>1, <2>2, <2>3, Have DEF Moved, But, UndoFacts, RestoringInputs
  <2>6. JournalFacts(n, root, droot, e, dengine, allowed, order)
    BY <2>1, <2>2, <2>3, Have, HolderFacts DEF Moved, But, JournalFacts, Before, After
  <2>7. PrepFacts(n, root, e, dengine)
    BY <2>1, <2>2, <2>3, Have, HolderFacts DEF Moved, But, PrepFacts, Sane, Rewrites
  <2> QED
    BY <2>1, <2>2, <2>4, <2>5, <2>6, <2>7, OwnerStep DEF Moved, Settling
<1>2. CASE Clean3(p)
  <2> DEFINE e == [engine EXCEPT !.backup = None, !.committed = None, !.temps = @ \ Leftovers]
  <2>1. /\ loc[p].pc = "clean_rest" /\ Goto(p, "clean_end") /\ engine' = e
        /\ UNCHANGED <<root, droot, dengine, allowed, order>>
    BY <1>2 DEF Clean3, At, Quiet, history, env, InEngine, disk
  <2>2. PICK n \in LocRec : Moved(n, p, "clean_end")
    BY <2>1, GotoLoc DEF IInv, Pcs
  <2>3. e \in EngineRec /\ But(e, engine, {"backup", "committed"}) /\ e.committed = None
    BY <2>1, Have, HolderFacts, Types DEF But, EngineRec, JournalRec, IJournalRec, Temps, Exports
  <2> HIDE DEF e
  <2>4. Shape(root, droot, e, dengine, allowed, order)
    BY <2>1, <2>3, Have, HolderFacts, Types, LooseShape DEF AInv, PubFacts, But
  <2>5. UndoFacts(n, root, droot, e, dengine)
    BY <2>1, <2>2, <2>3, Have DEF Moved, But, UndoFacts, RestoringInputs
  <2>6. JournalFacts(n, root, droot, e, dengine, allowed, order)
    BY <2>1, <2>2, <2>3, Have, HolderFacts DEF Moved, But, JournalFacts, Before, After
  <2>7. PrepFacts(n, root, e, dengine)
    BY <2>1, <2>2, <2>3, Have, HolderFacts DEF Moved, But, PrepFacts, Sane, Rewrites
  <2> QED
    BY <2>1, <2>2, <2>4, <2>5, <2>6, <2>7, OwnerStep DEF Moved, Settling
<1>3. CASE UndoSelect(p)
  <2> DEFINE e == [engine EXCEPT !.current = engine.journal.old]
  <2>1. /\ loc[p].pc = "undo_select" /\ Goto(p, "undo_root_sync") /\ engine' = e
        /\ UNCHANGED <<root, droot, dengine, allowed, order>>
    BY <1>3 DEF UndoSelect, At, Quiet, history, env, InEngine, disk
  <2>2. PICK n \in LocRec : Moved(n, p, "undo_root_sync")
    BY <2>1, GotoLoc DEF IInv, Pcs
  <2>3. e \in EngineRec /\ But(e, engine, {"current"}) /\ e.current = engine.journal.old
    BY <2>1, Have, HolderFacts, Types DEF But, EngineRec, JournalRec, IJournalRec, Temps, Exports, UndoFacts
  <2> HIDE DEF e
  <2>4. Shape(root, droot, e, dengine, allowed, order)
    BY <2>1, <2>3, Have, Types, SelectShape DEF AInv, UndoFacts
  <2>5. UndoFacts(n, root, droot, e, dengine)
    BY <2>1, <2>2, <2>3, Have DEF Moved, But, UndoFacts, RestoringInputs, OldPublic
  <2>6. JournalFacts(n, root, droot, e, dengine, allowed, order)
    BY <2>1, <2>2, <2>3, Have, HolderFacts DEF Moved, But, JournalFacts, Before, After
  <2>7. PrepFacts(n, root, e, dengine)
    BY <2>1, <2>2, <2>3, Have, HolderFacts DEF Moved, But, PrepFacts, Sane, Rewrites
  <2> QED
    BY <2>1, <2>2, <2>4, <2>5, <2>6, <2>7, OwnerStep DEF Moved, Settling
<1>4. CASE InputsUnlink(p)
  <2> DEFINE e == [engine EXCEPT !.ijournal = None]
  <2>1. /\ loc[p].pc = "inputs_unlink" /\ Goto(p, "inputs_unlink_sync") /\ engine' = e
        /\ UNCHANGED <<root, droot, dengine, allowed, order>>
    BY <1>4 DEF InputsUnlink, At, Quiet, history, env, InEngine, disk
  <2>2. PICK n \in LocRec : Moved(n, p, "inputs_unlink_sync")
    BY <2>1, GotoLoc DEF IInv, Pcs
  <2>3. e \in EngineRec /\ But(e, engine, {"ijournal"}) /\ e.ijournal = None
    BY <2>1, Have, HolderFacts, Types DEF But, EngineRec, JournalRec, IJournalRec, Temps, Exports
  <2> HIDE DEF e
  <2>4. Shape(root, droot, e, dengine, allowed, order)
    BY <2>1, <2>3, Have, Types, UnlinkShape DEF AInv, UndoFacts
  <2>5. UndoFacts(n, root, droot, e, dengine)
    BY <2>1, <2>2, <2>3, Have DEF Moved, But, UndoFacts, RestoringInputs, Ended, OldPublic
  <2>6. JournalFacts(n, root, droot, e, dengine, allowed, order)
    BY <2>1, <2>2, <2>3, Have, HolderFacts DEF Moved, But, JournalFacts, Before, After
  <2>7. PrepFacts(n, root, e, dengine)
    BY <2>1, <2>2, <2>3, Have, HolderFacts DEF Moved, But, PrepFacts, Sane, Rewrites
  <2> QED
    BY <2>1, <2>2, <2>4, <2>5, <2>6, <2>7, OwnerStep DEF Moved, Settling
<1>5. CASE InputsClean(p)
  <2> DEFINE e == [engine EXCEPT !.ibackup = NoItems, !.temps = @ \ {"import.next", "import.journal.next"}]
  <2>1. /\ loc[p].pc = "inputs_clean" /\ Goto(p, "inputs_clean_sync") /\ engine' = e
        /\ UNCHANGED <<root, droot, dengine, allowed, order>>
    BY <1>5 DEF InputsClean, At, Quiet, history, env, InEngine, disk
  <2>2. PICK n \in LocRec : Moved(n, p, "inputs_clean_sync")
    BY <2>1, GotoLoc DEF IInv, Pcs
  <2>3. e \in EngineRec /\ But(e, engine, {"ibackup"}) /\ e.ibackup = NoItems
    BY <2>1, Have, HolderFacts, Types DEF But, EngineRec, JournalRec, IJournalRec, Temps, Exports, NoItems, Contents
  <2> HIDE DEF e
  <2>4. Shape(root, droot, e, dengine, allowed, order)
    BY <2>1, <2>3, Have, HolderFacts, Types, SweepShape DEF AInv, ImportFacts
  <2>5. UndoFacts(n, root, droot, e, dengine)
    BY <2>1, <2>2, <2>3, Have DEF Moved, But, UndoFacts, RestoringInputs, Ended, OldPublic
  <2>6. JournalFacts(n, root, droot, e, dengine, allowed, order)
    BY <2>1, <2>2, <2>3, Have, HolderFacts DEF Moved, But, JournalFacts, Before, After
  <2>7. PrepFacts(n, root, e, dengine)
    BY <2>1, <2>2, <2>3, Have, HolderFacts DEF Moved, But, PrepFacts, Sane, Rewrites
  <2> QED
    BY <2>1, <2>2, <2>4, <2>5, <2>6, <2>7, OwnerStep DEF Moved, Settling
<1> QED
  BY <1>1, <1>2, <1>3, <1>4, <1>5

-----------------------------------------------------------------------------
(* publish *)

\* Where it changes the engine directory.
LEMMA PublishEngine ==
    ASSUME IInv, AInv, NEW p \in Procs,
           \/ PubBackup(p) \/ PubExport(p) \/ PubJournal(p) \/ PubJournalRename(p)
           \/ PubSelect(p) \/ PubCommit(p) \/ PubCommitRename(p)
    PROVE  AInv'
<1> USE DEF Locked, Ready, Recovering, Publishing, Preparing
<1>1. CASE PubBackup(p)
  <2> DEFINE e == [engine EXCEPT !.backup = IF root.public = None THEN @ ELSE root.public]
  <2>1. /\ loc[p].pc = "pub_backup" /\ Goto(p, "pub_export") /\ engine' = e
        /\ UNCHANGED <<root, droot, dengine, allowed, order>>
    BY <1>1 DEF PubBackup, At, Quiet, history, env, InEngine, disk
  <2>2. PICK n \in LocRec : Moved(n, p, "pub_export")
    BY <2>1, GotoLoc DEF IInv, Pcs
  <2>3. e \in EngineRec /\ But(e, engine, {"backup"}) /\ e.backup = root.public
    BY <2>1, Have, HolderFacts, Types DEF But, EngineRec, JournalRec, IJournalRec, Temps, Exports, JournalFacts, RootRec
  <2> HIDE DEF e
  <2>4. Shape(root, droot, e, dengine, allowed, order)
    BY <2>1, <2>3, Have, Types, LooseShape DEF AInv, But, JournalFacts, Before
  <2>5. UndoFacts(n, root, droot, e, dengine)
    BY <2>1, <2>2, <2>3, Have DEF Moved, But, UndoFacts, RestoringInputs
  <2>6. JournalFacts(n, root, droot, e, dengine, allowed, order)
    BY <2>1, <2>2, <2>3, Have, HolderFacts DEF Moved, But, JournalFacts, Before, After, NoJournal
  <2>7. PrepFacts(n, root, e, dengine)
    BY <2>1, <2>2, <2>3, Have, HolderFacts DEF Moved, But, PrepFacts, Sane, Rewrites
  <2> QED
    BY <2>1, <2>2, <2>4, <2>5, <2>6, <2>7, OwnerStep DEF Moved, Settling
<1>2. CASE PubExport(p)
  <2> DEFINE e == [engine EXCEPT !.temps = @ \cup {"export.next"}]
  <2>1. /\ loc[p].pc = "pub_export" /\ Goto(p, "pub_journal") /\ engine' = e
        /\ UNCHANGED <<root, droot, dengine, allowed, order>>
    BY <1>2 DEF PubExport, At, Quiet, history, env, InEngine, disk
  <2>2. PICK n \in LocRec : Moved(n, p, "pub_journal")
    BY <2>1, GotoLoc DEF IInv, Pcs
  <2>3. e \in EngineRec /\ But(e, engine, {})
    BY <2>1, Have, HolderFacts, Types DEF But, EngineRec, JournalRec, IJournalRec, Temps, Exports
  <2> HIDE DEF e
  <2>4. Shape(root, droot, e, dengine, allowed, order)
    BY <2>1, <2>3, Have, Types, LooseShape DEF AInv, But
  <2>5. UndoFacts(n, root, droot, e, dengine)
    BY <2>1, <2>2, <2>3, Have DEF Moved, But, UndoFacts, RestoringInputs
  <2>6. JournalFacts(n, root, droot, e, dengine, allowed, order)
    BY <2>1, <2>2, <2>3, Have, HolderFacts DEF Moved, But, JournalFacts, Before, After, NoJournal
  <2>7. PrepFacts(n, root, e, dengine)
    BY <2>1, <2>2, <2>3, Have, HolderFacts DEF Moved, But, PrepFacts, Sane, Rewrites
  <2> QED
    BY <2>1, <2>2, <2>4, <2>5, <2>6, <2>7, OwnerStep DEF Moved, Settling
<1>3. CASE PubJournal(p)
  <2> DEFINE e == [engine EXCEPT !.temps = @ \cup {"journal.next"}]
  <2>1. /\ loc[p].pc = "pub_journal" /\ Goto(p, "pub_journal_rename") /\ engine' = e
        /\ UNCHANGED <<root, droot, dengine, allowed, order>>
    BY <1>3 DEF PubJournal, At, Quiet, history, env, InEngine, disk
  <2>2. PICK n \in LocRec : Moved(n, p, "pub_journal_rename")
    BY <2>1, GotoLoc DEF IInv, Pcs
  <2>3. e \in EngineRec /\ But(e, engine, {})
    BY <2>1, Have, HolderFacts, Types DEF But, EngineRec, JournalRec, IJournalRec, Temps, Exports
  <2> HIDE DEF e
  <2>4. Shape(root, droot, e, dengine, allowed, order)
    BY <2>1, <2>3, Have, Types, LooseShape DEF AInv, But
  <2>5. UndoFacts(n, root, droot, e, dengine)
    BY <2>1, <2>2, <2>3, Have DEF Moved, But, UndoFacts, RestoringInputs
  <2>6. JournalFacts(n, root, droot, e, dengine, allowed, order)
    BY <2>1, <2>2, <2>3, Have, HolderFacts DEF Moved, But, JournalFacts, Before, After, NoJournal
  <2>7. PrepFacts(n, root, e, dengine)
    BY <2>1, <2>2, <2>3, Have, HolderFacts DEF Moved, But, PrepFacts, Sane, Rewrites
  <2> QED
    BY <2>1, <2>2, <2>4, <2>5, <2>6, <2>7, OwnerStep DEF Moved, Settling
<1>4. CASE PubJournalRename(p)
  <2> DEFINE j == [old |-> loc[p].old, present |-> root.public # None, next |-> loc[p].goal]
             e == [engine EXCEPT !.temps = @ \ {"journal.next"}, !.journal = j]
  <2>1. /\ loc[p].pc = "pub_journal_rename" /\ Goto(p, "pub_journal_sync") /\ engine' = e
        /\ UNCHANGED <<root, droot, dengine, allowed, order>>
    BY <1>4 DEF PubJournalRename, At, Quiet, history, env, InEngine, disk
  <2>2. PICK n \in LocRec : Moved(n, p, "pub_journal_sync")
    BY <2>1, GotoLoc DEF IInv, Pcs
  <2>0. /\ j \in JournalRec /\ j.old = loc[p].old /\ j.present = (root.public # None)
        /\ j.next = loc[p].goal
    BY Types DEF LocRec, JournalRec
  <2> HIDE DEF j
  <2>3. /\ e \in EngineRec /\ But(e, engine, {"journal"}) /\ e.journal # None
        /\ e.journal.old = loc[p].old /\ e.journal.present = (root.public # None)
        /\ e.journal.next = loc[p].goal
    <3>1. e \in EngineRec /\ e.journal = j /\ But(e, engine, {"journal"})
      BY <2>0, Types DEF EngineRec, But
    <3>2. j # None
      BY <2>0, NotNone
    <3> QED
      BY <2>0, <3>1, <3>2
  <2> HIDE DEF e
  <2>4. Shape(root, droot, e, dengine, allowed, order)
    BY <2>1, <2>3, Have, Types, JournalShape DEF AInv, JournalFacts, Before
  <2>5. UndoFacts(n, root, droot, e, dengine)
    BY <2>1, <2>2, <2>3, Have DEF Moved, But, UndoFacts, RestoringInputs
  <2>6. JournalFacts(n, root, droot, e, dengine, allowed, order)
    BY <2>1, <2>2, <2>3, Have, HolderFacts DEF Moved, But, JournalFacts, Before, After, NoJournal
  <2>7. PrepFacts(n, root, e, dengine)
    BY <2>1, <2>2, <2>3, Have, HolderFacts DEF Moved, But, PrepFacts, Sane, Rewrites
  <2> QED
    BY <2>1, <2>2, <2>4, <2>5, <2>6, <2>7, OwnerStep DEF Moved, Settling
<1>5. CASE PubSelect(p)
  <2> DEFINE e == [engine EXCEPT !.current = loc[p].goal]
  <2>1. /\ loc[p].pc = "pub_select" /\ Goto(p, "pub_root_sync") /\ engine' = e
        /\ UNCHANGED <<root, droot, dengine, allowed, order>>
    BY <1>5 DEF PubSelect, At, Quiet, history, env, InEngine, disk
  <2>2. PICK n \in LocRec : Moved(n, p, "pub_root_sync")
    BY <2>1, GotoLoc DEF IInv, Pcs
  <2>3. e \in EngineRec /\ But(e, engine, {"current"}) /\ e.current = loc[p].goal
    BY <2>1, Have, HolderFacts, Types DEF But, EngineRec, JournalRec, IJournalRec, Temps, Exports, LocRec
  <2> HIDE DEF e
  <2>4. Shape(root, droot, e, dengine, allowed, order)
    BY <2>1, <2>3, Have, Types, SelectShape DEF AInv, JournalFacts, After
  <2>5. UndoFacts(n, root, droot, e, dengine)
    BY <2>1, <2>2, <2>3, Have DEF Moved, But, UndoFacts, RestoringInputs
  <2>6. JournalFacts(n, root, droot, e, dengine, allowed, order)
    BY <2>1, <2>2, <2>3, Have, HolderFacts DEF Moved, But, JournalFacts, Before, After
  <2>7. PrepFacts(n, root, e, dengine)
    BY <2>1, <2>2, <2>3, Have, HolderFacts DEF Moved, But, PrepFacts, Sane, Rewrites
  <2> QED
    BY <2>1, <2>2, <2>4, <2>5, <2>6, <2>7, OwnerStep DEF Moved, Settling
<1>6. CASE PubCommit(p)
  <2> DEFINE e == [engine EXCEPT !.temps = @ \cup {"committed.next"}]
  <2>1. /\ loc[p].pc = "pub_commit" /\ Goto(p, "pub_commit_rename") /\ engine' = e
        /\ UNCHANGED <<root, droot, dengine, allowed, order>>
    BY <1>6 DEF PubCommit, At, Quiet, history, env, InEngine, disk
  <2>2. PICK n \in LocRec : Moved(n, p, "pub_commit_rename")
    BY <2>1, GotoLoc DEF IInv, Pcs
  <2>3. e \in EngineRec /\ But(e, engine, {})
    BY <2>1, Have, HolderFacts, Types DEF But, EngineRec, JournalRec, IJournalRec, Temps, Exports
  <2> HIDE DEF e
  <2>4. Shape(root, droot, e, dengine, allowed, order)
    BY <2>1, <2>3, Have, Types, LooseShape DEF AInv, But
  <2>5. UndoFacts(n, root, droot, e, dengine)
    BY <2>1, <2>2, <2>3, Have DEF Moved, But, UndoFacts, RestoringInputs
  <2>6. JournalFacts(n, root, droot, e, dengine, allowed, order)
    BY <2>1, <2>2, <2>3, Have, HolderFacts DEF Moved, But, JournalFacts, Before, After
  <2>7. PrepFacts(n, root, e, dengine)
    BY <2>1, <2>2, <2>3, Have, HolderFacts DEF Moved, But, PrepFacts, Sane, Rewrites
  <2> QED
    BY <2>1, <2>2, <2>4, <2>5, <2>6, <2>7, OwnerStep DEF Moved, Settling
<1>7. CASE PubCommitRename(p)
  <2> DEFINE e == [engine EXCEPT !.temps = @ \ {"committed.next"}, !.committed = loc[p].goal]
  <2>1. /\ loc[p].pc = "pub_commit_rename" /\ Goto(p, "pub_commit_sync") /\ engine' = e
        /\ UNCHANGED <<root, droot, dengine, order>>
        /\ allowed' = allowed \cup {ViewOf(engine.current, root.public, root.input)}
    BY <1>7 DEF PubCommitRename, At, Quiet, history, env, InEngine, disk, View, ViewOf
  <2>2. PICK n \in LocRec : Moved(n, p, "pub_commit_sync")
    BY <2>1, GotoLoc DEF IInv, Pcs
  <2>3. e \in EngineRec /\ But(e, engine, {"committed"}) /\ e.committed = loc[p].goal
    BY <2>1, Have, HolderFacts, Types DEF But, EngineRec, JournalRec, IJournalRec, Temps, Exports, LocRec
  <2> HIDE DEF e
  <2>4. Shape(root, droot, e, dengine, allowed \cup {ViewOf(engine.current, root.public, root.input)}, order)
    BY <2>1, <2>3, Have, Types, MarkShape DEF AInv, JournalFacts, After
  <2>5. UndoFacts(n, root, droot, e, dengine)
    BY <2>1, <2>2, <2>3, Have DEF Moved, But, UndoFacts, RestoringInputs
  <2>6. JournalFacts(n, root, droot, e, dengine, allowed \cup {ViewOf(engine.current, root.public, root.input)}, order)
    BY <2>1, <2>2, <2>3, Have, HolderFacts DEF Moved, But, JournalFacts, Before, After, Revocable, Journaled, OldPublic, Restored
  <2>7. PrepFacts(n, root, e, dengine)
    BY <2>1, <2>2, <2>3, Have, HolderFacts DEF Moved, But, PrepFacts, Sane, Rewrites
  <2> QED
    BY <2>1, <2>2, <2>4, <2>5, <2>6, <2>7, OwnerStep DEF Moved, Settling
<1> QED
  BY <1>1, <1>2, <1>3, <1>4, <1>5, <1>6, <1>7

-----------------------------------------------------------------------------
(* prepare_inputs, and the removal of the marker *)

\* Where they change the engine directory.
LEMMA ImportEngine ==
    ASSUME IInv, AInv, NEW p \in Procs,
           PrepBackup(p) \/ PrepJournal(p) \/ PrepJournalRename(p) \/ PrepInputsDone(p)
    PROVE  AInv'
<1> USE DEF Locked, Ready, Recovering, Publishing, Preparing
<1> loc[p] \in LocRec /\ loc \in [Procs -> LocRec]
  BY Types
<1>0. Changed(p) = Rewrites(loc[p])
  BY DEF Changed, Rewrites
<1>1. CASE PrepBackup(p)
  <2> DEFINE i == loc[p].k + 1
             n == [loc[p] EXCEPT !.k = i]
             b == [engine.ibackup EXCEPT ![i] = loc[p].snap[i]]
  <2>1. /\ loc[p].pc = "prep_backup" /\ i \in Inputs
        /\ loc' = [loc EXCEPT ![p].k = i]
        /\ UNCHANGED <<root, droot, dengine, allowed, order>>
        /\ engine' = IF i \notin Changed(p) THEN engine
                     ELSE [engine EXCEPT !.ibackup = b, !.temps = @ \cup {"import.next"}]
    BY <1>1 DEF PrepBackup, At, Quiet, history, env, InEngine, disk
  <2>2. /\ n \in LocRec /\ loc' = [loc EXCEPT ![p] = n]
        /\ n.pc = "prep_backup" /\ n.ret = loc[p].ret /\ n.k = i /\ n.old = loc[p].old
        /\ n.snap = loc[p].snap /\ n.goal = loc[p].goal
    BY <2>1, GenerationAssumption DEF LocRec, Inputs
  <2>3. /\ b \in [Inputs -> Contents \cup {Torn}] /\ b[i] = loc[p].snap[i]
        /\ \A j \in Inputs \ {i} : b[j] = engine.ibackup[j]
    BY <2>1, Types DEF EngineRec, LocRec, Ids, Contents
  <2> HIDE DEF b
  <2>4. PICK e \in EngineRec :
             /\ engine' = e /\ But(e, engine, {"ibackup"})
             /\ i \in Rewrites(loc[p]) => e.ibackup[i] = loc[p].snap[i]
             /\ \A j \in Inputs \ {i} : e.ibackup[j] = engine.ibackup[j]
    <3>1. CASE i \notin Changed(p)
      BY <1>0, <2>1, <3>1, Types DEF But
    <3>2. CASE i \in Changed(p)
      <4> DEFINE e == [engine EXCEPT !.ibackup = b, !.temps = @ \cup {"import.next"}]
      <4>1. e \in EngineRec /\ But(e, engine, {"ibackup"}) /\ e.ibackup = b
        BY <2>3, Types DEF EngineRec, Temps, But
      <4>2. engine' = e
        BY <2>1, <3>2
      <4> HIDE DEF e
      <4> QED
        BY <2>3, <4>1, <4>2
    <3> QED
      BY <3>1, <3>2
  <2>5. NoIJournal(engine, dengine)
    BY <2>1, HolderFacts DEF ImportFacts
  <2>6. Shape(root, droot, e, dengine, allowed, order)
    BY <2>4, <2>5, Types, LooseShape DEF AInv, But
  <2>7. UndoFacts(n, root, droot, e, dengine)
    BY <2>2 DEF UndoFacts, RestoringInputs
  <2>8. JournalFacts(n, root, droot, e, dengine, allowed, order)
    BY <2>1, <2>2, <2>4, Have DEF But, JournalFacts, Before, After, NoJournal
  <2>9. PrepFacts(n, root, e, dengine)
    <3>1. Rewrites(n) = Rewrites(loc[p]) /\ Rewrites(n) \subseteq Inputs
      BY <2>2 DEF Rewrites
    <3>2. ASSUME NEW j \in Rewrites(n)
          PROVE  /\ root.input[j] = n.snap[j] /\ dengine.ibackup[j] \in {None, e.ibackup[j]}
                 /\ e.ibackup[j] = IF j > n.k THEN None ELSE n.snap[j]
      <4>1. /\ root.input[j] = loc[p].snap[j] /\ dengine.ibackup[j] \in {None, engine.ibackup[j]}
            /\ engine.ibackup[j] = IF j > loc[p].k THEN None ELSE loc[p].snap[j]
        BY <2>1, <3>1, <3>2, Have DEF PrepFacts
      <4>2. CASE j = i
        <5>1. j > loc[p].k /\ ~(j > n.k)
          BY <2>2, <4>2 DEF LocRec
        <5> QED
          BY <2>2, <2>4, <3>1, <3>2, <4>1, <4>2, <5>1
      <4>3. CASE j # i
        <5>1. (j > n.k) <=> (j > loc[p].k)
          BY <2>1, <2>2, <3>1, <3>2, <4>3 DEF LocRec, Inputs
        <5> QED
          BY <2>2, <2>4, <3>1, <3>2, <4>1, <4>3, <5>1
      <4> QED
        BY <4>2, <4>3
    <3>3. Sane(n)
      BY <2>2, <3>1, Have DEF Sane, PrepFacts
    <3> HIDE DEF n, i
    <3> QED
      BY <2>2, <3>2, <3>3 DEF PrepFacts
  <2>10. Settling(n, root, droot, e, dengine, allowed, order)
    BY <2>7, <2>8, <2>9 DEF Settling
  <2>11. loc[p].pc = "prep_backup" /\ UNCHANGED <<root, droot, dengine, allowed, order>>
    BY <2>1
  <2> HIDE DEF n, i
  <2> QED
    BY <2>2, <2>4, <2>6, <2>10, <2>11, OwnerStep
<1>2. CASE PrepJournal(p)
  <2> DEFINE n == [loc[p] EXCEPT !.k = 0, !.pc = "prep_rename_journal"]
             e == [engine EXCEPT !.temps = @ \cup {"import.journal.next"}]
  <2>1. /\ loc[p].pc = "prep_backup" /\ engine' = e /\ loc[p].k = NInputs
        /\ loc' = [loc EXCEPT ![p].k = 0, ![p].pc = "prep_rename_journal"]
        /\ UNCHANGED <<root, droot, dengine, allowed, order>>
    BY <1>2 DEF PrepJournal, At, Quiet, history, env, InEngine, disk
  <2>2. /\ n \in LocRec /\ loc' = [loc EXCEPT ![p] = n]
        /\ n.pc = "prep_rename_journal" /\ n.ret = loc[p].ret /\ n.old = loc[p].old /\ n.k = 0
        /\ n.snap = loc[p].snap /\ n.goal = loc[p].goal
    BY <2>1, GenerationAssumption DEF LocRec, Pcs
  <2>3. e \in EngineRec /\ But(e, engine, {})
    BY Types DEF EngineRec, Temps, But
  <2> HIDE DEF n, e
  <2>4. Shape(root, droot, e, dengine, allowed, order)
    BY <2>3, Types, LooseShape DEF AInv, But
  <2>5. UndoFacts(n, root, droot, e, dengine)
    BY <2>1, <2>2, <2>3 DEF UndoFacts, RestoringInputs
  <2>6. JournalFacts(n, root, droot, e, dengine, allowed, order)
    BY <2>1, <2>2, <2>3, Have DEF But, JournalFacts, Before, After, NoJournal
  <2>7. PrepFacts(n, root, e, dengine)
    BY <2>1, <2>2, <2>3, Have, GenerationAssumption DEF PrepFacts, Sane, Rewrites, But, Inputs
  <2> QED
    BY <2>1, <2>2, <2>4, <2>5, <2>6, <2>7, OwnerStep DEF Settling
<1>3. CASE PrepJournalRename(p)
  <2> DEFINE j == [changed |-> Changed(p), present |-> {i \in Inputs : loc[p].snap[i] # None}]
             e == [engine EXCEPT !.temps = @ \ {"import.journal.next"}, !.ijournal = j]
  <2>1. /\ loc[p].pc = "prep_rename_journal" /\ Goto(p, "prep_sync") /\ engine' = e
        /\ UNCHANGED <<root, droot, dengine, allowed, order>>
    BY <1>3 DEF PrepJournalRename, At, Quiet, history, env, InEngine, disk
  <2>2. PICK n \in LocRec : Moved(n, p, "prep_sync")
    BY <2>1, GotoLoc DEF IInv, Pcs
  <2>3. /\ j \in IJournalRec /\ j.changed = Rewrites(loc[p])
        /\ \A i \in Inputs : i \in j.present <=> loc[p].snap[i] # None
    BY <1>0 DEF IJournalRec, Changed
  <2> HIDE DEF j
  <2>4. e \in EngineRec /\ But(e, engine, {"ijournal"}) /\ e.ijournal = j
    BY <2>3, Types DEF EngineRec, Temps, But
  <2> HIDE DEF e
  <2>5. j # None
    BY <2>3, NotNone
  <2>6. NoIJournal(engine, dengine) /\ NoJournal(engine, dengine)
    BY <2>1, HolderFacts DEF ImportFacts, PubFacts
  <2>7. \A i \in j.changed :
           IF i \in j.present
           THEN /\ root.input[i] = engine.ibackup[i] /\ dengine.ibackup[i] \in {None, engine.ibackup[i]}
                /\ engine.ibackup[i] \notin {None, Torn}
           ELSE root.input[i] = None
    <3>1. \A i \in Inputs : loc[p].snap[i] # Torn
      BY Nones DEF LocRec, Ids, Contents
    <3>2. j.changed \subseteq Inputs
      BY <2>3 DEF IJournalRec
    <3> QED
      BY <2>1, <2>3, <3>1, <3>2, Have DEF PrepFacts
  <2>8. j.changed \cap Editable = {}
    BY <2>3, Have DEF PrepFacts, Sane
  <2>9. Shape(root, droot, e, dengine, allowed, order)
    BY <2>4, <2>5, <2>6, <2>7, <2>8, Types, ImportShape DEF AInv
  <2>10. UndoFacts(n, root, droot, e, dengine)
    BY <2>2 DEF Moved, UndoFacts, RestoringInputs
  <2>11. JournalFacts(n, root, droot, e, dengine, allowed, order)
    BY <2>1, <2>2, <2>4, Have DEF Moved, But, JournalFacts, Before, After, NoJournal
  <2>12. PrepFacts(n, root, e, dengine)
    BY <2>1, <2>2, <2>3, <2>4, <2>5, Have DEF Moved, PrepFacts, Sane, Rewrites
  <2> QED
    BY <2>1, <2>2, <2>9, <2>10, <2>11, <2>12, OwnerStep DEF Moved, Settling
<1>4. CASE PrepInputsDone(p)
  <2> DEFINE n == [loc[p] EXCEPT !.k = 0, !.pc = "prep_root_sync"]
             e == [engine EXCEPT !.temps = @ \ {"import.next"}]
  <2>1. /\ loc[p].pc = "prep_input" /\ engine' = e
        /\ loc' = [loc EXCEPT ![p].k = 0, ![p].pc = "prep_root_sync"]
        /\ UNCHANGED <<root, droot, dengine, allowed, order>>
    BY <1>4 DEF PrepInputsDone, At, Quiet, history, env, InEngine, disk
  <2>2. /\ n \in LocRec /\ loc' = [loc EXCEPT ![p] = n]
        /\ n.pc = "prep_root_sync" /\ n.ret = loc[p].ret /\ n.old = loc[p].old /\ n.k = 0
        /\ n.snap = loc[p].snap /\ n.goal = loc[p].goal
    BY <2>1, GenerationAssumption DEF LocRec, Pcs
  <2>3. e \in EngineRec /\ But(e, engine, {})
    BY Types DEF EngineRec, Temps, But
  <2> HIDE DEF n, e
  <2>4. Shape(root, droot, e, dengine, allowed, order)
    BY <2>3, Types, LooseShape DEF AInv, But
  <2>5. UndoFacts(n, root, droot, e, dengine)
    BY <2>1, <2>2, <2>3 DEF UndoFacts, RestoringInputs
  <2>6. JournalFacts(n, root, droot, e, dengine, allowed, order)
    BY <2>1, <2>2, <2>3, Have DEF But, JournalFacts, Before, After, NoJournal
  <2>7. PrepFacts(n, root, e, dengine)
    BY <2>1, <2>2, <2>3, Have DEF PrepFacts, Sane, Rewrites, But
  <2> QED
    BY <2>1, <2>2, <2>4, <2>5, <2>6, <2>7, OwnerStep DEF Settling
<1> QED
  BY <1>1, <1>2, <1>3, <1>4

\* publish, or the import, takes the marker away before it rolls back.
LEMMA RevokeMarker ==
    ASSUME IInv, AInv, NEW p \in Procs, Abort(p) \/ Undo(p)
    PROVE  AInv'
<1> USE DEF Locked, Ready, Recovering, Publishing, Preparing
<1> loc[p] \in LocRec /\ loc \in [Procs -> LocRec]
  BY Types
<1> DEFINE e == [engine EXCEPT !.committed = None]
<1>1. PICK n \in LocRec :
           /\ loc' = [loc EXCEPT ![p] = n] /\ n.ret \in {"publish_failed", "end"}
           /\ n.pc = "recover" \/ (n.pc = "clean" /\ engine.journal = None)
           /\ n.k = 0 /\ n.snap = loc[p].snap /\ n.goal = loc[p].goal
  <2>1. CASE Abort(p)
    <3> DEFINE l == IF engine.journal # None THEN "recover" ELSE "clean"
               n == [loc[p] EXCEPT !.ret = "publish_failed", !.pc = l]
    <3> l \in Pcs /\ "publish_failed" \in Rets
      BY DEF Pcs, Rets
    <3>0. loc[p].k = 0
      BY <2>1, Have DEF Abort, At, PrepFacts, Sane
    <3>1. n \in LocRec /\ n.ret = "publish_failed" /\ n.pc = l /\ n.k = loc[p].k /\ n.snap = loc[p].snap /\ n.goal = loc[p].goal
      BY DEF LocRec
    <3>2. loc' = [loc EXCEPT ![p] = n]
      BY <2>1 DEF Abort
    <3> QED
      BY <3>0, <3>1, <3>2
  <2>2. CASE Undo(p)
    <3> DEFINE n == [loc[p] EXCEPT !.ret = "end", !.pc = "recover", !.k = 0]
    <3> "recover" \in Pcs /\ "end" \in Rets
      BY DEF Pcs, Rets
    <3> 0 \in 0..NInputs
      BY GenerationAssumption
    <3>1. n \in LocRec /\ n.ret = "end" /\ n.pc = "recover" /\ n.k = 0 /\ n.snap = loc[p].snap /\ n.goal = loc[p].goal
      BY DEF LocRec
    <3>2. loc' = [loc EXCEPT ![p] = n]
      BY <2>2 DEF Undo
    <3> QED
      BY <3>1, <3>2
  <2> QED
    BY <2>1, <2>2
<1>2. /\ loc[p].pc \in {"abort", "undo"} /\ engine' = e
      /\ UNCHANGED <<root, droot, dengine, allowed, order>>
  BY DEF Abort, Undo, At, Quiet, history, env, InEngine, disk
<1>3. e \in EngineRec /\ But(e, engine, {"committed"}) /\ e.committed = None
  BY Types DEF EngineRec, But
<1> HIDE DEF e
<1>4. Shape(root, droot, e, dengine, allowed, order)
  BY <1>2, <1>3, Have, Types, RevokeShape DEF AInv, JournalFacts
<1>5. UndoFacts(n, root, droot, e, dengine)
  BY <1>1, <1>3 DEF UndoFacts, RestoringInputs, Ended, But
<1>6. JournalFacts(n, root, droot, e, dengine, allowed, order)
  BY <1>1 DEF JournalFacts, Before, After
<1>7. PrepFacts(n, root, e, dengine)
  BY <1>1, Have DEF PrepFacts, Sane, Rewrites
<1> QED
  BY <1>1, <1>2, <1>4, <1>5, <1>6, <1>7, OwnerStep DEF Settling

-----------------------------------------------------------------------------
(* fsync of a directory *)

\* Of the engine directory, and of ROOT, between two steps of the owner.
LEMMA SyncsSettle ==
    ASSUME IInv, AInv, NEW p \in Procs,
           \/ Clean2(p) \/ UndoEngineSync(p) \/ InputsEngineSync(p) \/ InputsUnlinkSync(p)
           \/ InputsCleanSync(p) \/ PubJournalSync(p) \/ PubEngineSync(p) \/ PrepSync(p)
           \/ UndoRootSync(p) \/ InputsRootSync(p) \/ PubRootSync(p) \/ PrepRootSync(p)
    PROVE  AInv'
<1> USE DEF Locked, Ready, Recovering, Publishing, Preparing
<1> DEFINE EngineHops == {<<"clean_sync", "clean_rest">>, <<"undo_engine_sync", "inputs">>,
                           <<"inputs_engine_sync", "inputs_unlink">>, <<"inputs_unlink_sync", "inputs_clean">>,
                           <<"inputs_clean_sync", "clean">>, <<"pub_journal_sync", "pub_rename">>,
                           <<"pub_engine_sync", "pub_commit">>, <<"prep_sync", "prep_input">>}
           RootHops == {<<"undo_root_sync", "undo_engine_sync">>, <<"inputs_root_sync", "inputs_engine_sync">>,
                         <<"pub_root_sync", "pub_engine_sync">>, <<"prep_root_sync", "decide">>}
<1>1. PICK h \in EngineHops \cup RootHops :
           /\ loc[p].pc = h[1] /\ Goto(p, h[2]) /\ UNCHANGED <<allowed, order>>
           /\ IF h \in EngineHops THEN SyncEngine ELSE SyncRoot
  <2> USE DEF At, Quiet, history, env
  <2>1. CASE Clean2(p)
    BY <2>1 DEF Clean2
  <2>2. CASE UndoEngineSync(p)
    BY <2>2 DEF UndoEngineSync
  <2>3. CASE InputsEngineSync(p)
    BY <2>3 DEF InputsEngineSync
  <2>4. CASE InputsUnlinkSync(p)
    BY <2>4 DEF InputsUnlinkSync
  <2>5. CASE InputsCleanSync(p)
    BY <2>5 DEF InputsCleanSync
  <2>6. CASE PubJournalSync(p)
    BY <2>6 DEF PubJournalSync, SyncJournal
  <2>7. CASE PubEngineSync(p)
    BY <2>7 DEF PubEngineSync
  <2>8. CASE PrepSync(p)
    BY <2>8 DEF PrepSync, SyncJournal
  <2>9. CASE UndoRootSync(p)
    BY <2>9 DEF UndoRootSync
  <2>10. CASE InputsRootSync(p)
    BY <2>10 DEF InputsRootSync
  <2>11. CASE PubRootSync(p)
    BY <2>11 DEF PubRootSync
  <2>12. CASE PrepRootSync(p)
    BY <2>12 DEF PrepRootSync
  <2> QED
    BY <2>1, <2>2, <2>3, <2>4, <2>5, <2>6, <2>7, <2>8, <2>9, <2>10, <2>11, <2>12
<1>2. h[2] \in Pcs /\ h[1] \in Locked
  <2>1. h[1] \in Locked
    BY <1>1
  <2>2. h[2] \in Recovering \cup Publishing \cup Preparing \cup {"decide"}
    BY <1>1
  <2> QED
    BY <2>1, <2>2 DEF Pcs, Building
<1>3. PICK n \in LocRec : Moved(n, p, h[2])
  BY <1>1, <1>2, GotoLoc DEF IInv
<1>4. PICK t, x : /\ Reaches(t, x) /\ droot' = t /\ dengine' = x /\ UNCHANGED <<root, engine>>
                  /\ h \in EngineHops => x = engine
                  /\ h \in RootHops => t = root
  <2>1. CASE h \in EngineHops
    BY <1>1, <2>1, SyncReaches
  <2>2. CASE h \notin EngineHops
    BY <1>1, <2>2, SyncReaches
  <2> QED
    BY <2>1, <2>2
<1>5. /\ UndoFacts(loc[p], root, t, engine, x)
      /\ JournalFacts(loc[p], root, t, engine, x, allowed, order)
      /\ PrepFacts(loc[p], root, engine, x)
  BY <1>4, DiskShape DEF Settling
<1>6. UndoFacts(n, root, t, engine, x)
  <2>1. n.pc = "inputs" => RestoredTo(root, engine, n.k)
    <3> SUFFICES ASSUME n.pc = "inputs" PROVE RestoredTo(root, engine, n.k)
      OBVIOUS
    <3>1. n.k = 0
      BY <1>1, <1>3, <1>5 DEF Moved, PrepFacts, Sane
    <3>2. engine.ijournal # None => \A i \in engine.ijournal.changed : ~(i <= 0)
      BY Types, GenerationAssumption DEF EngineRec, IJournalRec, Inputs
    <3> QED
      BY <3>1, <3>2 DEF RestoredTo
  <2>2. n.pc \in RestoringInputs \cup {"clean"} => Ended(root, t, engine, x)
    BY <1>1, <1>3, <1>4, <1>5 DEF Moved, UndoFacts, RestoringInputs, Ended
  <2>3. n.pc = "clean" => engine.ijournal = None
    <3>0. h[2] = "clean" => h[1] = "inputs_clean_sync"
      BY <1>1
    <3>1. n.pc = "clean" => loc[p].pc = "inputs_clean_sync"
      BY <1>1, <1>3, <3>0 DEF Moved
    <3> QED
      BY <3>1, HolderFacts DEF ImportFacts, InputsSwept
  <2> QED
    BY <1>1, <1>3, <1>4, <1>5, <2>1, <2>2, <2>3 DEF Moved, UndoFacts, RestoringInputs
<1>7. JournalFacts(n, root, t, engine, x, allowed, order)
  BY <1>1, <1>3, <1>4, <1>5 DEF Moved, JournalFacts, Before, After, NoJournal
<1>8. PrepFacts(n, root, engine, x)
  BY <1>1, <1>3, <1>4, <1>5 DEF Moved, PrepFacts, Sane, Rewrites
<1>9. Settling(n, root, t, engine, x, allowed, order)
  BY <1>6, <1>7, <1>8 DEF Settling
<1> QED
  BY <1>1, <1>2, <1>3, <1>4, <1>9, SyncMove DEF Moved

\* Of generations/.
LEMMA GensSyncSettles ==
    ASSUME IInv, AInv, NEW p \in Procs, GensSync(p)
    PROVE  AInv'
<1> USE DEF Locked, Ready, Recovering, Publishing, Preparing
<1>1. PICK l \in {"import_recheck", "decide"} : Goto(p, l)
  BY DEF GensSync
<1>2. PICK n \in LocRec : Moved(n, p, l)
  BY <1>1, GotoLoc DEF IInv, Pcs, Building
<1>3. /\ loc[p].pc = "gens_sync" /\ UNCHANGED <<root, engine, allowed, order>>
      /\ SyncGenerations
  BY DEF GensSync, At, Quiet, history, env, files
<1>4. PICK t, x : Reaches(t, x) /\ droot' = t /\ dengine' = x
  BY <1>3, SyncReaches
<1>5. /\ UndoFacts(loc[p], root, t, engine, x)
      /\ JournalFacts(loc[p], root, t, engine, x, allowed, order)
      /\ PrepFacts(loc[p], root, engine, x)
  BY <1>4, DiskShape DEF Settling
<1>6. UndoFacts(n, root, t, engine, x)
  BY <1>1, <1>2 DEF Moved, UndoFacts, RestoringInputs
<1>7. JournalFacts(n, root, t, engine, x, allowed, order)
  <2>1. x.ijournal = None
    BY <1>3, <1>4, HolderFacts DEF ImportFacts, InputsSwept, Reaches, EngineBlend
  <2> QED
    BY <1>1, <1>2, <1>3, <1>5, <2>1 DEF Moved, JournalFacts, Before, After
<1>8. PrepFacts(n, root, engine, x)
  BY <1>1, <1>2, <1>3, <1>5 DEF Moved, PrepFacts, Sane, Rewrites
<1>9. Settling(n, root, t, engine, x, allowed, order)
  BY <1>6, <1>7, <1>8 DEF Settling
<1> QED
  BY <1>2, <1>3, <1>4, <1>9, SyncMove DEF Moved

\* Of the engine directory, when a recovery has ended.
LEMMA Clean4Settles ==
    ASSUME IInv, AInv, NEW p \in Procs, Clean4(p)
    PROVE  AInv'
<1> USE DEF Locked, Ready, Recovering, Publishing, Preparing
<1> DEFINE a == {Settled(root, engine), Settled(droot, engine)}
<1>1. /\ loc[p].pc = "clean_end" /\ SyncEngine /\ Goto(p, loc[p].ret)
      /\ allowed' = a /\ UNCHANGED order
  BY DEF Clean4, At, env
<1>2. loc[p].ret \in Rets /\ loc[p].ret \in Pcs
  BY <1>1, HolderFacts DEF Rets, Pcs, Building
<1>3. PICK n \in LocRec : Moved(n, p, loc[p].ret)
  BY <1>1, <1>2, GotoLoc DEF IInv
<1>4. PICK t : /\ Reaches(t, engine) /\ droot' = t /\ dengine' = engine /\ UNCHANGED <<root, engine>>
               /\ t \in {root, droot}
  BY <1>1, SyncReaches DEF SyncEngine, SyncAll
<1>5. /\ NoJournal(engine, engine) /\ engine.committed = None /\ engine.backup = None
  BY <1>1, Have, HolderFacts DEF PubFacts, NoJournal, UndoFacts
<1>6. Shape(root, t, engine, engine, a, order)
  <2>1. Restored(droot, engine) = Restored(root, engine)
    <3>1. CASE droot.input = root.input
      BY <3>1 DEF Restored
    <3>2. CASE droot.input # root.input
      <4>1. engine.ijournal # None
            /\ \A i \in Inputs \ engine.ijournal.changed : droot.input[i] = root.input[i]
        BY <3>2, Have DEF Imports
      <4> QED
        BY <4>1 DEF Restored
    <3> QED
      BY <3>1, <3>2
  <2>2. \A x \in {root, droot} : Settled(x, engine) = ViewOf(engine.current, x.public, Restored(root, engine))
    BY <1>5, <2>1 DEF Settled, ViewOf, NoJournal
  <2>3. Unjournaled(root, t, engine, engine, a)
    BY <1>4, <2>2 DEF Unjournaled
  <2>4. Journaled(root, t, engine, engine, a) /\ Fenced(root, t, engine, engine, a)
    BY <1>5 DEF Journaled, Fenced, NoJournal
  <2>5. Imports(root, t, engine, engine) /\ Sure(root, t, engine, engine, order)
    BY <1>4, DiskShape DEF Shape
  <2> QED
    BY <2>3, <2>4, <2>5 DEF Shape
<1> HIDE DEF a
<1>7. UndoFacts(n, root, t, engine, engine)
  BY <1>2, <1>3 DEF Moved, UndoFacts, RestoringInputs, Rets
<1>8. JournalFacts(n, root, t, engine, engine, a, order)
  BY <1>2, <1>3, <1>5 DEF Moved, JournalFacts, Before, After, Rets
<1>9. PrepFacts(n, root, engine, engine)
  BY <1>1, <1>2, <1>3, Have DEF Moved, PrepFacts, Sane, Rewrites, Rets
<1>10. Settling(n, root, t, engine, engine, a, order)
  BY <1>7, <1>8, <1>9 DEF Settling
<1> QED
  BY <1>1, <1>3, <1>4, <1>6, <1>10, OwnerStep DEF Moved

\* An invocation that is not running has nothing to show.
LEMMA IdleSane == Idle \in LocRec /\ Idle.pc \notin Locked /\ Sane(Idle)
<1>1. Idle \in LocRec /\ Idle.pc = "idle"
  BY IdleRec
<1>2. Idle.k = 0 /\ Idle.goal = Idle.snap
  BY DEF Idle
<1>3. Sane(Idle)
  BY <1>1, <1>2 DEF Sane, Rewrites
<1> QED
  BY <1>1, <1>3 DEF Locked, Ready, Recovering, Publishing, Preparing

\* Of the marker: what was committed is reported and stays.
LEMMA PubCommitSyncSettles ==
    ASSUME IInv, AInv, NEW p \in Procs, PubCommitSync(p)
    PROVE  AInv'
<1> USE DEF Locked, Ready, Recovering, Publishing, Preparing
<1> DEFINE a == {View(root, engine)}
<1>1. /\ loc[p].pc = "pub_commit_sync" /\ SyncEngine /\ loc' = [loc EXCEPT ![p] = Idle]
      /\ allowed' = a /\ UNCHANGED order
  BY DEF PubCommitSync, At, env, End
<1>2. PICK t : /\ Reaches(t, engine) /\ droot' = t /\ dengine' = engine /\ UNCHANGED <<root, engine>>
  BY <1>1, SyncReaches
<1>3. JournalFacts(loc[p], root, t, engine, engine, allowed, order)
  BY <1>2, DiskShape DEF Settling
<1>4. /\ engine.journal # None /\ engine.committed = engine.journal.next
      /\ engine.current = engine.journal.next /\ root.public = engine.journal.next
      /\ t.public = root.public /\ t.input = root.input /\ engine.committed # None
  <2>1. /\ engine.journal # None /\ engine.committed = engine.journal.next
        /\ engine.current = engine.journal.next /\ root.public = engine.journal.next
        /\ t.public = root.public /\ t.input = root.input
    BY <1>1, <1>3 DEF JournalFacts, Revocable, After
  <2>2. engine.journal.next \in Ids
    BY <2>1, Types DEF EngineRec, JournalRec
  <2> QED
    BY <2>1, <2>2, Nones
<1>5. Shape(root, t, engine, engine, a, order)
  <2>1. Imports(root, t, engine, engine) /\ Sure(root, t, engine, engine, order)
    BY <1>2, DiskShape DEF Shape
  <2>2. Unjournaled(root, t, engine, engine, a) /\ Fenced(root, t, engine, engine, a)
    BY <1>4 DEF Unjournaled, Fenced
  <2>3. Journaled(root, t, engine, engine, a)
    BY <1>4 DEF Journaled, View, ViewOf
  <2> QED
    BY <2>1, <2>2, <2>3 DEF Shape
<1> HIDE DEF a
<1>6. Settling(Idle, root, t, engine, engine, a, order)
  BY IdleSane, Away
<1> QED
  BY <1>1, <1>2, <1>5, <1>6, IdleSane, OwnerStep

-----------------------------------------------------------------------------
(* Steps that change ROOT *)

\* recover puts the old export back, or gives up.
LEMMA UndoPublicSettles ==
    ASSUME IInv, AInv, NEW p \in Procs, UndoPublic(p)
    PROVE  AInv'
<1> USE DEF Locked, Ready, Recovering, Publishing, Preparing
<1>1. /\ loc[p].pc = "undo_public" /\ engine.journal # None /\ engine.committed = None
      /\ UNCHANGED <<engine, droot, dengine, allowed, order>>
  BY Have DEF UndoPublic, At, Quiet, history, env, disk, UndoFacts
<1>2. engine.backup \in Exports
  BY <1>1, HolderFacts, Types DEF TornInv, Whole, NoJournal, EngineRec
<1>3. PICK l \in {"undo_select", "publish_failed", "end"}, y \in RootRec :
           /\ Goto(p, l) /\ root' = y /\ y.input = root.input
           /\ IF l = "undo_select" THEN y.public = OldPublic(engine) ELSE y = root
  <2>1. CASE engine.journal.present /\ engine.backup = None
    BY <2>1, Types DEF UndoPublic, Unrecovered
  <2>2. CASE ~(engine.journal.present /\ engine.backup = None)
    <3> DEFINE y == [root EXCEPT !.public = OldPublic(engine)]
    <3>1. OldPublic(engine) \in Exports
      BY <1>2 DEF Exports, OldPublic
    <3>2. root' = y /\ Goto(p, "undo_select")
      BY <2>2 DEF UndoPublic, OldPublic
    <3>3. y \in RootRec /\ y.input = root.input /\ y.public = OldPublic(engine)
      BY <3>1, Types DEF RootRec
    <3> HIDE DEF y
    <3> QED
      BY <3>2, <3>3
  <2> QED
    BY <2>1, <2>2
<1>4. PICK n \in LocRec : Moved(n, p, l)
  BY <1>3, GotoLoc DEF IInv, Pcs
<1>5. Shape(y, droot, engine, dengine, allowed, order)
  <2>1. CASE l = "undo_select"
    BY <1>1, <1>3, <2>1, Types, PublicShape DEF AInv
  <2>2. CASE l # "undo_select"
    BY <1>3, <2>2 DEF AInv
  <2> QED
    BY <2>1, <2>2
<1>6. UndoFacts(n, y, droot, engine, dengine)
  BY <1>1, <1>3, <1>4, Have DEF Moved, UndoFacts, RestoringInputs
<1>7. JournalFacts(n, y, droot, engine, dengine, allowed, order)
  BY <1>1, <1>3, <1>4 DEF Moved, JournalFacts, Before, After
<1>8. PrepFacts(n, y, engine, dengine)
  BY <1>1, <1>3, <1>4, Have DEF Moved, PrepFacts, Sane, Rewrites
<1>9. Settling(n, y, droot, engine, dengine, allowed, order)
  BY <1>6, <1>7, <1>8 DEF Settling
<1> QED
  BY <1>1, <1>3, <1>4, <1>5, <1>9, OwnerStep DEF Moved

\* publish renames the new export into place.
LEMMA PubRenameSettles ==
    ASSUME IInv, AInv, NEW p \in Procs, PubRename(p)
    PROVE  AInv'
<1> USE DEF Locked, Ready, Recovering, Publishing, Preparing
<1> DEFINE y == [root EXCEPT !.public = loc[p].goal]
           e == [engine EXCEPT !.temps = @ \ {"export.next"}]
<1>1. /\ loc[p].pc = "pub_rename" /\ root' = y /\ engine' = e /\ Goto(p, "pub_select")
      /\ UNCHANGED <<droot, dengine, allowed, order>>
  BY DEF PubRename, At, InBoth, Quiet, history, env, disk
<1>2. y \in RootRec /\ y.input = root.input /\ y.public = loc[p].goal
  BY Types DEF RootRec, LocRec, Exports
<1>3. e \in EngineRec /\ But(e, engine, {})
  BY Types DEF EngineRec, Temps, But
<1> HIDE DEF y, e
<1>4. PICK n \in LocRec : Moved(n, p, "pub_select")
  BY <1>1, GotoLoc DEF IInv, Pcs
<1>5. /\ e.journal # None /\ e.committed = None /\ dengine.journal = e.journal
      /\ dengine.committed = None /\ e.journal.next = loc[p].goal
  BY <1>1, <1>3, Have DEF JournalFacts, After, But
<1>6. Shape(y, droot, e, dengine, allowed, order)
  <2>1. Shape(root, droot, e, dengine, allowed, order)
    BY <1>3, Types, LooseShape DEF AInv, But
  <2> QED
    BY <1>2, <1>3, <1>5, <2>1, Types, PublicShape
<1>7. UndoFacts(n, y, droot, e, dengine)
  BY <1>4 DEF Moved, UndoFacts, RestoringInputs
<1>8. JournalFacts(n, y, droot, e, dengine, allowed, order)
  BY <1>1, <1>2, <1>3, <1>4, <1>5, Have DEF Moved, JournalFacts, Before, After, But
<1>9. PrepFacts(n, y, e, dengine)
  BY <1>1, <1>4, Have DEF Moved, PrepFacts, Sane, Rewrites
<1>10. Settling(n, y, droot, e, dengine, allowed, order)
  BY <1>7, <1>8, <1>9 DEF Settling
<1> QED
  BY <1>1, <1>2, <1>4, <1>6, <1>10, OwnerStep DEF Moved

\* The legacy exporter writes its own export.
LEMMA LegacySettles ==
    ASSUME IInv, AInv, NEW p \in Procs, LegacyExport(p)
    PROVE  AInv'
<1> USE DEF Locked, Ready, Recovering, Publishing, Preparing
<1>1. /\ loc[p].pc = "legacy" /\ Goto(p, "end") /\ root' = [root EXCEPT !.public = Legacy]
      /\ UNCHANGED <<engine, droot, dengine, order>> /\ NoJournal(engine, dengine)
  BY Have DEF LegacyExport, At, env, disk, JournalFacts
<1>2. PICK y \in RootRec : root' = y /\ y.input = root.input
  <2> DEFINE y == [root EXCEPT !.public = Legacy]
  <2>1. y \in RootRec /\ y.input = root.input
    BY Types DEF RootRec, Exports
  <2> QED
    BY <1>1, <2>1
<1> DEFINE a == allowed \cup {ViewOf(engine.current, y.public, Restored(y, engine))}
<1>3. allowed' = a
  <2>1. allowed' = allowed \cup {Settled(y, engine)}
    BY <1>2 DEF LegacyExport
  <2> QED
    BY <1>1, <2>1 DEF Settled, NoJournal, ViewOf
<1>4. PICK n \in LocRec : Moved(n, p, "end")
  BY <1>1, GotoLoc DEF IInv, Pcs
<1>5. Shape(y, droot, engine, dengine, a, order)
  BY <1>1, <1>2, Types, LegacyShape DEF AInv
<1> HIDE DEF a
<1>6. Settling(n, y, droot, engine, dengine, a, order)
  <2>1. Sane(n)
    BY <1>1, <1>4, Have DEF Moved, PrepFacts, Sane, Rewrites
  <2> QED
    BY <1>4, <2>1, Away DEF Moved
<1>7. loc' = [loc EXCEPT ![p] = n] /\ UNCHANGED <<engine, droot, dengine, order>> /\ loc[p].pc \in Locked
  BY <1>1, <1>4 DEF Moved
<1> QED
  BY <1>2, <1>3, <1>5, <1>6, <1>7, OwnerStep

\* prepare_inputs renames a new content over an input.
LEMMA PrepInputSettles ==
    ASSUME IInv, AInv, NEW p \in Procs, PrepInput(p)
    PROVE  AInv'
<1> USE DEF Locked, Ready, Recovering, Publishing, Preparing
<1> DEFINE i == loc[p].k + 1
           n == [loc[p] EXCEPT !.k = i]
           in == [root.input EXCEPT ![i] = loc[p].goal[i]]
<1>1. /\ loc[p].pc = "prep_input" /\ i \in Inputs /\ loc' = [loc EXCEPT ![p] = n]
      /\ UNCHANGED <<engine, droot, dengine, allowed, order>>
      /\ root' = IF i \notin Changed(p) THEN root ELSE [root EXCEPT !.input = in]
  BY DEF PrepInput, At, env, disk
<1>2. /\ n \in LocRec /\ n.pc = "prep_input" /\ n.old = loc[p].old
      /\ n.snap = loc[p].snap /\ n.goal = loc[p].goal
  BY <1>1, Types, GenerationAssumption DEF LocRec, Inputs
<1>3. in \in Ids /\ \A j \in Inputs \ {i} : in[j] = root.input[j]
  BY <1>1, Types DEF RootRec, LocRec, Ids
<1> HIDE DEF in
<1>4. PICK y \in RootRec : /\ root' = y /\ y.public = root.public
                           /\ \A j \in Inputs \ Changed(p) : y.input[j] = root.input[j]
  <2>1. CASE i \notin Changed(p)
    BY <1>1, <2>1, Types
  <2>2. CASE i \in Changed(p)
    <3> DEFINE y == [root EXCEPT !.input = in]
    <3>1. y \in RootRec /\ y.public = root.public /\ y.input = in
      BY <1>3, Types DEF RootRec
    <3>2. root' = y
      BY <1>1, <2>2
    <3> HIDE DEF y
    <3> QED
      BY <1>3, <2>2, <3>1, <3>2
  <2> QED
    BY <2>1, <2>2
<1>5. /\ loc[p].pc = "prep_input" /\ loc' = [loc EXCEPT ![p] = n]
      /\ UNCHANGED <<engine, droot, dengine, allowed, order>>
  BY <1>1
<1> HIDE DEF i, n
<1>6. /\ engine.ijournal # None /\ engine.ijournal.changed = Changed(p)
      /\ dengine.ijournal = engine.ijournal /\ NoJournal(engine, dengine)
  BY <1>5, Have DEF PrepFacts, JournalFacts, Before, Rewrites, Changed
<1>7. Shape(y, droot, engine, dengine, allowed, order)
  BY <1>4, <1>6, Types, InputShape DEF AInv, NoJournal
<1>8. UndoFacts(n, y, droot, engine, dengine)
  BY <1>2 DEF UndoFacts, RestoringInputs
<1>9. JournalFacts(n, y, droot, engine, dengine, allowed, order)
  BY <1>2, <1>4, <1>5, <1>6, Have DEF JournalFacts, Before, After
<1>10. PrepFacts(n, y, engine, dengine)
  BY <1>2, <1>5, Have DEF PrepFacts, Sane, Rewrites
<1>11. Settling(n, y, droot, engine, dengine, allowed, order)
  BY <1>8, <1>9, <1>10 DEF Settling
<1> QED
  BY <1>2, <1>4, <1>5, <1>7, <1>11, OwnerStep

\* recover_inputs puts an input back, or gives up.
LEMMA RestoreInputSettles ==
    ASSUME IInv, AInv, NEW p \in Procs, RestoreInput(p)
    PROVE  AInv'
<1> USE DEF Locked, Ready, Recovering, Publishing, Preparing
<1> loc[p] \in LocRec /\ loc \in [Procs -> LocRec]
  BY Types
<1> DEFINE i == loc[p].k + 1
           present == i \in engine.ijournal.present
           changed == i \in engine.ijournal.changed
<1>1. /\ loc[p].pc = "inputs" /\ engine.ijournal # None /\ ~Committed(engine) /\ i \in Inputs
      /\ UNCHANGED <<engine, droot, dengine, allowed, order>>
  BY DEF RestoreInput, At, env, disk
<1>2. \A j \in Inputs : engine.ibackup[j] \in Contents
  BY <1>1, HolderFacts DEF TornInv, IWhole, NoIJournal, EngineRec
<1>3. /\ engine.journal # None => engine.committed = None /\ dengine.committed = None
      /\ loc[p].ret \in {"publish_failed", "end"} => engine.committed = None
      /\ Ended(root, droot, engine, dengine) /\ RestoredTo(root, engine, loc[p].k)
  BY <1>1, Have DEF UndoFacts, Ended, RestoringInputs, Committed
<1>4. CASE changed /\ present /\ engine.ibackup[i] = None
  <2> DEFINE n == [loc[p] EXCEPT !.pc = Unrecovered(p), !.k = 0]
  <2>1. Unrecovered(p) \in {"publish_failed", "end"} /\ Unrecovered(p) \in Pcs /\ 0 \in 0..NInputs
    BY GenerationAssumption DEF Unrecovered, Pcs
  <2>2. Unrecovered(p) = "publish_failed" => loc[p].ret = "publish_failed"
    BY DEF Unrecovered
  <2>3. n \in LocRec /\ n.pc = Unrecovered(p) /\ n.k = 0 /\ n.snap = loc[p].snap /\ n.goal = loc[p].goal
    BY <2>1 DEF LocRec
  <2>4. loc' = [loc EXCEPT ![p] = n] /\ UNCHANGED root
    BY <1>4 DEF RestoreInput
  <2> HIDE DEF n
  <2>5. UndoFacts(n, root, droot, engine, dengine)
    BY <2>1, <2>3 DEF UndoFacts, RestoringInputs
  <2>6. JournalFacts(n, root, droot, engine, dengine, allowed, order)
    BY <1>3, <2>1, <2>2, <2>3 DEF JournalFacts, Before, After
  <2>7. PrepFacts(n, root, engine, dengine)
    BY <2>1, <2>3, Have DEF PrepFacts, Sane, Rewrites
  <2>8. Settling(n, root, droot, engine, dengine, allowed, order)
    BY <2>5, <2>6, <2>7 DEF Settling
  <2>9. UNCHANGED <<engine, droot, dengine, allowed, order>>
    BY <1>1
  <2> HIDE DEF i, present, changed
  <2> QED
    BY <2>3, <2>4, <2>8, <2>9, LocalMove
<1>5. CASE ~(changed /\ present /\ engine.ibackup[i] = None)
  <2> DEFINE n == [loc[p] EXCEPT !.k = i]
             v == IF present THEN engine.ibackup[i] ELSE None
             in == [root.input EXCEPT ![i] = v]
  <2>1. /\ loc' = [loc EXCEPT ![p] = n]
        /\ root' = IF ~changed THEN root ELSE [root EXCEPT !.input = in]
    BY <1>5 DEF RestoreInput
  <2>2. /\ n \in LocRec /\ n.pc = "inputs" /\ n.ret = loc[p].ret /\ n.k = i
        /\ n.snap = loc[p].snap /\ n.goal = loc[p].goal
    BY <1>1, GenerationAssumption DEF LocRec, Inputs
  <2>3. in \in Ids /\ in[i] = v /\ \A j \in Inputs \ {i} : in[j] = root.input[j]
    BY <1>1, <1>2, Types DEF RootRec, Ids, Contents
  <2>4. present /\ changed => v # None /\ v = engine.ibackup[i]
    BY <1>5
  <2>5. ~present => v = None
    OBVIOUS
  <2>6. i = loc[p].k + 1 /\ loc[p].k \in Nat /\ i \in Nat
    BY <1>1 DEF LocRec, Inputs
  <2> HIDE DEF in, v, n
  <2>7. PICK y \in RootRec : /\ root' = y /\ y.public = root.public
                             /\ changed => y.input[i] = v
                             /\ ~changed => y = root
                             /\ \A j \in Inputs \ {i} : y.input[j] = root.input[j]
    <3>1. CASE ~changed
      BY <2>1, <3>1, Types
    <3>2. CASE changed
      <4> DEFINE y == [root EXCEPT !.input = in]
      <4>1. y \in RootRec /\ y.public = root.public /\ y.input = in
        BY <2>3, Types DEF RootRec
      <4>2. root' = y
        BY <2>1, <3>2
      <4> HIDE DEF y
      <4> QED
        BY <2>3, <3>2, <4>1, <4>2
    <3> QED
      BY <3>1, <3>2
  <2>8. UNCHANGED <<engine, droot, dengine, allowed, order>> /\ loc[p].pc \in Locked /\ i \in Inputs
    BY <1>1
  <2>9. dengine.ijournal = None => y.input = root.input
    <3> SUFFICES ASSUME dengine.ijournal = None PROVE y.input = root.input
      OBVIOUS
    <3>1. changed => root.input[i] = IF present THEN engine.ibackup[i] ELSE None
      BY <1>1, Have DEF Imports
    <3>2. \A j \in Inputs : y.input[j] = root.input[j]
      BY <2>4, <2>5, <2>7, <3>1
    <3> QED
      BY <3>2, SameInputs, Types
  <2>10. Shape(y, droot, engine, dengine, allowed, order)
    <3>1. \A j \in Inputs \ engine.ijournal.changed : y.input[j] = root.input[j]
      BY <2>7
    <3> QED
      BY <1>1, <1>3, <2>7, <2>9, <3>1, Types, InputShape DEF AInv
  <2>11. RestoredTo(y, engine, i)
    <3>1. engine.ijournal.changed \subseteq Inputs
      BY <1>1, Types DEF EngineRec, IJournalRec
    <3> SUFFICES ASSUME NEW j \in engine.ijournal.changed, j <= i
                 PROVE  IF j \in engine.ijournal.present
                        THEN engine.ibackup[j] # None /\ y.input[j] = engine.ibackup[j]
                        ELSE y.input[j] = None
      BY DEF RestoredTo
    <3>2. CASE j = i
      BY <2>4, <2>5, <2>7, <3>2
    <3>3. CASE j # i
      <4>1. j <= loc[p].k
        BY <2>6, <3>1, <3>3 DEF Inputs
      <4> QED
        BY <1>1, <1>3, <2>7, <3>1, <3>3, <4>1 DEF RestoredTo
    <3> QED
      BY <3>2, <3>3
  <2>12. UndoFacts(n, y, droot, engine, dengine)
    <3>1. Ended(y, droot, engine, dengine)
      BY <1>3, <2>7 DEF Ended
    <3> QED
      BY <1>3, <2>2, <2>11, <3>1 DEF UndoFacts, RestoringInputs
  <2>13. JournalFacts(n, y, droot, engine, dengine, allowed, order)
    BY <2>2 DEF JournalFacts, Before, After
  <2>14. PrepFacts(n, y, engine, dengine)
    BY <2>2, Have DEF PrepFacts, Sane, Rewrites
  <2>15. Settling(n, y, droot, engine, dengine, allowed, order)
    BY <2>12, <2>13, <2>14 DEF Settling
  <2>16. loc' = [loc EXCEPT ![p] = n]
    BY <2>1
  <2> HIDE DEF i, present, changed
  <2> QED
    BY <2>2, <2>7, <2>8, <2>10, <2>15, <2>16, OwnerStep
<1> QED
  BY <1>4, <1>5

-----------------------------------------------------------------------------
(* Steps that change nothing but the locals *)

\* An invocation comes to a step outside the lock.
LEMMA AwayMove ==
    ASSUME IInv, AInv, NEW p \in Procs, NEW n \in LocRec, loc' = [loc EXCEPT ![p] = n],
           n.pc \notin Locked, Sane(n), UNCHANGED <<root, engine, droot, dengine, allowed, order>>
    PROVE  AInv'
BY Away, LocalMove

\* The same for a goto, to where a compiler works without the lock or returns.
LEMMA AwayGoto ==
    ASSUME IInv, AInv, NEW p \in Procs, NEW l \in {"end", "snapshot", "warm", "build"}, Goto(p, l),
           loc[p].pc \notin {"inputs", "prep_backup", "prep_input"},
           UNCHANGED <<root, engine, droot, dengine, allowed, order>>
    PROVE  AInv'
<1>1. PICK n \in LocRec : Moved(n, p, l)
  BY GotoLoc DEF IInv, Pcs, Building
<1>2. Sane(n)
  BY <1>1, Have DEF Moved, PrepFacts, Sane, Rewrites
<1>3. n.pc \notin Locked
  BY <1>1 DEF Moved, Locked, Ready, Recovering, Publishing, Preparing
<1> QED
  BY <1>1, <1>2, <1>3, AwayMove DEF Moved

\* The same for a retry.
LEMMA AwayRetry ==
    ASSUME IInv, AInv, NEW p \in Procs, Retry(p),
           loc[p].pc \notin {"inputs", "prep_backup", "prep_input"},
           UNCHANGED <<root, engine, droot, dengine, allowed, order>>
    PROVE  AInv'
<1>1. PICK n \in LocRec : /\ loc' = [loc EXCEPT ![p] = n] /\ n.pc \in {"end", "snapshot"}
                          /\ n.k = loc[p].k /\ n.snap = NoItems /\ n.goal = NoItems
  BY RetryLoc
<1>2. Sane(n)
  BY <1>1, Have DEF PrepFacts, Sane, Rewrites
<1>3. n.pc \notin Locked
  BY <1>1 DEF Locked, Ready, Recovering, Publishing, Preparing
<1> QED
  BY <1>1, <1>2, <1>3, AwayMove

\* The same for an invocation that ends.
LEMMA AwayEnd ==
    ASSUME IInv, AInv, NEW p \in Procs, End(p),
           UNCHANGED <<root, engine, droot, dengine, allowed, order>>
    PROVE  AInv'
BY IdleSane, AwayMove DEF End

\* The owner goes on at l.
LEMMA OwnerGoto ==
    ASSUME IInv, AInv, NEW p \in Procs, NEW l \in Pcs, Goto(p, l),
           l \notin {"lock", "inputs"} \cup Preparing,
           loc[p].pc \notin {"inputs", "prep_backup", "prep_input", "idle"},
           UNCHANGED <<root, engine, droot, dengine, allowed, order>>,
           \A n \in LocRec :
              Moved(n, p, l) => /\ UndoFacts(n, root, droot, engine, dengine)
                                /\ JournalFacts(n, root, droot, engine, dengine, allowed, order)
    PROVE  AInv'
<1>1. PICK n \in LocRec : Moved(n, p, l)
  BY GotoLoc DEF IInv
<1>2. Sane(n)
  BY <1>1, Have DEF Moved, PrepFacts, Sane, Rewrites, Preparing
<1>3. Settling(n, root, droot, engine, dengine, allowed, order)
  BY <1>1, <1>2 DEF Settling, PrepFacts, Moved, Preparing
<1> QED
  BY <1>1, <1>3, LocalMove DEF Moved

\* recover decides what to do, recover_inputs has done it.
LEMMA RecoverDecides ==
    ASSUME IInv, AInv, NEW p \in Procs, Recover(p) \/ InputsRestored(p)
    PROVE  AInv'
<1> USE DEF Locked, Ready, Recovering, Publishing, Preparing
<1> loc[p] \in LocRec /\ loc \in [Procs -> LocRec]
  BY Types
<1>1. CASE Recover(p)
  <2>1. PICK l \in {"inputs", "undo_public", "publish_failed", "end"} :
             /\ loc[p].pc = "recover" /\ Goto(p, l)
             /\ l = "undo_public" => engine.journal # None /\ engine.committed = None
             /\ l = "publish_failed" => loc[p].ret = "publish_failed"
             /\ l = "inputs" => engine.journal = None
                                \/ (engine.journal # None /\ engine.committed # None /\ Recoverable(root, engine))
             /\ UNCHANGED <<root, engine, droot, dengine, allowed, order>>
    BY <1>1 DEF Recover, Unrecovered, At, Quiet, history, env, files, disk
  <2>2. PICK n \in LocRec : Moved(n, p, l)
    BY <2>1, GotoLoc DEF IInv, Pcs
  <2>3. n.k = 0
    BY <2>1, <2>2, Have DEF Moved, PrepFacts, Sane
  <2>4. l = "inputs" => Ended(root, droot, engine, dengine)
    BY <2>1, Have DEF Ended, Recoverable, CommittedJournal, Journaled
  <2>5. l = "inputs" => RestoredTo(root, engine, n.k)
    <3>1. engine.ijournal # None => \A i \in engine.ijournal.changed : ~(i <= 0)
      BY Types, GenerationAssumption DEF EngineRec, IJournalRec, Inputs
    <3> QED
      BY <2>3, <3>1 DEF RestoredTo
  <2>6. UndoFacts(n, root, droot, engine, dengine)
    BY <2>1, <2>2, <2>4, <2>5, Have DEF Moved, UndoFacts, RestoringInputs
  <2>7. JournalFacts(n, root, droot, engine, dengine, allowed, order)
    BY <2>1, <2>2, Have DEF Moved, JournalFacts, UndoFacts, Before, After
  <2>8. PrepFacts(n, root, engine, dengine)
    BY <2>1, <2>2, <2>3, Have DEF Moved, PrepFacts, Sane, Rewrites
  <2>9. Settling(n, root, droot, engine, dengine, allowed, order)
    BY <2>6, <2>7, <2>8 DEF Settling
  <2> QED
    BY <2>1, <2>2, <2>9, LocalMove DEF Moved
<1>2. CASE InputsRestored(p)
  <2> DEFINE l == IF engine.ijournal = None THEN "inputs_clean" ELSE "inputs_root_sync"
             n == [loc[p] EXCEPT !.k = 0, !.pc = l]
  <2>1. /\ loc[p].pc = "inputs" /\ loc' = [loc EXCEPT ![p] = n]
        /\ UNCHANGED <<root, engine, droot, dengine, allowed, order>>
        /\ engine.ijournal = None \/ Committed(engine) \/ loc[p].k = NInputs
    BY <1>2 DEF InputsRestored, At, Quiet, history, env, files, disk
  <2> l \in Pcs /\ 0 \in 0..NInputs
    BY GenerationAssumption DEF Pcs
  <2>2. /\ n \in LocRec /\ n.pc = l /\ n.ret = loc[p].ret /\ n.k = 0
        /\ n.snap = loc[p].snap /\ n.goal = loc[p].goal
    BY DEF LocRec
  <2> HIDE DEF n
  <2>3. UndoFacts(n, root, droot, engine, dengine)
    <3>1. l = "inputs_root_sync" => RestoredTo(root, engine, NInputs)
      BY <2>1, Have DEF UndoFacts, RestoredTo
    <3> QED
      BY <2>1, <2>2, <3>1, Have DEF UndoFacts, RestoringInputs
  <2>4. JournalFacts(n, root, droot, engine, dengine, allowed, order)
    BY <2>2 DEF JournalFacts, Before, After
  <2>5. PrepFacts(n, root, engine, dengine)
    BY <2>2, Have DEF PrepFacts, Sane, Rewrites
  <2>6. Settling(n, root, droot, engine, dengine, allowed, order)
    BY <2>3, <2>4, <2>5 DEF Settling
  <2> QED
    BY <2>1, <2>2, <2>6, LocalMove
<1> QED
  BY <1>1, <1>2

\* publish, and the import, decide what to do.
LEMMA PublishDecides ==
    ASSUME IInv, AInv, NEW p \in Procs,
           \/ PublishFailed(p) \/ Decide(p) \/ Install(p) \/ ImportCheck(p)
    PROVE  AInv'
<1> USE DEF Locked, Ready, Recovering, Publishing, Preparing
<1>1. UNCHANGED <<root, engine, droot, dengine, allowed, order>>
  BY DEF PublishFailed, Decide, Install, ImportCheck, Quiet, history, env, files, disk
<1>2. PICK l \in {"undo", "end", "pub_backup", "gens_sync", "install"} :
           /\ Goto(p, l)
           /\ l = "undo" => loc[p].pc = "publish_failed"
           /\ l = "pub_backup" => loc[p].pc = "decide"
           /\ l = "gens_sync" => loc[p].pc = "install"
           /\ l = "install" => loc[p].pc = "import_check"
           /\ loc[p].pc \in {"publish_failed", "decide", "install", "import_check"}
  BY DEF PublishFailed, Decide, Install, ImportCheck, At
<1>3. l \in Pcs
  BY DEF Pcs, Building
<1>4. ASSUME NEW n \in LocRec, Moved(n, p, l)
      PROVE  /\ UndoFacts(n, root, droot, engine, dengine)
             /\ JournalFacts(n, root, droot, engine, dengine, allowed, order)
  <2>1. UndoFacts(n, root, droot, engine, dengine)
    BY <1>2, <1>4 DEF Moved, UndoFacts, RestoringInputs
  <2>2. JournalFacts(n, root, droot, engine, dengine, allowed, order)
    BY <1>2, <1>4, Have DEF Moved, JournalFacts, Before, After
  <2> QED
    BY <2>1, <2>2
<1> QED
  BY <1>1, <1>2, <1>3, <1>4, OwnerGoto

\* The import reads its inputs, and looks at them again before it prepares anything.
LEMMA ImportDecides ==
    ASSUME IInv, AInv, NEW p \in Procs, ImportRead(p) \/ ImportRecheck(p)
    PROVE  AInv'
<1> USE DEF Locked, Ready, Recovering, Publishing, Preparing
<1> loc[p] \in LocRec /\ loc \in [Procs -> LocRec]
  BY Types
<1>1. UNCHANGED <<root, engine, droot, dengine, allowed, order>>
  BY DEF ImportRead, ImportRecheck, Quiet, history, env, files, disk
<1>2. CASE ImportRead(p)
  <2>1. PICK changed \in SUBSET (Inputs \ Editable) :
             loc' = [loc EXCEPT ![p].snap = root.input, ![p].old = engine.current,
                       ![p].goal = [i \in Inputs |-> IF i \in changed THEN Imported ELSE root.input[i]],
                       ![p].pc = "import_check"]
    BY <1>2 DEF ImportRead
  <2> DEFINE g == [i \in Inputs |-> IF i \in changed THEN Imported ELSE root.input[i]]
             n == [loc[p] EXCEPT !.snap = root.input, !.old = engine.current, !.goal = g,
                                 !.pc = "import_check"]
  <2>2. g \in Ids /\ root.input \in Ids /\ engine.current \in Ids \cup {None} /\ "import_check" \in Pcs
    BY Types, GenerationAssumption DEF RootRec, EngineRec, Ids, Pcs, Building
  <2>3. loc[p].pc = "import_read" /\ loc' = [loc EXCEPT ![p] = n]
    BY <1>2, <2>1 DEF ImportRead, At
  <2>4. \A i \in Inputs : g[i] # root.input[i] => i \notin Editable
    OBVIOUS
  <2> HIDE DEF g
  <2>5. /\ n \in LocRec /\ n.pc = "import_check" /\ n.ret = loc[p].ret /\ n.old = engine.current
        /\ n.snap = root.input /\ n.goal = g /\ n.k = loc[p].k
    BY <2>2 DEF LocRec
  <2> HIDE DEF n
  <2>6. UndoFacts(n, root, droot, engine, dengine)
    BY <2>5 DEF UndoFacts, RestoringInputs
  <2>7. JournalFacts(n, root, droot, engine, dengine, allowed, order)
    BY <2>3, <2>5, Have DEF JournalFacts, Before, After
  <2>8. PrepFacts(n, root, engine, dengine)
    BY <2>3, <2>4, <2>5, Have DEF PrepFacts, Sane, Rewrites
  <2>9. Settling(n, root, droot, engine, dengine, allowed, order)
    BY <2>6, <2>7, <2>8 DEF Settling
  <2> QED
    BY <1>1, <2>3, <2>5, <2>9, LocalMove
<1>3. CASE ImportRecheck(p)
  <2>1. PICK l \in {"decide", "prep_backup", "end"} :
             /\ loc[p].pc = "import_recheck" /\ Goto(p, l)
             /\ l = "prep_backup" => root.input = loc[p].snap
    BY <1>3 DEF ImportRecheck, At, UnchangedInputs
  <2>2. PICK n \in LocRec : Moved(n, p, l)
    BY <2>1, GotoLoc DEF IInv, Pcs, Building
  <2>3. dengine.ijournal = None /\ engine.ibackup = NoItems /\ dengine.ibackup = NoItems
    BY <2>1, HolderFacts DEF ImportFacts, InputsSwept
  <2>4. UndoFacts(n, root, droot, engine, dengine)
    BY <2>1, <2>2 DEF Moved, UndoFacts, RestoringInputs
  <2>5. JournalFacts(n, root, droot, engine, dengine, allowed, order)
    BY <2>1, <2>2, <2>3, Have DEF Moved, JournalFacts, Before, After
  <2>6. PrepFacts(n, root, engine, dengine)
    <3>1. Sane(n) /\ n.k = 0
      BY <2>1, <2>2, Have DEF Moved, PrepFacts, Sane, Rewrites
    <3>2. \A i \in Rewrites(n) : i > 0 /\ engine.ibackup[i] = None /\ dengine.ibackup[i] = None
      BY <2>3, GenerationAssumption DEF Rewrites, NoItems, Inputs
    <3> QED
      BY <2>1, <2>2, <3>1, <3>2 DEF Moved, PrepFacts
  <2>7. Settling(n, root, droot, engine, dengine, allowed, order)
    BY <2>4, <2>5, <2>6 DEF Settling
  <2> QED
    BY <1>1, <2>2, <2>7, LocalMove DEF Moved
<1> QED
  BY <1>2, <1>3

\* An invocation starts: it fsyncs the hierarchy, whatever another one is doing.
LEMMA StartSettles ==
    ASSUME IInv, AInv, NEW p \in Procs, NEW kind \in Kinds, Start(p, kind)
    PROVE  AInv'
<1> DEFINE r == CASE kind = "compile" -> "selected" [] kind = "import" -> "import_read"
                  [] kind = "legacy" -> "legacy"
           n == [Idle EXCEPT !.pc = "lock", !.kind = kind, !.ret = r]
<1>1. r \in {"selected", "import_read", "legacy"} /\ r \in Rets /\ "lock" \in Pcs
  BY GenerationAssumption DEF Rets, Pcs, Building
<1>2. /\ loc' = [loc EXCEPT ![p] = n] /\ SyncAll
      /\ UNCHANGED <<root, engine, allowed, order>>
  BY DEF Start, Quiet, history, files, env
<1> HIDE DEF r
<1>3. n \in LocRec /\ n.pc = "lock" /\ n.ret = r
  BY <1>1, IdleRec DEF LocRec
<1>4. n.k = 0 /\ n.snap = NoItems /\ n.goal = NoItems
  BY DEF Idle
<1> HIDE DEF n
<1>5. Sane(n) /\ n.pc \notin Locked
  BY <1>1, <1>3, <1>4 DEF Sane, Rewrites, Locked, Ready, Recovering, Publishing, Preparing
<1>6. Reaches(root, engine) /\ droot' = root /\ dengine' = engine
  BY <1>2, SyncReaches
<1>7. Settling(n, root, root, engine, engine, allowed, order)
  BY <1>5, Away
<1>8. \A q \in Procs : loc'[q] = IF q = p THEN n ELSE loc[q]
  BY <1>2, <1>3, Types
<1> QED
  BY <1>2, <1>6, <1>7, <1>8, DiskShape DEF AInv

\* The steps of a compiler that are outside the lock, take it or release it.
LEMMA CompilerSettles ==
    ASSUME IInv, AInv, NEW p \in Procs,
           \/ Lock(p) \/ EndAt(p) \/ Selected(p) \/ Snapshot(p) \/ Warm(p) \/ Build(p)
           \/ Recheck(p) \/ Kill(p)
    PROVE  AInv'
<1> USE DEF Locked, Ready, Recovering, Publishing, Preparing
<1> loc[p] \in LocRec /\ loc \in [Procs -> LocRec]
  BY Types
<1>1. UNCHANGED <<root, engine, droot, dengine, allowed, order>>
  BY DEF Lock, EndAt, Selected, Snapshot, Warm, Build, Recheck, Kill, files, disk, env, history
<1>2. ASSUME NEW n \in LocRec, loc' = [loc EXCEPT ![p] = n], n.pc = "recover",
             n.ret \notin {"publish_failed", "end"}, Sane(n)
      PROVE  AInv'
  <2>1. UndoFacts(n, root, droot, engine, dengine)
    BY <1>2 DEF UndoFacts, RestoringInputs
  <2>2. JournalFacts(n, root, droot, engine, dengine, allowed, order)
    BY <1>2 DEF JournalFacts, Before, After
  <2>3. PrepFacts(n, root, engine, dengine)
    BY <1>2 DEF PrepFacts
  <2>4. Settling(n, root, droot, engine, dengine, allowed, order)
    BY <2>1, <2>2, <2>3 DEF Settling
  <2> QED
    BY <1>1, <1>2, <2>4, LocalMove
<1>3. CASE Lock(p)
  <2>1. loc[p].pc = "lock"
    BY <1>3 DEF Lock, At
  <2>2. CASE Free
    <3>1. PICK n \in LocRec : Moved(n, p, "recover")
      BY <1>3, <2>2, GotoLoc DEF Lock, IInv, Pcs
    <3>2. Sane(n) /\ n.ret \notin {"publish_failed", "end"}
      BY <2>1, <3>1, Have DEF Moved, PrepFacts, Sane, Rewrites
    <3> QED
      BY <1>2, <3>1, <3>2 DEF Moved
  <2>3. CASE ~Free
    BY <1>1, <1>3, <2>1, <2>3, AwayGoto DEF Lock
  <2> QED
    BY <2>2, <2>3
<1>4. CASE EndAt(p) \/ Kill(p)
  BY <1>1, <1>4, AwayEnd DEF EndAt, Kill
<1>5. CASE Selected(p)
  <2> DEFINE l == IF engine.current \in gens \cup {None} THEN "snapshot" ELSE "end"
             n == [loc[p] EXCEPT !.prev = engine.current, !.attempt = 1, !.pc = l]
  <2>1. loc[p].pc = "selected" /\ loc' = [loc EXCEPT ![p] = n]
    BY <1>5 DEF Selected, At
  <2>2. l \in Pcs /\ l \in {"snapshot", "end"}
    BY DEF Pcs, Building
  <2> HIDE DEF l
  <2> engine.current \in Ids \cup {None} /\ 1 \in 0..3
    BY Types DEF EngineRec
  <2>3. n \in LocRec /\ n.pc = l /\ n.k = loc[p].k /\ n.snap = loc[p].snap /\ n.goal = loc[p].goal
    BY <2>2 DEF LocRec
  <2> HIDE DEF n
  <2>4. Sane(n) /\ n.pc \notin Locked
    BY <2>1, <2>2, <2>3, Have DEF PrepFacts, Sane, Rewrites
  <2> QED
    BY <1>1, <2>1, <2>3, <2>4, AwayMove
<1>6. CASE Snapshot(p)
  <2>1. loc[p].pc = "snapshot"
    BY <1>6 DEF Snapshot, At
  <2>2. CASE Retry(p)
    BY <1>1, <2>1, <2>2, AwayRetry
  <2>3. CASE Goto(p, "end")
    BY <1>1, <2>1, <2>3, AwayGoto
  <2>4. CASE loc' = [loc EXCEPT ![p].snap = root.input, ![p].goal = root.input,
                                ![p].pc = IF loc[p].prev = root.input THEN "warm" ELSE "build"]
    <3> DEFINE l == IF loc[p].prev = root.input THEN "warm" ELSE "build"
               n == [loc[p] EXCEPT !.snap = root.input, !.goal = root.input, !.pc = l]
    <3>1. loc' = [loc EXCEPT ![p] = n]
      BY <2>4
    <3>2. l \in Pcs /\ l \in {"warm", "build"}
      BY DEF Pcs, Building
    <3> HIDE DEF l
    <3>3. n \in LocRec /\ n.pc = l /\ n.k = loc[p].k /\ n.snap = root.input /\ n.goal = root.input
      BY <3>2, RootFacts DEF LocRec
    <3> HIDE DEF n
    <3>4. Sane(n) /\ n.pc \notin Locked
      BY <2>1, <3>2, <3>3, Have DEF PrepFacts, Sane, Rewrites
    <3> QED
      BY <1>1, <3>1, <3>3, <3>4, AwayMove
  <2> QED
    BY <1>6, <2>2, <2>3, <2>4 DEF Snapshot
<1>7. CASE Warm(p)
  <2>1. loc[p].pc = "warm"
    BY <1>7 DEF Warm, At
  <2>2. CASE Retry(p)
    BY <1>1, <2>1, <2>2, AwayRetry
  <2>3. CASE Goto(p, "end") \/ Goto(p, "build")
    BY <1>1, <2>1, <2>3, AwayGoto
  <2> QED
    BY <1>7, <2>2, <2>3 DEF Warm
<1>8. CASE Build(p)
  <2>1. loc[p].pc = "build"
    BY <1>8 DEF Build, At
  <2>2. CASE Goto(p, "end")
    BY <1>1, <2>1, <2>2, AwayGoto
  <2>3. CASE loc' = [loc EXCEPT ![p].pc = "recover", ![p].ret = "recheck"]
    <3> DEFINE n == [loc[p] EXCEPT !.pc = "recover", !.ret = "recheck"]
    <3>1. loc' = [loc EXCEPT ![p] = n]
      BY <2>3
    <3>2. "recheck" \in Rets /\ "recover" \in Pcs
      BY DEF Rets, Pcs
    <3>3. /\ n \in LocRec /\ n.pc = "recover" /\ n.ret = "recheck" /\ n.k = loc[p].k
          /\ n.snap = loc[p].snap /\ n.goal = loc[p].goal
      BY <3>2 DEF LocRec
    <3> HIDE DEF n
    <3>4. Sane(n)
      BY <2>1, <3>3, Have DEF PrepFacts, Sane, Rewrites
    <3> QED
      BY <1>2, <3>1, <3>3, <3>4
  <2> QED
    BY <1>8, <2>2, <2>3 DEF Build
<1>9. CASE Recheck(p)
  <2>1. loc[p].pc = "recheck"
    BY <1>9 DEF Recheck, At
  <2>2. CASE Retry(p)
    BY <1>1, <2>1, <2>2, AwayRetry
  <2>3. CASE loc' = [loc EXCEPT ![p].old = engine.current, ![p].pc = "install"]
    <3> DEFINE n == [loc[p] EXCEPT !.old = engine.current, !.pc = "install"]
    <3>1. loc' = [loc EXCEPT ![p] = n]
      BY <2>3
    <3>2. engine.current \in Ids \cup {None} /\ "install" \in Pcs
      BY Types DEF EngineRec, Pcs, Building
    <3>3. /\ n \in LocRec /\ n.pc = "install" /\ n.ret = loc[p].ret /\ n.old = engine.current
          /\ n.k = loc[p].k /\ n.snap = loc[p].snap /\ n.goal = loc[p].goal
      BY <3>2 DEF LocRec
    <3> HIDE DEF n
    <3>4. UndoFacts(n, root, droot, engine, dengine)
      BY <3>3 DEF UndoFacts, RestoringInputs
    <3>5. JournalFacts(n, root, droot, engine, dengine, allowed, order)
      BY <2>1, <3>3, Have DEF JournalFacts, Before, After
    <3>6. PrepFacts(n, root, engine, dengine)
      BY <2>1, <3>3, Have DEF PrepFacts, Sane, Rewrites
    <3>7. Settling(n, root, droot, engine, dengine, allowed, order)
      BY <3>4, <3>5, <3>6 DEF Settling
    <3> QED
      BY <1>1, <3>1, <3>3, <3>7, LocalMove
  <2> QED
    BY <1>9, <2>2, <2>3 DEF Recheck
<1> QED
  BY <1>3, <1>4, <1>5, <1>6, <1>7, <1>8, <1>9

-----------------------------------------------------------------------------
(* Failures, readers, the user, and the disk *)

\* What a save that fails half way leaves changes only what no journal needs.
LEMMA LeftBehindLoose ==
    ASSUME IInv, NEW p \in Procs, NEW e \in LeftBehind(p)
    PROVE  /\ But(e, engine, {"backup", "ibackup"})
           /\ NoJournal(engine, dengine) \/ e.backup = engine.backup
           /\ NoIJournal(engine, dengine) \/ e.ibackup = engine.ibackup
           /\ loc[p].pc \in {"pub_commit_sync", "abort"} => e = engine
<1> DEFINE l == loc[p].pc
           i == loc[p].k + 1
<1> engine \in EngineRec /\ loc[p] \in LocRec
  BY HolderFacts
<1>1. CASE e = engine
  BY <1>1 DEF But
<1>2. CASE l = "pub_backup" /\ e = [engine EXCEPT !.backup = Torn]
  <2>1. But(e, engine, {"backup"}) /\ e.ibackup = engine.ibackup
    BY <1>2 DEF EngineRec, But
  <2>2. NoJournal(engine, dengine)
    BY <1>2, HolderFacts DEF PubFacts, Ready
  <2> QED
    BY <1>2, <2>1, <2>2 DEF But
<1>3. CASE /\ l \in {"pub_export", "pub_journal", "pub_commit", "prep_backup"}
           /\ \E t \in Temps : e = [engine EXCEPT !.temps = @ \cup {t}]
  BY <1>3 DEF EngineRec, But
<1>4. CASE /\ l = "prep_backup" /\ i \in Changed(p)
           /\ e \in {[engine EXCEPT !.ibackup[i] = IF loc[p].snap[i] = None THEN None ELSE Torn],
                     [engine EXCEPT !.ibackup[i] = loc[p].snap[i], !.temps = @ \cup {"import.next"}]}
  <2> DEFINE b == [engine.ibackup EXCEPT ![i] = IF loc[p].snap[i] = None THEN None ELSE Torn]
             b2 == [engine.ibackup EXCEPT ![i] = loc[p].snap[i]]
  <2>1. e \in {[engine EXCEPT !.ibackup = b], [engine EXCEPT !.ibackup = b2, !.temps = @ \cup {"import.next"}]}
    BY <1>4
  <2> HIDE DEF b, b2
  <2>2. But(e, engine, {"ibackup"}) /\ e.backup = engine.backup
    BY <2>1 DEF EngineRec, But
  <2>3. NoIJournal(engine, dengine)
    BY <1>4, HolderFacts DEF ImportFacts
  <2> QED
    BY <1>4, <2>2, <2>3 DEF But
<1> QED
  BY <1>1, <1>2, <1>3, <1>4 DEF LeftBehind, Temps

\* A call fails; of fsync-commit, not where the directories reach the disk separately.
LEMMA FailSettles ==
    ASSUME IInv, AInv, NEW p \in Procs, Fail(p), "directory" \notin CommitSyncFails
    PROVE  AInv'
<1> USE DEF Locked, Ready, Recovering, Publishing, Preparing
<1> DEFINE n == [loc[p] EXCEPT !.pc = OnError(p), !.k = 0]
<1> loc[p] \in LocRec /\ loc \in [Procs -> LocRec]
  BY Types
<1>1. /\ loc[p].pc \in Checked /\ loc' = [loc EXCEPT ![p] = n]
      /\ UNCHANGED <<order, root, droot, dengine, allowed>>
      /\ loc[p].pc = "pub_commit_sync" => order # "directory"
  BY DEF Fail, history, disk
<1>2. PICK e \in EngineRec : engine' = e /\ e \in LeftBehind(p)
  BY LeftBehindFacts DEF Fail
<1>3. /\ OnError(p) \in {"publish_failed", "end", "abort", "undo"}
      /\ OnError(p) = "publish_failed" =>
            (loc[p].pc \in Recovering /\ loc[p].ret = "publish_failed") \/ loc[p].pc = "abort"
      /\ OnError(p) = "abort" => loc[p].pc \in Publishing
      /\ OnError(p) = "undo" => loc[p].pc \in Preparing \cup {"decide"}
  BY DEF OnError, Unrecovered
<1>4. OnError(p) \in Pcs /\ 0 \in 0..NInputs
  BY <1>3, GenerationAssumption DEF Pcs, Building
<1>5. n \in LocRec /\ n.pc = OnError(p) /\ n.k = 0 /\ n.snap = loc[p].snap /\ n.goal = loc[p].goal
  BY <1>4 DEF LocRec
<1> HIDE DEF n
<1>6. Sane(n)
  BY <1>3, <1>5, Have DEF PrepFacts, Sane, Rewrites
<1>7. CASE loc[p].pc \notin Locked
  <2>1. e = engine
    BY <1>2, <1>7, LeftBehindFacts
  <2>2. n.pc \notin Locked
    BY <1>3, <1>5, <1>7
  <2> QED
    BY <1>1, <1>2, <1>5, <1>6, <2>1, <2>2, AwayMove
<1>8. CASE loc[p].pc \in Locked
  <2>1. /\ But(e, engine, {"backup", "ibackup"})
        /\ NoJournal(engine, dengine) \/ e.backup = engine.backup
        /\ NoIJournal(engine, dengine) \/ e.ibackup = engine.ibackup
        /\ loc[p].pc \in {"pub_commit_sync", "abort"} => e = engine
    BY <1>2, LeftBehindLoose
  <2>2. Shape(root, droot, e, dengine, allowed, order)
    BY <2>1, Types, LooseShape DEF AInv, But
  <2>3. e.committed = engine.committed /\ e.journal = engine.journal
    BY <2>1 DEF But
  <2>4. n.pc = "publish_failed" =>
           e.committed = None \/ (order # "directory" /\ Revocable(root, e, dengine, allowed))
    BY <1>3, <1>5, <2>1, <2>3, Have DEF UndoFacts, JournalFacts
  <2>5. n.pc = "abort" =>
           /\ e.committed = None \/ (order # "directory" /\ Revocable(root, e, dengine, allowed))
           /\ e.journal = None => dengine.journal = None
    <3>1. CASE loc[p].pc = "pub_commit_sync"
      BY <1>1, <2>1, <3>1, Have DEF JournalFacts, Revocable
    <3>2. CASE loc[p].pc # "pub_commit_sync"
      BY <1>3, <1>5, <2>3, <3>2, Have DEF JournalFacts, Before, After, NoJournal
    <3> QED
      BY <3>1, <3>2
  <2>6. n.pc = "undo" => e.committed = None
    BY <1>3, <1>5, <2>3, Have DEF JournalFacts, Before
  <2>7. UndoFacts(n, root, droot, e, dengine)
    BY <1>3, <1>5 DEF UndoFacts, RestoringInputs
  <2>8. JournalFacts(n, root, droot, e, dengine, allowed, order)
    BY <1>3, <1>5, <2>4, <2>5, <2>6 DEF JournalFacts, Before, After
  <2>9. PrepFacts(n, root, e, dengine)
    BY <1>3, <1>5, <1>6 DEF PrepFacts
  <2>10. Settling(n, root, droot, e, dengine, allowed, order)
    BY <2>7, <2>8, <2>9 DEF Settling
  <2> QED
    BY <1>1, <1>2, <1>5, <1>8, <2>2, <2>10, OwnerStep
<1> QED
  BY <1>7, <1>8

\* Entries reach the disk on their own.
LEMMA WritebackSettles ==
    ASSUME IInv, AInv, WritebackAll \/ WritebackDirectory \/ WritebackEntry
    PROVE  AInv'
<1>1. UNCHANGED <<root, engine, allowed, order, loc>>
  BY DEF WritebackAll, WritebackDirectory, WritebackEntry, files, env, history
<1>2. PICK t, x : Reaches(t, x) /\ droot' = t /\ dengine' = x
  <2>1. CASE WritebackAll
    BY <2>1, Reached DEF WritebackAll, SyncAll
  <2>2. CASE WritebackDirectory
    BY <2>2, Reached DEF WritebackDirectory
  <2>3. CASE WritebackEntry
    <3>0. order = "entry"
      BY <2>3 DEF WritebackEntry
    <3> USE Types
    <3>1. CASE droot' = [droot EXCEPT !.public = root.public] /\ UNCHANGED dengine
      <4> DEFINE t == [droot EXCEPT !.public = root.public]
      <4>1. t \in RootRec /\ RootBlend(t, root, droot)
        BY DEF RootRec, RootBlend
      <4> HIDE DEF t
      <4>2. Reaches(t, dengine)
        BY <3>0, <4>1 DEF Reaches, EngineBlend
      <4> QED
        BY <3>1, <4>2 DEF t
    <3>2. ASSUME NEW i \in Inputs, droot' = [droot EXCEPT !.input[i] = root.input[i]], UNCHANGED dengine
          PROVE  \E t, x : Reaches(t, x) /\ droot' = t /\ dengine' = x
      <4> DEFINE in == [droot.input EXCEPT ![i] = root.input[i]]
                 t == [droot EXCEPT !.input = in]
      <4>1. in \in Ids /\ \A j \in Inputs : in[j] \in {root.input[j], droot.input[j]}
        BY DEF RootRec, Ids
      <4>2. droot' = t
        BY <3>2
      <4> HIDE DEF in
      <4>3. t \in RootRec /\ RootBlend(t, root, droot)
        BY <4>1 DEF RootRec, RootBlend
      <4> HIDE DEF t
      <4>4. Reaches(t, dengine)
        BY <3>0, <4>3 DEF Reaches, EngineBlend
      <4> QED
        BY <3>2, <4>2, <4>4
    <3>3. ASSUME NEW f \in DOMAIN engine, dengine' = [dengine EXCEPT ![f] = engine[f]], UNCHANGED droot
          PROVE  \E t, x : Reaches(t, x) /\ droot' = t /\ dengine' = x
      <4> DEFINE x == [dengine EXCEPT ![f] = engine[f]]
      <4>1. f \in {"journal", "committed", "current", "backup", "ijournal", "ibackup", "temps"}
        BY <3>3 DEF EngineRec
      <4>2. x \in EngineRec /\ EngineBlend(x, engine, dengine)
        BY <4>1 DEF EngineRec, EngineBlend
      <4> HIDE DEF x
      <4>3. Reaches(droot, x)
        BY <3>0, <4>2 DEF Reaches, RootBlend
      <4> QED
        BY <3>3, <4>3 DEF x
    <3> QED
      BY <2>3, <3>1, <3>2, <3>3 DEF WritebackEntry
  <2> QED
    BY <2>1, <2>2, <2>3
<1> QED
  BY <1>1, <1>2, DiskStep

\* The directories are what the disk holds, and everybody is away.
LEMMA PowerLossSettles ==
    ASSUME IInv, AInv, PowerLoss
    PROVE  AInv'
<1> DEFINE s == droot
           d == dengine
           a == {Settled(droot, dengine)}
<1>1. /\ root' = s /\ engine' = d /\ droot' = s /\ dengine' = d
      /\ loc' = [p \in Procs |-> Idle] /\ allowed' = a /\ UNCHANGED order
  BY DEF PowerLoss, disk
<1>2. Shape(root, s, engine, d, allowed, order)
  BY DEF AInv
<1>3. Unjournaled(s, s, d, d, a)
  BY DEF Unjournaled, Settled, ViewOf
<1>4. Journaled(s, s, d, d, a)
  <2> SUFFICES ASSUME d.journal # None PROVE Journaled(s, s, d, d, a)
    BY DEF Journaled
  <2>1. d.committed \in {None, d.journal.next}
    BY <1>2 DEF Shape, Journaled, Fenced
  <2>2. d.committed = None => ViewOf(d.journal.old, OldPublic(d), Restored(s, d)) \in a
    BY DEF Settled, ViewOf, OldPublic
  <2>3. d.committed # None => ViewOf(d.current, s.public, s.input) \in a
    BY DEF Settled, View, ViewOf
  <2> HIDE DEF s, d, a
  <2> QED
    BY <2>1, <2>2, <2>3 DEF Journaled
<1>5. Fenced(s, s, d, d, a)
  BY DEF Fenced
<1>6. Imports(s, s, d, d)
  BY <1>2 DEF Shape, Imports
<1>7. Sure(s, s, d, d, order)
  BY <1>2 DEF Shape, Sure
<1>8. Shape(s, s, d, d, a, order)
  BY <1>3, <1>4, <1>5, <1>6, <1>7 DEF Shape
<1>9. Settling(Idle, s, s, d, d, a, order)
  BY IdleSane, Away
<1>10. order' \in Orders /\ \A p \in Procs : loc'[p] = Idle
  BY <1>1 DEF AInv
<1> HIDE DEF s, d, a
<1> QED
  BY <1>1, <1>8, <1>9, <1>10 DEF AInv

\* In the beginning there is nothing to recover.
LEMMA InitAInv == Init => AInv
<1> SUFFICES ASSUME Init PROVE AInv
  OBVIOUS
<1>1. /\ engine.journal = None /\ engine.ijournal = None /\ dengine = engine /\ droot = root
      /\ allowed = {View(root, engine)} /\ order \in Orders
  BY DEF Init, NoEngine
<1>2. Restored(root, engine) = root.input
  BY <1>1 DEF Restored
<1>3. /\ Unjournaled(root, droot, engine, dengine, allowed) /\ Journaled(root, droot, engine, dengine, allowed)
      /\ Fenced(root, droot, engine, dengine, allowed)
  BY <1>1, <1>2 DEF Unjournaled, Journaled, Fenced, View, ViewOf
<1>4. Imports(root, droot, engine, dengine)
  BY <1>1 DEF Imports
<1>5. Sure(root, droot, engine, dengine, order)
  BY <1>1 DEF Sure, BackedUp, Firm, Committed
<1>6. \A p \in Procs : Settling(loc[p], root, droot, engine, dengine, allowed, order)
  BY IdleSane, Away DEF Init
<1> QED
  BY <1>1, <1>3, <1>4, <1>5, <1>6 DEF AInv, Shape

\* y is r with the user's content v of input i.
Edited(y, r, i, v) == y.public = r.public /\ y.input = [r.input EXCEPT ![i] = v]

\* A view with that content.
Follows(b, a, i, v) ==
    \A c, q : \A in \in [Inputs -> Contents \cup {Torn}] :
        ViewOf(c, q, in) \in a => ViewOf(c, q, [in EXCEPT ![i] = v]) \in b

\* Restoring the inputs of an import passes by what the user edits.
LEMMA EditRestored ==
    ASSUME NEW r \in RootRec, NEW e \in EngineRec, NEW y \in RootRec, NEW i \in Editable, NEW v \in Versions,
           Edited(y, r, i, v), e.ijournal # None => e.ijournal.changed \cap Editable = {}
    PROVE  /\ Restored(r, e) \in [Inputs -> Contents \cup {Torn}]
           /\ Restored(y, e) = [Restored(r, e) EXCEPT ![i] = v]
<1>0. i \in Inputs
  BY GenerationAssumption
<1>1. CASE e.ijournal = None
  <2>1. Restored(r, e) = r.input /\ Restored(y, e) = y.input
    BY <1>1 DEF Restored
  <2>2. r.input \in [Inputs -> Contents \cup {Torn}]
    BY DEF RootRec, Ids, Contents
  <2> QED
    BY <2>1, <2>2 DEF Edited
<1>2. CASE e.ijournal # None
  <2>1. e.ibackup \in [Inputs -> Contents \cup {Torn}] /\ r.input \in [Inputs -> Contents \cup {Torn}]
    BY DEF EngineRec, RootRec, Ids, Contents
  <2>2. /\ Restored(r, e) = [j \in Inputs |-> IF j \notin e.ijournal.changed THEN r.input[j]
                             ELSE IF j \in e.ijournal.present THEN e.ibackup[j] ELSE None]
        /\ Restored(y, e) = [j \in Inputs |-> IF j \notin e.ijournal.changed THEN y.input[j]
                             ELSE IF j \in e.ijournal.present THEN e.ibackup[j] ELSE None]
    BY <1>2 DEF Restored
  <2>3. Restored(r, e) \in [Inputs -> Contents \cup {Torn}]
    BY <2>1, <2>2 DEF Contents
  <2>4. y.input = [r.input EXCEPT ![i] = v] /\ i \notin e.ijournal.changed
    BY <1>2 DEF Edited
  <2>5. \A j \in Inputs : y.input[j] = IF j = i THEN v ELSE r.input[j]
    BY <2>1, <2>4
  <2>6. Restored(y, e) = [j \in Inputs |-> IF j = i THEN v ELSE Restored(r, e)[j]]
    BY <1>0, <2>2, <2>4, <2>5
  <2>7. [Restored(r, e) EXCEPT ![i] = v] = [j \in Inputs |-> IF j = i THEN v ELSE Restored(r, e)[j]]
    BY <2>3
  <2> QED
    BY <2>3, <2>6, <2>7
<1> QED
  BY <1>1, <1>2

\* The user's edit is in the directory and on the disk at once.
LEMMA EditShape ==
    ASSUME NEW r \in RootRec, NEW s \in RootRec, NEW e \in EngineRec, NEW d \in EngineRec,
           NEW y \in RootRec, NEW z \in RootRec, NEW a, NEW b, NEW o, NEW i \in Editable, NEW v \in Versions,
           Edited(y, r, i, v), Edited(z, s, i, v), Follows(b, a, i, v), Shape(r, s, e, d, a, o)
    PROVE  Shape(y, z, e, d, b, o)
<1>0. i \in Inputs /\ y.public = r.public /\ z.public = s.public
  BY GenerationAssumption DEF Edited
<1>1. /\ Restored(r, e) \in [Inputs -> Contents \cup {Torn}]
      /\ Restored(y, e) = [Restored(r, e) EXCEPT ![i] = v]
  BY EditRestored DEF Shape, Imports
<1>2. r.input \in [Inputs -> Contents \cup {Torn}] /\ s.input \in [Inputs -> Contents \cup {Torn}]
  BY DEF RootRec, Ids, Contents
<1>3. y.input = [r.input EXCEPT ![i] = v] /\ z.input = [s.input EXCEPT ![i] = v]
  BY DEF Edited
<1>4. \A c, q : ViewOf(c, q, Restored(r, e)) \in a => ViewOf(c, q, Restored(y, e)) \in b
  BY <1>1 DEF Follows
<1>5. \A c, q : ViewOf(c, q, r.input) \in a => ViewOf(c, q, y.input) \in b
  BY <1>2, <1>3 DEF Follows
<1>6. s.input = r.input => z.input = y.input
  BY <1>3
<1>7. \A j \in Inputs : j # i => y.input[j] = r.input[j] /\ z.input[j] = s.input[j]
  BY <1>2, <1>3
<1>8. y.input[i] = v /\ z.input[i] = v
  BY <1>0, <1>2, <1>3
<1>9. Unjournaled(y, z, e, d, b)
  BY <1>0, <1>4 DEF Shape, Unjournaled
<1>10. Journaled(y, z, e, d, b)
  <2> SUFFICES ASSUME e.journal # None PROVE Journaled(y, z, e, d, b)
    BY DEF Journaled
  <2>1. Journaled(r, s, e, d, a)
    BY DEF Shape
  <2> QED
    BY <1>0, <1>4, <1>5, <1>6, <2>1 DEF Journaled
<1>11. Fenced(y, z, e, d, b)
  BY <1>0, <1>5 DEF Shape, Fenced
<1>12. Imports(y, z, e, d)
  <2>1. Imports(r, s, e, d)
    BY DEF Shape
  <2>2. /\ e.ijournal # None => i \notin e.ijournal.changed /\ e.ijournal.changed \subseteq Inputs
        /\ d.ijournal # None => i \notin d.ijournal.changed /\ d.ijournal.changed \subseteq Inputs
    BY <2>1 DEF Imports, EngineRec, IJournalRec
  <2>3. CASE e.ijournal = None /\ d.ijournal = None
    BY <1>6, <2>1, <2>3 DEF Imports
  <2>4. CASE e.ijournal # None /\ d.ijournal # None
    BY <1>7, <1>8, <2>1, <2>2, <2>4 DEF Imports
  <2>5. CASE e.ijournal # None /\ d.ijournal = None
    BY <1>6, <1>7, <2>1, <2>2, <2>5 DEF Imports
  <2>6. CASE e.ijournal = None /\ d.ijournal # None
    BY <1>6, <1>7, <2>1, <2>2, <2>6 DEF Imports
  <2> QED
    BY <2>3, <2>4, <2>5, <2>6
<1>13. Sure(y, z, e, d, o)
  BY <1>0 DEF Shape, Sure, Firm
<1> QED
  BY <1>9, <1>10, <1>11, <1>12, <1>13 DEF Shape

\* It disturbs nothing that the steps have settled.
LEMMA EditSettling ==
    ASSUME NEW r \in RootRec, NEW s \in RootRec, NEW e \in EngineRec, NEW d \in EngineRec,
           NEW y \in RootRec, NEW z \in RootRec, NEW a, NEW b, NEW o, NEW i \in Editable, NEW v \in Versions,
           NEW l, Edited(y, r, i, v), Edited(z, s, i, v), Follows(b, a, i, v), Shape(r, s, e, d, a, o),
           Settling(l, r, s, e, d, a, o)
    PROVE  Settling(l, y, z, e, d, b, o)
<1>0. i \in Inputs /\ y.public = r.public /\ z.public = s.public
  BY GenerationAssumption DEF Edited
<1>1. /\ Restored(r, e) \in [Inputs -> Contents \cup {Torn}]
      /\ Restored(y, e) = [Restored(r, e) EXCEPT ![i] = v]
  BY EditRestored DEF Shape, Imports
<1>2. \A c, q : ViewOf(c, q, Restored(r, e)) \in a => ViewOf(c, q, Restored(y, e)) \in b
  BY <1>1 DEF Follows
<1>3. s.input = r.input => z.input = y.input
  BY DEF Edited
<1>4. \A j \in Inputs : j # i => y.input[j] = r.input[j]
  BY DEF Edited, RootRec, Ids
<1>5. UndoFacts(l, y, z, e, d)
  <2>1. e.ijournal # None => i \notin e.ijournal.changed /\ e.ijournal.changed \subseteq Inputs
    BY DEF Shape, Imports, EngineRec, IJournalRec
  <2>2. \A k : RestoredTo(r, e, k) => RestoredTo(y, e, k)
    BY <1>4, <2>1 DEF RestoredTo
  <2>3. Ended(r, s, e, d) => Ended(y, z, e, d)
    BY <1>0 DEF Ended
  <2>4. UndoFacts(l, r, s, e, d)
    BY DEF Settling
  <2> QED
    BY <1>0, <1>3, <2>2, <2>3, <2>4 DEF UndoFacts
<1>6. JournalFacts(l, y, z, e, d, b, o)
  <2>1. Revocable(r, e, d, a) => Revocable(y, e, d, b)
    BY <1>0, <1>2 DEF Revocable
  <2>2. JournalFacts(l, r, s, e, d, a, o)
    BY DEF Settling
  <2> QED
    BY <1>0, <1>3, <2>1, <2>2 DEF JournalFacts
<1>7. PrepFacts(l, y, e, d)
  BY <1>4 DEF Settling, PrepFacts, Sane, Rewrites
<1> QED
  BY <1>5, <1>6, <1>7 DEF Settling

\* The user edits an input.
LEMMA EditSettles ==
    ASSUME IInv, AInv, NEW i \in Editable, NEW v \in Versions, Edit(i, v)
    PROVE  AInv'
<1>0. i \in Inputs /\ v \in Contents
  BY GenerationAssumption DEF Contents
<1>1. ASSUME NEW r \in RootRec
      PROVE  \E y \in RootRec : [r EXCEPT !.input[i] = v] = y /\ Edited(y, r, i, v)
  <2> DEFINE in == [r.input EXCEPT ![i] = v]
             y == [r EXCEPT !.input = in]
  <2>1. in \in Ids
    BY <1>0 DEF RootRec, Ids, Contents
  <2>2. [r EXCEPT !.input[i] = v] = y
    OBVIOUS
  <2> HIDE DEF in
  <2>3. y \in RootRec /\ y.public = r.public /\ y.input = in
    BY <2>1 DEF RootRec
  <2> HIDE DEF y
  <2> QED
    BY <2>2, <2>3 DEF Edited, in
<1>2. PICK y \in RootRec : root' = y /\ Edited(y, root, i, v)
  BY <1>1, Types DEF Edit
<1>3. PICK z \in RootRec : droot' = z /\ Edited(z, droot, i, v)
  BY <1>1, Types DEF Edit
<1>4. PICK b : allowed' = b /\ Follows(b, allowed, i, v)
  <2>1. allowed' = {[x EXCEPT !.input[i] = v] : x \in allowed}
    BY DEF Edit
  <2>2. ASSUME NEW c, NEW q, NEW in \in [Inputs -> Contents \cup {Torn}], ViewOf(c, q, in) \in allowed
        PROVE  ViewOf(c, q, [in EXCEPT ![i] = v]) \in allowed'
    <3>1. [ViewOf(c, q, in) EXCEPT !.input[i] = v] = ViewOf(c, q, [in EXCEPT ![i] = v])
      BY DEF ViewOf
    <3> QED
      BY <2>1, <2>2, <3>1
  <2> QED
    BY <2>2 DEF Follows
<1>5. UNCHANGED <<engine, dengine, loc, order>>
  BY DEF Edit, env
<1>6. Shape(y, z, engine, dengine, b, order)
  BY <1>2, <1>3, <1>4, Types, EditShape DEF AInv
<1>7. \A p \in Procs : Settling(loc[p], y, z, engine, dengine, b, order)
  BY <1>2, <1>3, <1>4, Types, EditSettling DEF AInv
<1> QED
  BY <1>2, <1>3, <1>4, <1>5, <1>6, <1>7 DEF AInv

-----------------------------------------------------------------------------
(* All or nothing *)

\* Where the disk can be rolled back, restoring gives the same inputs as in the directories.
LEMMA SameRestored ==
    ASSUME NEW r \in RootRec, NEW s \in RootRec, NEW e \in EngineRec, NEW d \in EngineRec,
           Imports(r, s, e, d), BackedUp(d), ~Committing(e, d)
    PROVE  Restored(s, d) = Restored(r, e)
<1>0. r.input \in Ids /\ s.input \in Ids
  BY DEF RootRec
<1>1. CASE e.ijournal = None /\ d.ijournal = None
  BY <1>1 DEF Imports, Restored
<1>2. CASE e.ijournal # None /\ d.ijournal # None
  BY <1>2 DEF Imports, Restored, BackedUp
<1>3. CASE e.ijournal # None /\ d.ijournal = None
  <2>1. Restored(r, e) = [i \in Inputs |-> r.input[i]]
    BY <1>3 DEF Imports, Restored
  <2> QED
    BY <1>0, <1>3, <2>1 DEF Imports, Restored, Ids
<1>4. CASE e.ijournal = None /\ d.ijournal # None
  <2>1. \A i \in d.ijournal.changed :
           IF i \in d.ijournal.present THEN d.ibackup[i] = r.input[i] ELSE r.input[i] = None
    BY <1>4 DEF Imports, BackedUp
  <2>2. Restored(s, d) = [i \in Inputs |-> r.input[i]]
    BY <1>4, <2>1 DEF Imports, Restored
  <2> QED
    BY <1>0, <1>4, <2>2 DEF Restored, Ids
<1> QED
  BY <1>1, <1>2, <1>3, <1>4

\* A recovery from the disk ends with an allowed view.
LEMMA DiskAllowed ==
    ASSUME NEW r \in RootRec, NEW s \in RootRec, NEW e \in EngineRec, NEW d \in EngineRec, NEW a, NEW o,
           Shape(r, s, e, d, a, o), Recoverable(s, d)
    PROVE  Settled(s, d) \in a
<1>1. CASE d.journal = None
  <2>1. Restored(s, d) = Restored(r, e)
    BY <1>1, SameRestored DEF Recoverable, Shape, Committing, Committed
  <2>2. Settled(s, d) = ViewOf(d.current, s.public, Restored(r, e))
    BY <1>1, <2>1 DEF Settled, ViewOf
  <2> QED
    BY <1>1, <2>2 DEF Shape, Unjournaled, Journaled
<1>2. CASE d.journal # None /\ e.journal = None
  <2>1. s.input = r.input /\ Restored(s, d) = s.input
    BY <1>2 DEF Shape, Fenced, Imports, Restored
  <2>2. Settled(s, d) = ViewOf(e.current, r.public, r.input)
    BY <1>2, <2>1 DEF Shape, Fenced, Settled, View, ViewOf, OldPublic
  <2> QED
    BY <1>2, <2>2 DEF Shape, Fenced
<1>3. CASE d.journal # None /\ e.journal # None
  <2>1. d.journal = e.journal /\ Journaled(r, s, e, d, a)
    BY <1>3 DEF Shape, Journaled
  <2>2. CASE d.committed = None
    <3>1. Restored(s, d) = Restored(r, e)
      BY <2>2, SameRestored DEF Recoverable, Shape, Committing, Committed
    <3>2. OldPublic(d) = OldPublic(e)
      BY <1>3, <2>1, <2>2 DEF Recoverable, BackedUp, Journaled, OldPublic
    <3>3. Settled(s, d) = ViewOf(e.journal.old, OldPublic(e), Restored(r, e))
      BY <1>3, <2>1, <2>2, <3>1, <3>2 DEF Settled, ViewOf, OldPublic
    <3> QED
      BY <1>3, <2>1, <2>2, <3>3 DEF Journaled
  <2>3. CASE d.committed # None
    <3>1. d.current = e.journal.next /\ s.public = e.journal.next
      BY <1>3, <2>1, <2>3 DEF Recoverable, CommittedJournal
    <3>2. Settled(s, d) = ViewOf(e.journal.next, e.journal.next, s.input)
      BY <1>3, <2>3, <3>1 DEF Settled, View, ViewOf
    <3> QED
      BY <1>3, <2>1, <2>3, <3>1, <3>2 DEF Journaled
  <2> QED
    BY <2>2, <2>3
<1> QED
  BY <1>1, <1>2, <1>3

\* A recovery succeeds where entries of a directory reach the disk in order.
LEMMA ShapeRecovers ==
    ASSUME NEW r, NEW s, NEW e, NEW d, NEW a, NEW o, Shape(r, s, e, d, a, o), o # "entry"
    PROVE  Recoverable(r, e) /\ Recoverable(s, d)
BY DEF Shape, Sure, Recoverable, Firm, Committed

\* What the directories and the disk promise of the next recovery.
LEMMA InvariantSettles ==
    ASSUME IInv, AInv
    PROVE  AllOrNothing /\ (order # "entry" => RollbackRepeatable)
<1>1. Shape(root, droot, engine, dengine, allowed, order)
  BY DEF AInv
<1>2. Shape(root, root, engine, engine, allowed, order)
  BY Reached, DiskShape
<1>3. /\ Recoverable(root, engine) => Settled(root, engine) \in allowed
      /\ Recoverable(droot, dengine) => Settled(droot, dengine) \in allowed
  BY <1>1, <1>2, Types, DiskAllowed
<1>4. order # "entry" => Recoverable(root, engine) /\ Recoverable(droot, dengine)
  BY <1>1, ShapeRecovers
<1> QED
  BY <1>3, <1>4 DEF AllOrNothing, RollbackRepeatable

\* Every step keeps the inductive invariant.
LEMMA NextAInv ==
    ASSUME "directory" \notin CommitSyncFails
    PROVE  IInv /\ AInv /\ [Next]_vars => AInv'
<1> SUFFICES ASSUME IInv, AInv, [Next]_vars PROVE AInv'
  OBVIOUS
<1>1. ASSUME NEW p \in Procs, RecoverStep(p)
      PROVE  AInv'
  BY <1>1, RecoverEngine, SyncsSettle, Clean4Settles, RecoverDecides, UndoPublicSettles,
     RestoreInputSettles DEF RecoverStep
<1>2. ASSUME NEW p \in Procs, PublishStep(p)
      PROVE  AInv'
  BY <1>2, PublishEngine, SyncsSettle, PubRenameSettles, PubCommitSyncSettles, RevokeMarker,
     PublishDecides DEF PublishStep
<1>3. ASSUME NEW p \in Procs, CompileStep(p)
      PROVE  AInv'
  BY <1>3, CompilerSettles, PublishDecides, GensSyncSettles DEF CompileStep
<1>4. ASSUME NEW p \in Procs, ImportStep(p)
      PROVE  AInv'
  BY <1>4, ImportEngine, ImportDecides, PublishDecides, SyncsSettle, PrepInputSettles,
     RevokeMarker DEF ImportStep
<1>5. ASSUME NEW p \in Procs, Step(p)
      PROVE  AInv'
  BY <1>1, <1>2, <1>3, <1>4, <1>5, LegacySettles DEF Step
<1>6. ASSUME NEW p \in Procs, (\E kind \in Kinds : Start(p, kind)) \/ Fail(p) \/ Kill(p)
      PROVE  AInv'
  BY <1>6, StartSettles, FailSettles, CompilerSettles
<1>7. CASE UNCHANGED <<root, engine, droot, dengine, allowed, order, loc>>
  BY <1>7, Reached, DiskStep
<1>8. ASSUME NEW r \in Readers, ReaderLock(r) \/ Pin(r)
      PROVE  AInv'
  BY <1>7, <1>8 DEF ReaderLock, Pin, files, disk, env, history
<1>9. CASE UNCHANGED vars
  BY <1>7, <1>9 DEF vars, files, disk, env, history
<1> QED
  BY <1>5, <1>6, <1>8, <1>9, EditSettles, WritebackSettles, PowerLossSettles DEF Next

LEMMA AtomicInvariant ==
    ASSUME "directory" \notin CommitSyncFails
    PROVE  Spec => [](IInv /\ AInv)
<1>1. Init => AInv
  BY InitAInv
<1>2. IInv /\ AInv /\ [Next]_vars => AInv'
  BY NextAInv
<1>3. Spec => []IInv
  BY Invariant
<1> QED
  BY <1>1, <1>2, <1>3, PTL DEF Spec

\* Whatever is interrupted, by a failure, a kill or a power loss, the next recovery ends
\* with the complete old view or the complete new one of a transaction that reached its
\* commit, of recover and jf_generation_publish; and it succeeds unless entries of one
\* directory reach the disk in any order.  The hypothesis leaves out one failure: that of
\* fsync-commit where the two directories reach the disk separately.
THEOREM TransactionAllOrNothing ==
    ASSUME "directory" \notin CommitSyncFails
    PROVE  Spec => []AllOrNothing
<1>1. IInv /\ AInv => AllOrNothing
  BY InvariantSettles
<1> QED
  BY <1>1, AtomicInvariant, PTL

\* "rollback can be repeated after any interruption": recover and recover_inputs succeed
\* from the directories and from what the disk holds, where the entries of each directory
\* reach the disk in the order they were made.
THEOREM RollbackCanBeRepeated ==
    ASSUME "directory" \notin CommitSyncFails, "entry" \notin Orders
    PROVE  Spec => []RollbackRepeatable
<1>1. IInv /\ AInv => RollbackRepeatable
  BY InvariantSettles DEF AInv
<1> QED
  BY <1>1, AtomicInvariant, PTL

-----------------------------------------------------------------------------
(* Refinement of AtomicPublication *)

\* What a recovery finds in the directories and on the disk, and what it finds when a
\* publication that is not reported yet is taken back.
Now == Settled(root, engine)
OnDisk == Settled(droot, dengine)
Revoked(e) == [e EXCEPT !.committed = None]
Base == Settled(root, IF Unreported THEN Revoked(engine) ELSE engine)

\* Every order but "entry" maps to these.
Maps ==
    /\ order # "entry" =>
          /\ Found(root, engine) = Now /\ Found(droot, dengine) = OnDisk
          /\ Found(root, IF Unreported THEN [engine EXCEPT !.committed = None] ELSE engine) = Base
    /\ order = "entry" =>
          /\ Found(root, engine) = [sel |-> None, pub |-> None, input |-> NoItems]
          /\ Found(droot, dengine) = [sel |-> None, pub |-> None, input |-> NoItems]
          /\ Found(root, IF Unreported THEN [engine EXCEPT !.committed = None] ELSE engine)
                = [sel |-> None, pub |-> None, input |-> NoItems]

LEMMA Mapping == Maps /\ Maps'
<1>1. Maps
  BY DEF Maps, Found, Now, OnDisk, Base, Revoked
<1>2. Maps'
  BY DEF Maps, Found, Now, OnDisk, Base, Revoked
<1> QED
  BY <1>1, <1>2

\* Entries reach the disk, or nothing happens.
LEMMA Stutters ==
    ASSUME order' = order,
           order # "entry" => Now' = Now /\ Base' = Base /\ OnDisk' \in {OnDisk, Now, Base}
    PROVE  [Atomic!Next]_(Atomic!vars)
<1>1. CASE order = "entry"
  BY <1>1, Mapping DEF Maps, Atomic!vars
<1>2. CASE order # "entry"
  BY <1>2, Mapping DEF Maps, Atomic!vars, Atomic!Next, Atomic!Persist
<1> QED
  BY <1>1, <1>2

\* What a recovery finds depends on no more than these entries.
LEMMA SettledLoose ==
    ASSUME NEW r, NEW y, NEW e, NEW x, y.public = r.public, y.input = r.input,
           But(x, e, {"committed", "backup", "ibackup"}),
           e.journal = None \/ (x.committed = e.committed /\ x.backup = e.backup),
           e.ijournal = None \/ x.ibackup = e.ibackup
    PROVE  Settled(y, x) = Settled(r, e)
<1>1. Restored(y, x) = Restored(r, e)
  BY DEF Restored, But
<1> QED
  BY <1>1 DEF Settled, View, But

\* Taking back what is not committed changes nothing.
LEMMA RevokedSame ==
    ASSUME NEW r, NEW e \in EngineRec
    PROVE  /\ But(Revoked(e), e, {"committed"}) /\ Revoked(e).committed = None /\ Revoked(e) \in EngineRec
           /\ e.journal = None \/ e.committed = None => Settled(r, Revoked(e)) = Settled(r, e)
<1>1. But(Revoked(e), e, {"committed"}) /\ Revoked(e).committed = None /\ Revoked(e) \in EngineRec
  BY DEF Revoked, EngineRec, But
<1>2. But(Revoked(e), e, {"committed", "backup", "ibackup"}) /\ Revoked(e).backup = e.backup /\ Revoked(e).ibackup = e.ibackup
  BY <1>1 DEF But
<1> QED
  BY <1>1, <1>2, SettledLoose

\* Of the directories and the disk every view that recovery may find is one of the two.
LEMMA ShapeOwn ==
    ASSUME NEW r \in RootRec, NEW s \in RootRec, NEW e \in EngineRec, NEW d \in EngineRec, NEW a, NEW o,
           Shape(r, s, e, d, a, o), o # "entry"
    PROVE  Shape(r, s, e, d, {Settled(r, e), Settled(s, d)}, o)
<1> DEFINE b == {Settled(r, e), Settled(s, d)}
<1>0. /\ Unjournaled(r, s, e, d, a) /\ Journaled(r, s, e, d, a) /\ Fenced(r, s, e, d, a)
      /\ Imports(r, s, e, d) /\ Sure(r, s, e, d, o)
      /\ BackedUp(e) /\ BackedUp(d) /\ Firm(r, e) /\ Firm(s, d)
  BY DEF Shape, Sure
<1>1. ~Committing(e, d) => Restored(s, d) = Restored(r, e)
  BY <1>0, SameRestored
<1>2. Unjournaled(r, s, e, d, b)
  <2> SUFFICES ASSUME e.journal = None, d.journal = None PROVE Unjournaled(r, s, e, d, b)
    BY DEF Unjournaled
  <2>1. Restored(s, d) = Restored(r, e) /\ e.current = d.current
    BY <1>0, <1>1 DEF Committing, Committed, Unjournaled
  <2>2. Settled(r, e) = ViewOf(e.current, r.public, Restored(r, e))
    BY DEF Settled, ViewOf
  <2>3. Settled(s, d) = ViewOf(e.current, s.public, Restored(r, e))
    BY <2>1 DEF Settled, ViewOf
  <2> QED
    BY <2>1, <2>2, <2>3 DEF Unjournaled
<1>3. Journaled(r, s, e, d, b)
  <2> SUFFICES ASSUME e.journal # None PROVE Journaled(r, s, e, d, b)
    BY DEF Journaled
  <2>1. CASE e.committed = None
    <3>1. Settled(r, e) = ViewOf(e.journal.old, OldPublic(e), Restored(r, e))
      BY <2>1 DEF Settled, ViewOf, OldPublic
    <3>2. d.committed # None => Settled(s, d) = ViewOf(e.journal.next, e.journal.next, r.input)
      BY <1>0, <2>1 DEF Journaled, Firm, Committed, CommittedJournal, Settled, View, ViewOf
    <3>3. d.journal = None => Settled(s, d) = ViewOf(e.journal.old, s.public, Restored(r, e))
      BY <1>0, <1>1 DEF Journaled, Settled, ViewOf, Committing, Committed
    <3> HIDE DEF b
    <3>4. /\ Settled(r, e) \in b /\ Settled(s, d) \in b
      BY DEF b
    <3> QED
      BY <1>0, <2>1, <3>1, <3>2, <3>3, <3>4 DEF Journaled
  <2>2. CASE e.committed # None
    <3>1. Settled(r, e) = ViewOf(e.journal.next, e.journal.next, r.input)
      BY <1>0, <2>2 DEF Firm, Committed, CommittedJournal, Settled, View, ViewOf
    <3>2. d.committed = None => Settled(s, d) = ViewOf(e.journal.old, OldPublic(e), Restored(r, e))
      <4> SUFFICES ASSUME d.committed = None PROVE Settled(s, d) = ViewOf(e.journal.old, OldPublic(e), Restored(r, e))
        OBVIOUS
      <4>1. d.journal = e.journal /\ Restored(s, d) = Restored(r, e)
        BY <1>0, <1>1, <2>2 DEF Journaled, Committing, Committed
      <4>2. OldPublic(d) = OldPublic(e)
        BY <1>0, <4>1 DEF Journaled, BackedUp, OldPublic
      <4> QED
        BY <4>1, <4>2 DEF Settled, ViewOf, OldPublic
    <3> HIDE DEF b
    <3>3. /\ Settled(r, e) \in b /\ Settled(s, d) \in b
      BY DEF b
    <3> QED
      BY <1>0, <2>2, <3>1, <3>2, <3>3 DEF Journaled
  <2> QED
    BY <2>1, <2>2
<1>4. Fenced(r, s, e, d, b)
  <2> SUFFICES ASSUME e.journal = None, d.journal # None PROVE Fenced(r, s, e, d, b)
    BY DEF Fenced
  <2>1. Settled(r, e) = ViewOf(e.current, r.public, r.input)
    BY <1>0 DEF Fenced, Settled, Restored, ViewOf
  <2> QED
    BY <1>0, <2>1 DEF Fenced
<1> HIDE DEF b
<1>5. Shape(r, s, e, d, b, o)
  BY <1>0, <1>2, <1>3, <1>4 DEF Shape
<1> QED
  BY <1>5 DEF b

\* Whatever more reaches the disk, what a recovery finds there was there or is in the directories.
LEMMA DiskFound ==
    ASSUME IInv, AInv, NEW t, NEW x, Reaches(t, x), order # "entry"
    PROVE  Settled(t, x) \in {Now, OnDisk}
<1> DEFINE b == {Settled(root, engine), Settled(droot, dengine)}
<1>1. t \in RootRec /\ x \in EngineRec /\ RootBlend(t, root, droot) /\ EngineBlend(x, engine, dengine)
  BY DEF Reaches
<1>2. Sure(root, t, engine, x, order)
  BY ReachesSure
<1>3. Shape(root, droot, engine, dengine, b, order)
  BY ShapeOwn, Types DEF AInv
<1> HIDE DEF b
<1>4. Shape(root, t, engine, x, b, order)
  BY <1>1, <1>2, <1>3, BlendShape, Types
<1>5. Recoverable(t, x)
  BY <1>4, ShapeRecovers
<1>6. Settled(t, x) \in b
  BY <1>1, <1>4, <1>5, Types, DiskAllowed
<1> QED
  BY <1>6 DEF b, Now, OnDisk

\* Where a publication is committed and not reported yet.
Pending == {"pub_commit_sync", "abort", "publish_failed", "undo"}

\* The others stay where they are.
Alone(p) == \A q \in Procs \ {p} : loc'[q] = loc[q]

LEMMA GotoAlone ==
    ASSUME IInv, NEW p \in Procs, NEW l, Goto(p, l)
    PROVE  Alone(p) /\ loc'[p].pc = l /\ loc'[p].goal = loc[p].goal /\ loc'[p].k = loc[p].k
BY Types DEF Goto, Alone, LocRec

\* Only the owner of the lock can have such a publication.
LEMMA OwnerPending ==
    ASSUME IInv, NEW p \in Procs, loc[p].pc \in Locked, Alone(p)
    PROVE  /\ Unreported <=> loc[p].pc \in Pending
           /\ Unreported' <=> loc'[p].pc \in Pending
<1>1. \A q \in Procs \ {p} : loc[q].pc \notin Locked
  BY DEF IInv, LockInv
<1>2. \A q \in Procs \ {p} : loc[q].pc \notin Pending /\ loc'[q].pc \notin Pending
  BY <1>1 DEF Pending, Locked, Publishing, Alone
<1> QED
  BY <1>2 DEF Unreported, Pending

\* A step of the owner that changes what the directories hold, and not what is found there.
LEMMA OwnerRefines ==
    ASSUME IInv, AInv, IInv', NEW p \in Procs, loc[p].pc \in Locked \ Pending, Alone(p), order' = order,
           Settled(root', engine') = Settled(root, engine), Reaches(droot', dengine'),
           loc'[p].pc \in Pending => engine'.journal = None \/ engine'.committed = None
    PROVE  [Atomic!Next]_(Atomic!vars)
<1>1. ~Unreported /\ (Unreported' <=> loc'[p].pc \in Pending)
  BY OwnerPending
<1>2. Now' = Now /\ Base = Now
  BY <1>1 DEF Now, Base
<1>3. engine' \in EngineRec
  BY DEF IInv, FileTypes
<1>4. Base' = Now
  <2>1. CASE Unreported'
    BY <1>1, <1>3, <2>1, RevokedSame DEF Base, Now
  <2>2. CASE ~Unreported'
    BY <2>2 DEF Base, Now
  <2> QED
    BY <2>1, <2>2
<1>5. order # "entry" => OnDisk' \in {Now, OnDisk}
  BY DiskFound DEF OnDisk
<1> QED
  BY <1>2, <1>4, <1>5, Stutters

\* The same without what reaches the disk.
LEMMA OwnerRefinesFiles ==
    ASSUME IInv, AInv, IInv', NEW p \in Procs, loc[p].pc \in Locked \ Pending, Alone(p), order' = order,
           Settled(root', engine') = Settled(root, engine), UNCHANGED <<droot, dengine>>,
           loc'[p].pc \in Pending => engine'.journal = None \/ engine'.committed = None
    PROVE  [Atomic!Next]_(Atomic!vars)
BY Reached, OwnerRefines

\* A step that leaves the directories alone and has nothing to do with such a publication.
LEMMA AwayRefines ==
    ASSUME IInv, AInv, UNCHANGED <<root, engine>>, order' = order, Reaches(droot', dengine'),
           \A q \in Procs : loc'[q] = loc[q] \/ (loc[q].pc \notin Pending /\ loc'[q].pc \notin Pending)
    PROVE  [Atomic!Next]_(Atomic!vars)
<1>1. Unreported' <=> Unreported
  BY DEF Unreported, Pending
<1>2. Now' = Now /\ Base' = Base
  BY <1>1 DEF Now, Base, Revoked
<1>3. order # "entry" => OnDisk' \in {Now, OnDisk}
  BY DiskFound DEF OnDisk
<1> QED
  BY <1>2, <1>3, Stutters

\* cleanup_transaction and recover in the engine directory: what they finish was found before.
LEMMA RecoverRefines ==
    ASSUME IInv, AInv, IInv', NEW p \in Procs,
           Clean1(p) \/ Clean3(p) \/ UndoSelect(p) \/ InputsUnlink(p) \/ InputsClean(p)
    PROVE  [Atomic!Next]_(Atomic!vars)
<1> USE Types, HolderFacts, Have
<1>0. ASSUME NEW a, NEW l, loc[p].pc = a, Goto(p, l), a \in Recovering, l \in Recovering,
             UNCHANGED <<root, droot, dengine, order>>, Settled(root, engine') = Settled(root, engine)
      PROVE  [Atomic!Next]_(Atomic!vars)
  <2>1. loc[p].pc \in Locked \ Pending /\ Alone(p) /\ loc'[p].pc \notin Pending
    BY <1>0, GotoAlone DEF Locked, Pending, Recovering
  <2> QED
    BY <1>0, <2>1, OwnerRefinesFiles
<1>1. CASE Clean1(p)
  <2>1. /\ loc[p].pc = "clean" /\ Goto(p, "clean_sync") /\ UNCHANGED <<root, droot, dengine, order>>
        /\ engine' = [engine EXCEPT !.journal = None]
    BY <1>1 DEF Clean1, At, Quiet, env, InEngine, disk, CleanJournal
  <2>2. But(engine', engine, {"journal"}) /\ engine'.journal = None
    BY <2>1 DEF EngineRec, But
  <2>3. Settled(root, engine') = Settled(root, engine)
    <3>1. CASE engine.journal = None
      BY <2>2, <3>1, SettledLoose DEF But
    <3>2. CASE engine.journal # None
      <4>1. Ended(root, droot, engine, dengine) /\ engine.ijournal = None
        BY <2>1, <3>2 DEF UndoFacts
      <4> QED
        BY <2>2, <3>2, <4>1 DEF But, Ended, Settled, Restored, View, OldPublic
    <3> QED
      BY <3>1, <3>2
  <2> QED
    BY <1>0, <2>1, <2>3 DEF Recovering
<1>2. CASE Clean3(p)
  <2>1. /\ loc[p].pc = "clean_rest" /\ Goto(p, "clean_end") /\ UNCHANGED <<root, droot, dengine, order>>
        /\ engine' = [engine EXCEPT !.backup = None, !.committed = None, !.temps = @ \ Leftovers]
    BY <1>2 DEF Clean3, At, Quiet, env, InEngine, disk
  <2>2. But(engine', engine, {"committed", "backup"}) /\ engine.journal = None
    BY <2>1 DEF EngineRec, But, PubFacts, NoJournal
  <2>3. Settled(root, engine') = Settled(root, engine)
    BY <2>2, SettledLoose DEF But
  <2> QED
    BY <1>0, <2>1, <2>3 DEF Recovering
<1>3. CASE UndoSelect(p)
  <2>1. /\ loc[p].pc = "undo_select" /\ Goto(p, "undo_root_sync") /\ UNCHANGED <<root, droot, dengine, order>>
        /\ engine' = [engine EXCEPT !.current = engine.journal.old]
    BY <1>3 DEF UndoSelect, At, Quiet, env, InEngine, disk
  <2>2. But(engine', engine, {"current"}) /\ engine.journal # None /\ engine.committed = None
    BY <2>1 DEF EngineRec, But, UndoFacts
  <2>3. Settled(root, engine') = Settled(root, engine)
    BY <2>2 DEF But, Settled, Restored
  <2> QED
    BY <1>0, <2>1, <2>3 DEF Recovering
<1>4. CASE InputsUnlink(p)
  <2>1. /\ loc[p].pc = "inputs_unlink" /\ Goto(p, "inputs_unlink_sync") /\ UNCHANGED <<root, droot, dengine, order>>
        /\ engine' = [engine EXCEPT !.ijournal = None]
    BY <1>4 DEF InputsUnlink, At, Quiet, env, InEngine, disk
  <2>2. But(engine', engine, {"ijournal"}) /\ engine'.ijournal = None /\ engine.ijournal # None
        /\ RestoredTo(root, engine, NInputs)
    BY <2>1 DEF EngineRec, But, UndoFacts
  <2>3. CASE Committed(engine)
    BY <1>0, <2>1, <2>2, <2>3 DEF Recovering, But, Committed, Settled, View
  <2>4. CASE ~Committed(engine)
    <3>1. root.input \in Ids /\ engine.ijournal.changed \subseteq Inputs
      BY <2>2 DEF RootRec, EngineRec, IJournalRec
    <3>2. \A i \in Inputs : i <= NInputs
      BY GenerationAssumption DEF Inputs
    <3>3. Restored(root, engine) = [i \in Inputs |-> root.input[i]]
      BY <2>2, <2>4, <3>1, <3>2 DEF Restored, RestoredTo
    <3>4. Restored(root, engine') = Restored(root, engine)
      BY <2>2, <3>1, <3>3 DEF Restored, Ids
    <3>5. Settled(root, engine') = Settled(root, engine)
      BY <2>2, <2>4, <3>4 DEF But, Settled, Committed
    <3> QED
      BY <1>0, <2>1, <3>5 DEF Recovering
  <2> QED
    BY <2>3, <2>4
<1>5. CASE InputsClean(p)
  <2>1. /\ loc[p].pc = "inputs_clean" /\ Goto(p, "inputs_clean_sync") /\ UNCHANGED <<root, droot, dengine, order>>
        /\ engine' = [engine EXCEPT !.ibackup = NoItems, !.temps = @ \ {"import.next", "import.journal.next"}]
    BY <1>5 DEF InputsClean, At, Quiet, env, InEngine, disk
  <2>2. But(engine', engine, {"ibackup"}) /\ engine.ijournal = None
    BY <2>1 DEF EngineRec, But, ImportFacts
  <2>3. Settled(root, engine') = Settled(root, engine)
    BY <2>2, SettledLoose DEF But
  <2> QED
    BY <1>0, <2>1, <2>3 DEF Recovering
<1> QED
  BY <1>1, <1>2, <1>3, <1>4, <1>5

\* publish before the commit: what it replaces the journal puts back.
LEMMA PublishRefines ==
    ASSUME IInv, AInv, IInv', NEW p \in Procs,
           \/ PubBackup(p) \/ PubExport(p) \/ PubJournal(p) \/ PubJournalRename(p)
           \/ PubRename(p) \/ PubSelect(p) \/ PubCommit(p)
    PROVE  [Atomic!Next]_(Atomic!vars)
<1> USE Types, HolderFacts, Have
<1>0. ASSUME NEW a, NEW l, loc[p].pc = a, Goto(p, l), a \in Publishing \ {"pub_commit_sync"},
             l \in Publishing \ {"pub_commit_sync"},
             UNCHANGED <<droot, dengine, order>>, Settled(root', engine') = Settled(root, engine)
      PROVE  [Atomic!Next]_(Atomic!vars)
  <2>1. loc[p].pc \in Locked \ Pending /\ Alone(p) /\ loc'[p].pc \notin Pending
    BY <1>0, GotoAlone DEF Locked, Pending, Publishing
  <2> QED
    BY <1>0, <2>1, OwnerRefinesFiles
<1>1. CASE PubBackup(p) \/ PubExport(p) \/ PubJournal(p) \/ PubCommit(p)
  <2>1. PICK h \in {<<"pub_backup", "pub_export">>, <<"pub_export", "pub_journal">>,
                    <<"pub_journal", "pub_journal_rename">>, <<"pub_commit", "pub_commit_rename">>} :
           /\ loc[p].pc = h[1] /\ Goto(p, h[2]) /\ UNCHANGED <<root, droot, dengine, order>>
           /\ But(engine', engine, {"backup"})
           /\ engine.journal = None \/ engine'.backup = engine.backup
    <3>1. CASE PubBackup(p)
      <4>1. loc[p].pc = "pub_backup" /\ Goto(p, "pub_export") /\ UNCHANGED <<root, droot, dengine, order>>
            /\ engine' = [engine EXCEPT !.backup = IF root.public = None THEN @ ELSE root.public]
        BY <3>1 DEF PubBackup, At, Quiet, env, InEngine, disk
      <4>2. But(engine', engine, {"backup"}) /\ engine.journal = None
        BY <4>1 DEF EngineRec, But, PubFacts, Ready, NoJournal
      <4> QED
        BY <4>1, <4>2
    <3>2. ASSUME NEW f, engine' = [engine EXCEPT !.temps = @ \cup f]
          PROVE  But(engine', engine, {"backup"}) /\ engine'.backup = engine.backup
      BY <3>2 DEF EngineRec, But
    <3>3. CASE PubExport(p)
      <4>1. /\ loc[p].pc = "pub_export" /\ Goto(p, "pub_journal") /\ UNCHANGED <<root, droot, dengine, order>>
            /\ engine' = [engine EXCEPT !.temps = @ \cup {"export.next"}]
        BY <3>3 DEF PubExport, At, Quiet, env, InEngine, disk
      <4> QED
        BY <3>2, <4>1
    <3>4. CASE PubJournal(p)
      <4>1. /\ loc[p].pc = "pub_journal" /\ Goto(p, "pub_journal_rename") /\ UNCHANGED <<root, droot, dengine, order>>
            /\ engine' = [engine EXCEPT !.temps = @ \cup {"journal.next"}]
        BY <3>4 DEF PubJournal, At, Quiet, env, InEngine, disk
      <4> QED
        BY <3>2, <4>1
    <3>5. CASE PubCommit(p)
      <4>1. /\ loc[p].pc = "pub_commit" /\ Goto(p, "pub_commit_rename") /\ UNCHANGED <<root, droot, dengine, order>>
            /\ engine' = [engine EXCEPT !.temps = @ \cup {"committed.next"}]
        BY <3>5 DEF PubCommit, At, Quiet, env, InEngine, disk
      <4> QED
        BY <3>2, <4>1
    <3> QED
      BY <1>1, <3>1, <3>3, <3>4, <3>5
  <2>2. Settled(root', engine') = Settled(root, engine)
    BY <2>1, SettledLoose DEF But
  <2> QED
    BY <1>0, <2>1, <2>2 DEF Publishing
<1>2. CASE PubJournalRename(p)
  <2>1. /\ loc[p].pc = "pub_journal_rename" /\ Goto(p, "pub_journal_sync") /\ UNCHANGED <<root, droot, dengine, order>>
        /\ engine' = [engine EXCEPT !.temps = @ \ {"journal.next"},
                         !.journal = [old |-> loc[p].old, present |-> root.public # None, next |-> loc[p].goal]]
    BY <1>2 DEF PubJournalRename, At, Quiet, env, InEngine, disk
  <2> DEFINE j == [old |-> loc[p].old, present |-> root.public # None, next |-> loc[p].goal]
  <2>2. But(engine', engine, {"journal"}) /\ engine'.journal = j
    BY <2>1 DEF EngineRec, But
  <2>3. j # None
    <3>1. loc[p].old \in Ids \cup {None} /\ loc[p].goal \in Ids /\ (root.public # None) \in BOOLEAN
      BY DEF LocRec
    <3>2. j \in JournalRec
      BY <3>1 DEF JournalRec
    <3> QED
      BY <3>2, NotNone
  <2>4. /\ engine.journal = None /\ engine.committed = None /\ loc[p].old = engine.current
        /\ engine.backup = root.public
    BY <2>1 DEF JournalFacts, Before, NoJournal
  <2>5. Restored(root, engine') = Restored(root, engine)
    BY <2>2 DEF But, Restored
  <2>6. j.old = engine.current /\ j.present = (root.public # None)
    BY <2>4
  <2> HIDE DEF j
  <2>7. Settled(root, engine') = Settled(root, engine)
    BY <2>2, <2>3, <2>4, <2>5, <2>6 DEF But, Settled
  <2> QED
    BY <1>0, <2>1, <2>7 DEF Publishing
<1>3. CASE PubSelect(p)
  <2>1. /\ loc[p].pc = "pub_select" /\ Goto(p, "pub_root_sync") /\ UNCHANGED <<root, droot, dengine, order>>
        /\ engine' = [engine EXCEPT !.current = loc[p].goal]
    BY <1>3 DEF PubSelect, At, Quiet, env, InEngine, disk
  <2>2. But(engine', engine, {"current"}) /\ engine.journal # None /\ engine.committed = None
    BY <2>1 DEF EngineRec, But, JournalFacts, After
  <2>3. Settled(root, engine') = Settled(root, engine)
    BY <2>2 DEF But, Settled, Restored
  <2> QED
    BY <1>0, <2>1, <2>3 DEF Publishing
<1>4. CASE PubRename(p)
  <2>1. /\ loc[p].pc = "pub_rename" /\ Goto(p, "pub_select") /\ UNCHANGED <<droot, dengine, order>>
        /\ root' = [root EXCEPT !.public = loc[p].goal] /\ engine' = [engine EXCEPT !.temps = @ \ {"export.next"}]
    BY <1>4 DEF PubRename, At, Quiet, env, InBoth, disk
  <2>2. But(engine', engine, {}) /\ root'.input = root.input
    BY <2>1 DEF EngineRec, RootRec, But
  <2>3. engine.journal # None /\ engine.committed = None
    BY <2>1 DEF JournalFacts, After
  <2>4. Settled(root', engine') = Settled(root, engine)
    BY <2>2, <2>3 DEF But, Settled, Restored
  <2> QED
    BY <1>0, <2>1, <2>4 DEF Publishing
<1> QED
  BY <1>1, <1>2, <1>3, <1>4

\* recover in ROOT: it puts back what would be put back.
LEMMA UndoRefines ==
    ASSUME IInv, AInv, IInv', NEW p \in Procs, UndoPublic(p) \/ RestoreInput(p)
    PROVE  [Atomic!Next]_(Atomic!vars)
<1> USE Types, HolderFacts, Have
<1>1. CASE UndoPublic(p)
  <2>1. /\ loc[p].pc = "undo_public" /\ UNCHANGED <<engine, droot, dengine, order>>
        /\ \E l \in {"publish_failed", "end", "undo_select"} : Goto(p, l)
        /\ root' = root \/ root' = [root EXCEPT !.public = IF engine.journal.present THEN engine.backup ELSE None]
    BY <1>1 DEF UndoPublic, At, Quiet, env, disk, Unrecovered
  <2>2. engine.journal # None /\ engine.committed = None /\ root'.input = root.input
    BY <2>1 DEF UndoFacts, RootRec
  <2>3. Settled(root', engine') = Settled(root, engine)
    BY <2>1, <2>2 DEF Settled, Restored
  <2>4. loc[p].pc \in Locked \ Pending /\ Alone(p)
    BY <2>1, GotoAlone DEF Locked, Pending, Recovering
  <2> QED
    BY <2>1, <2>2, <2>3, <2>4, OwnerRefinesFiles
<1>2. CASE RestoreInput(p)
  <2> DEFINE i == loc[p].k + 1
             v == IF i \in engine.ijournal.present THEN engine.ibackup[i] ELSE None
  <2>1. /\ loc[p].pc = "inputs" /\ UNCHANGED <<engine, droot, dengine, order>>
        /\ engine.ijournal # None /\ ~Committed(engine) /\ i \in Inputs
        /\ root' = root \/ (i \in engine.ijournal.changed /\ root' = [root EXCEPT !.input[i] = v])
    BY <1>2 DEF RestoreInput, At, env, disk
  <2>2. Alone(p) /\ loc'[p].pc \in {"inputs", Unrecovered(p)}
    BY <1>2, <2>1 DEF RestoreInput, LocRec, Alone
  <2>3. /\ root'.public = root.public
        /\ \A j \in Inputs \ engine.ijournal.changed : root'.input[j] = root.input[j]
    BY <2>1 DEF RootRec, Ids
  <2>4. Restored(root', engine) = Restored(root, engine)
    BY <2>1, <2>3 DEF Restored
  <2>5. Settled(root', engine') = Settled(root, engine)
    BY <2>1, <2>3, <2>4 DEF Settled, Committed
  <2>6. loc[p].pc \in Locked \ Pending
    BY <2>1 DEF Locked, Pending, Recovering
  <2>7. loc'[p].pc \in Pending => engine.committed = None
    BY <2>1, <2>2 DEF UndoFacts, Recovering, Unrecovered, Pending
  <2> HIDE DEF i
  <2> QED
    BY <2>1, <2>2, <2>5, <2>6, <2>7, OwnerRefinesFiles
<1> QED
  BY <1>1, <1>2

\* prepare_inputs: the import's journal puts back what it rewrites.
LEMMA PrepareRefines ==
    ASSUME IInv, AInv, IInv', NEW p \in Procs,
           \/ PrepBackup(p) \/ PrepJournal(p) \/ PrepJournalRename(p) \/ PrepInput(p) \/ PrepInputsDone(p)
    PROVE  [Atomic!Next]_(Atomic!vars)
<1> USE Types, HolderFacts, Have
<1>1. /\ loc[p].pc \in {"prep_backup", "prep_rename_journal", "prep_input"} /\ Alone(p)
      /\ loc'[p].pc \in Preparing /\ UNCHANGED <<droot, dengine, order>>
  BY DEF PrepBackup, PrepJournal, PrepJournalRename, PrepInput, PrepInputsDone, At, Goto, Alone,
         InEngine, disk, Quiet, env, Preparing, LocRec
<1>2. loc[p].pc \in Locked \ Pending /\ loc'[p].pc \notin Pending /\ engine.journal = None
  BY <1>1 DEF Locked, Ready, Preparing, Pending, PubFacts, NoJournal
<1>3. Settled(root', engine') = Settled(root, engine)
  <2>1. ASSUME NEW x, engine' = x, root' = root, But(x, engine, {"ibackup"}), engine.ijournal = None \/ x.ibackup = engine.ibackup
        PROVE  Settled(root', engine') = Settled(root, engine)
    BY <1>2, <2>1, SettledLoose DEF But
  <2>2. CASE PrepBackup(p)
    <3> DEFINE i == loc[p].k + 1
    <3>1. /\ root' = root /\ engine.ijournal = None
          /\ engine' = engine \/ \E b, t : engine' = [engine EXCEPT !.ibackup = b, !.temps = t]
      BY <2>2 DEF PrepBackup, At, InEngine, ImportFacts, NoIJournal
    <3>2. But(engine', engine, {"ibackup"})
      BY <3>1 DEF EngineRec, But
    <3> QED
      BY <2>1, <3>1, <3>2
  <2>3. CASE PrepJournal(p) \/ PrepInputsDone(p)
    <3>1. root' = root /\ \E t : engine' = [engine EXCEPT !.temps = t]
      BY <2>3 DEF PrepJournal, PrepInputsDone, InEngine
    <3>2. But(engine', engine, {}) 
      BY <3>1 DEF EngineRec, But
    <3> QED
      BY <2>1, <3>1, <3>2 DEF But
  <2>4. CASE PrepJournalRename(p)
    <3> DEFINE j == [changed |-> Changed(p), present |-> {i \in Inputs : loc[p].snap[i] # None}]
    <3>1. /\ loc[p].pc = "prep_rename_journal" /\ root' = root /\ engine.ijournal = None
          /\ engine' = [engine EXCEPT !.temps = @ \ {"import.journal.next"}, !.ijournal = j]
      BY <2>4 DEF PrepJournalRename, At, InEngine, ImportFacts, NoIJournal
    <3>2. But(engine', engine, {"ijournal"}) /\ engine'.ijournal = j
      BY <3>1 DEF EngineRec, But
    <3>3. j \in IJournalRec /\ j # None
      BY NotNone DEF IJournalRec, Changed
    <3>4. \A i \in Changed(p) : root.input[i] = loc[p].snap[i] /\ engine.ibackup[i] = loc[p].snap[i]
      BY <3>1 DEF PrepFacts, Changed, Rewrites
    <3>5. j.changed = Changed(p) /\ \A i \in Inputs : i \in j.present <=> loc[p].snap[i] # None
      OBVIOUS
    <3> HIDE DEF j
    <3>6. root.input \in Ids
      BY DEF RootRec
    <3>7. Restored(root, engine') = [i \in Inputs |-> root.input[i]]
      BY <3>2, <3>3, <3>4, <3>5 DEF Restored, But, Changed
    <3>8. Restored(root, engine') = Restored(root, engine)
      BY <3>1, <3>6, <3>7 DEF Restored, Ids
    <3> QED
      BY <1>2, <3>1, <3>2, <3>8 DEF Settled, But
  <2>5. CASE PrepInput(p)
    <3> DEFINE i == loc[p].k + 1
    <3>1. /\ loc[p].pc = "prep_input" /\ UNCHANGED engine
          /\ root' = root \/ (i \in Changed(p) /\ root' = [root EXCEPT !.input[i] = loc[p].goal[i]])
      BY <2>5 DEF PrepInput, At
    <3>2. engine.ijournal # None /\ engine.ijournal.changed = Changed(p)
      BY <3>1 DEF PrepFacts, Changed, Rewrites
    <3>3. /\ root'.public = root.public
          /\ \A j \in Inputs \ engine.ijournal.changed : root'.input[j] = root.input[j]
      BY <3>1, <3>2 DEF RootRec, Ids
    <3>4. Restored(root', engine) = Restored(root, engine)
      BY <3>2, <3>3 DEF Restored
    <3> QED
      BY <1>2, <3>1, <3>3, <3>4 DEF Settled
  <2> QED
    BY <2>2, <2>3, <2>4, <2>5
<1> QED
  BY <1>1, <1>2, <1>3, OwnerRefinesFiles

\* fsync by the owner.
LEMMA SyncRefines ==
    ASSUME IInv, AInv, IInv', NEW p \in Procs,
           \/ Clean2(p) \/ UndoEngineSync(p) \/ InputsEngineSync(p) \/ InputsUnlinkSync(p)
           \/ InputsCleanSync(p) \/ PubJournalSync(p) \/ PubEngineSync(p) \/ PrepSync(p)
           \/ UndoRootSync(p) \/ InputsRootSync(p) \/ PubRootSync(p) \/ PrepRootSync(p)
           \/ GensSync(p) \/ Clean4(p)
    PROVE  [Atomic!Next]_(Atomic!vars)
<1>1. Reaches(droot', dengine') /\ UNCHANGED <<root, engine>>
  BY SyncReaches DEF Clean2, UndoEngineSync, InputsEngineSync, InputsUnlinkSync, InputsCleanSync,
     PubJournalSync, PubEngineSync, PrepSync, UndoRootSync, InputsRootSync, PubRootSync, PrepRootSync,
     GensSync, Clean4, SyncJournal, files
<1>2. order' = order
  BY DEF Clean2, UndoEngineSync, InputsEngineSync, InputsUnlinkSync, InputsCleanSync,
     PubJournalSync, PubEngineSync, PrepSync, UndoRootSync, InputsRootSync, PubRootSync, PrepRootSync,
     GensSync, Clean4, Quiet, env
<1>3. CASE ~Clean4(p)
  <2>1. /\ loc[p].pc \in Locked \ Pending
        /\ \E l \in Pcs \ Pending : Goto(p, l)
    BY <1>3 DEF Clean2, UndoEngineSync, InputsEngineSync, InputsUnlinkSync, InputsCleanSync,
       PubJournalSync, PubEngineSync, PrepSync, UndoRootSync, InputsRootSync, PubRootSync, PrepRootSync,
       GensSync, At, Locked, Ready, Recovering, Publishing, Preparing, Building, Pcs, Pending
  <2>2. Alone(p) /\ loc'[p].pc \notin Pending
    BY <2>1, GotoAlone
  <2> QED
    BY <1>1, <1>2, <2>1, <2>2, OwnerRefines
<1>4. CASE Clean4(p)
  <2>1. loc[p].pc = "clean_end" /\ Goto(p, loc[p].ret)
    BY <1>4 DEF Clean4, At
  <2>2. loc[p].pc \in Locked \ Pending /\ Alone(p) /\ engine.journal = None
    BY <2>1, GotoAlone, HolderFacts DEF Locked, Recovering, Pending, PubFacts, NoJournal
  <2> QED
    BY <1>1, <1>2, <2>2, OwnerRefines
<1> QED
  BY <1>3, <1>4

\* A decision of recover.
LEMMA RecoverDecisionRefines ==
    ASSUME IInv, AInv, IInv', NEW p \in Procs, Recover(p) \/ InputsRestored(p)
    PROVE  [Atomic!Next]_(Atomic!vars)
<1>1. UNCHANGED <<root, engine, droot, dengine, order>> /\ loc[p].pc \in {"recover", "inputs"}
  BY DEF Recover, InputsRestored, At, Quiet, env, files, disk
<1>2. Alone(p) /\ loc'[p].pc \in Recovering \cup {Unrecovered(p)}
  <2>1. CASE Recover(p)
    <3>1. \E l \in Recovering \cup {Unrecovered(p)} : Goto(p, l)
      BY <2>1 DEF Recover, Recovering
    <3> QED
      BY <3>1, GotoAlone
  <2>2. CASE InputsRestored(p)
    BY <2>2, Types DEF InputsRestored, LocRec, Alone, Recovering
  <2> QED
    BY <2>1, <2>2
<1>3. loc[p].pc \in Locked \ Pending
  BY <1>1 DEF Locked, Pending, Recovering
<1>4. loc'[p].pc \in Pending => engine.committed = None
  BY <1>1, <1>2, Have DEF UndoFacts, Recovering, Unrecovered, Pending
<1> QED
  BY <1>1, <1>2, <1>3, <1>4, OwnerRefinesFiles

\* Steps that change nothing but the invocation's locals, and Start.
LEMMA LocalRefines ==
    ASSUME IInv, AInv, NEW p \in Procs,
           \/ Decide(p) \/ Install(p) \/ ImportRead(p) \/ ImportCheck(p) \/ ImportRecheck(p)
           \/ Lock(p) \/ Selected(p) \/ Snapshot(p) \/ Warm(p) \/ Build(p) \/ Recheck(p) \/ EndAt(p)
           \/ \E kind \in Kinds : Start(p, kind)
    PROVE  [Atomic!Next]_(Atomic!vars)
<1>1. UNCHANGED <<root, engine>> /\ order' = order
  BY DEF Decide, Install, ImportRead, ImportCheck, ImportRecheck, Lock, Selected, Snapshot, Warm,
     Build, Recheck, EndAt, Start, Quiet, env, files
<1>2. Reaches(droot', dengine')
  <2>1. CASE \E kind \in Kinds : Start(p, kind)
    BY <2>1, SyncReaches DEF Start
  <2>2. CASE ~ \E kind \in Kinds : Start(p, kind)
    BY <2>2, Reached DEF Decide, Install, ImportRead, ImportCheck, ImportRecheck, Lock, Selected, Snapshot, Warm,
       Build, Recheck, EndAt, disk
  <2> QED
    BY <2>1, <2>2
<1>3. loc[p].pc \notin Pending
  BY DEF Decide, Install, ImportRead, ImportCheck, ImportRecheck, Lock, Selected, Snapshot, Warm,
     Build, Recheck, EndAt, Start, At, Pending
<1>4. Alone(p) /\ loc'[p].pc \notin Pending
  <2> USE Types DEF Pending
  <2>1. CASE \/ Decide(p) \/ Install(p) \/ ImportCheck(p) \/ ImportRecheck(p) \/ Lock(p)
    <3>1. PICK l \in {"end", "pub_backup", "gens_sync", "install", "decide", "prep_backup", "recover"} : Goto(p, l)
      BY <2>1 DEF Decide, Install, ImportCheck, ImportRecheck, Lock
    <3> QED
      BY <3>1, GotoAlone
  <2>2. CASE ImportRead(p)
    <3>1. PICK g : loc' = [loc EXCEPT ![p].snap = root.input, ![p].old = engine.current, ![p].goal = g,
                                      ![p].pc = "import_check"]
      <4>1. PICK changed \in SUBSET (Inputs \ Editable) :
               loc' = [loc EXCEPT ![p].snap = root.input, ![p].old = engine.current,
                         ![p].goal = [i \in Inputs |-> IF i \in changed THEN Imported ELSE root.input[i]],
                         ![p].pc = "import_check"]
        BY <2>2 DEF ImportRead
      <4> QED
        BY <4>1
    <3> QED
      BY <3>1 DEF LocRec, Alone
  <2>3. CASE Selected(p)
    BY <2>3 DEF Selected, LocRec, Alone
  <2>4. CASE EndAt(p)
    BY <2>4 DEF EndAt, End, Idle, Alone
  <2>5. CASE \E kind \in Kinds : Start(p, kind)
    BY <2>5 DEF Start, Idle, Alone
  <2>6. ASSUME Retry(p) PROVE Alone(p) /\ loc'[p].pc \notin Pending
    BY <2>6 DEF Retry, LocRec, Alone
  <2>7. ASSUME NEW l, Goto(p, l), l \notin Pending PROVE Alone(p) /\ loc'[p].pc \notin Pending
    BY <2>7, GotoAlone
  <2>8. CASE Snapshot(p)
    <3>1. CASE loc' = [loc EXCEPT ![p].snap = root.input, ![p].goal = root.input,
                                ![p].pc = IF loc[p].prev = root.input THEN "warm" ELSE "build"]
      BY <3>1 DEF LocRec, Alone
    <3> QED
      BY <2>6, <2>7, <2>8, <3>1 DEF Snapshot
  <2>9. CASE Warm(p)
    BY <2>6, <2>7, <2>9 DEF Warm
  <2>10. CASE Build(p)
    <3>1. CASE loc' = [loc EXCEPT ![p].pc = "recover", ![p].ret = "recheck"]
      BY <3>1 DEF LocRec, Alone
    <3> QED
      BY <2>7, <2>10, <3>1 DEF Build
  <2>11. CASE Recheck(p)
    <3>1. CASE loc' = [loc EXCEPT ![p].old = engine.current, ![p].pc = "install"]
      BY <3>1 DEF LocRec, Alone
    <3> QED
      BY <2>6, <2>11, <3>1 DEF Recheck
  <2> QED
    BY <2>1, <2>2, <2>3, <2>4, <2>5, <2>8, <2>9, <2>10, <2>11
<1> QED
  BY <1>1, <1>2, <1>3, <1>4, AwayRefines DEF Alone

\* A publication is reported, or taken back, or stands with nobody knowing.
LEMMA Outcomes ==
    ASSUME order' = order,
           order # "entry" =>
              \/ Now' = Now /\ Base' = Now /\ OnDisk' \in {Now, OnDisk}
              \/ Now' = Base /\ Base' = Base /\ OnDisk' = OnDisk
    PROVE  [Atomic!Next]_(Atomic!vars)
<1>1. CASE order = "entry"
  BY <1>1, Mapping DEF Maps, Atomic!vars
<1>2. CASE order # "entry"
  BY <1>2, Mapping DEF Maps, Atomic!vars, Atomic!Next, Atomic!Report, Atomic!Withdraw, Atomic!Stand
<1> QED
  BY <1>1, <1>2

\* The marker is durable.
LEMMA PubCommitSyncRefines ==
    ASSUME IInv, AInv, IInv', NEW p \in Procs, PubCommitSync(p)
    PROVE  [Atomic!Next]_(Atomic!vars)
<1>1. /\ loc[p].pc = "pub_commit_sync" /\ order' = order /\ SyncEngine /\ End(p)
  BY DEF PubCommitSync, At, env
<1>2. UNCHANGED <<root, engine>> /\ dengine' = engine /\ droot' \in {root, droot}
  BY <1>1 DEF SyncEngine, SyncAll, files
<1>3. droot.public = root.public /\ droot.input = root.input
  BY <1>1, Have DEF JournalFacts, After
<1>4. Alone(p) /\ loc'[p].pc = "idle"
  BY <1>1, Types DEF End, Alone, Idle
<1>5. ~Unreported'
  BY <1>1, <1>4, OwnerPending DEF Locked, Publishing, Pending
<1>6. Now' = Now /\ Base' = Now
  BY <1>2, <1>5 DEF Now, Base
<1>7. OnDisk' = Now
  BY <1>2, <1>3, SettledLoose DEF OnDisk, Now, But
<1> QED
  BY <1>1, <1>6, <1>7, Outcomes

\* Removing the marker takes back what is committed and not reported.
LEMMA RevokeRefines ==
    ASSUME IInv, AInv, IInv', NEW p \in Procs, Abort(p) \/ Undo(p)
    PROVE  [Atomic!Next]_(Atomic!vars)
<1>1. /\ loc[p].pc \in {"abort", "undo"} /\ engine' = Revoked(engine)
      /\ UNCHANGED <<root, droot, dengine, order>>
  BY DEF Abort, Undo, At, Quiet, env, InEngine, disk, Revoked
<1>2. Alone(p) /\ loc'[p].pc \in {"recover", "clean"}
  BY Types DEF Abort, Undo, Alone, LocRec
<1>3. Unreported /\ ~Unreported'
  BY <1>1, <1>2, OwnerPending DEF Locked, Pending
<1>4. Now' = Base /\ Base' = Base /\ OnDisk' = OnDisk
  BY <1>1, <1>3 DEF Now, Base, OnDisk
<1> QED
  BY <1>1, <1>4, Outcomes

\* publish has failed, or the invocation is killed.
LEMMA LeaveRefines ==
    ASSUME IInv, AInv, IInv', NEW p \in Procs, PublishFailed(p) \/ Kill(p)
    PROVE  [Atomic!Next]_(Atomic!vars)
<1>1. UNCHANGED <<root, engine, droot, dengine, order>>
  BY DEF PublishFailed, Kill, Quiet, env, files, disk
<1>2. /\ Alone(p) /\ loc'[p].pc \in {"undo", "end", "idle"}
      /\ loc'[p].pc = "undo" => loc[p].pc = "publish_failed"
  <2>1. CASE PublishFailed(p)
    <3>1. PICK l \in {"undo", "end"} : Goto(p, l)
      BY <2>1 DEF PublishFailed
    <3> QED
      BY <2>1, <3>1, GotoAlone DEF PublishFailed, At
  <2>2. CASE Kill(p)
    BY <2>2, Types DEF Kill, End, Alone, Idle
  <2> QED
    BY <2>1, <2>2
<1>3. CASE loc[p].pc \in Pending
  <2>1. Unreported /\ (Unreported' <=> loc'[p].pc = "undo")
    BY <1>2, <1>3, OwnerPending DEF Locked, Publishing, Pending
  <2>2. Now' = Now /\ OnDisk' = OnDisk
    BY <1>1 DEF Now, OnDisk
  <2>3. CASE loc'[p].pc = "undo"
    <3>1. Base' = Base
      BY <1>1, <2>1, <2>3 DEF Base, Revoked
    <3> QED
      BY <1>1, <2>2, <3>1, Stutters
  <2>4. CASE loc'[p].pc # "undo"
    <3>1. Base' = Now
      BY <1>1, <2>1, <2>4 DEF Base, Now
    <3> QED
      BY <1>1, <2>2, <3>1, Outcomes
  <2> QED
    BY <2>3, <2>4
<1>4. CASE loc[p].pc \notin Pending
  <2>1. loc'[p].pc \notin Pending
    BY <1>2, <1>4 DEF Pending
  <2> QED
    BY <1>1, <1>2, <1>4, <2>1, Reached, AwayRefines DEF Alone
<1> QED
  BY <1>3, <1>4

\* An I/O failure changes nothing that is found.
LEMMA FailRefines ==
    ASSUME IInv, AInv, IInv', NEW p \in Procs, Fail(p)
    PROVE  [Atomic!Next]_(Atomic!vars)
<1>1. /\ loc[p].pc \in Checked /\ engine' \in LeftBehind(p)
      /\ UNCHANGED <<order, root, droot, dengine>>
      /\ loc' = [loc EXCEPT ![p].pc = OnError(p), ![p].k = 0]
  BY DEF Fail, disk
<1>2. Alone(p) /\ loc'[p].pc = OnError(p)
  BY <1>1, Types DEF Alone, LocRec
<1>3. /\ But(engine', engine, {"backup", "ibackup"})
      /\ engine.journal = None \/ engine'.backup = engine.backup
      /\ engine.ijournal = None \/ engine'.ibackup = engine.ibackup
      /\ loc[p].pc \in {"pub_commit_sync", "abort"} => engine' = engine
  BY <1>1, LeftBehindLoose DEF NoJournal, NoIJournal
<1>4. Settled(root', engine') = Settled(root, engine)
  BY <1>1, <1>3, SettledLoose DEF But
<1>5. CASE loc[p].pc \in Pending
  <2>1. loc[p].pc \in {"pub_commit_sync", "abort"}
    BY <1>1, <1>5 DEF Pending, Checked, Recovering, Publishing, Preparing, Building
  <2>2. loc'[p].pc \in Pending
    BY <1>2, <2>1 DEF OnError, Pending, Recovering, Publishing
  <2>3. Unreported /\ Unreported'
    BY <1>2, <1>5, <2>2, OwnerPending DEF Locked, Publishing, Pending
  <2>4. Now' = Now /\ Base' = Base /\ OnDisk' = OnDisk
    BY <1>1, <1>3, <2>1, <2>3 DEF Now, Base, OnDisk, Revoked
  <2> QED
    BY <1>1, <2>4, Stutters
<1>6. CASE loc[p].pc \in Locked \ Pending
  <2>1. OnError(p) \in Pending => engine.committed = None
    <3>1. CASE loc[p].pc \in Recovering
      BY <3>1, Have DEF UndoFacts, OnError, Unrecovered, Pending
    <3>2. CASE loc[p].pc \in Before \cup {"pub_journal_sync"} \cup (After \ {"pub_commit_sync"})
      BY <3>2, Have DEF JournalFacts
    <3>3. CASE loc[p].pc \notin Recovering \cup Before \cup {"pub_journal_sync"} \cup (After \ {"pub_commit_sync"})
      BY <1>6, <3>3 DEF OnError, Pending, Locked, Before, After, Ready, Recovering, Publishing, Preparing
    <3> QED
      BY <3>1, <3>2, <3>3
  <2>2. loc'[p].pc \in Pending => engine'.committed = None
    BY <1>2, <1>3, <2>1 DEF But
  <2> QED
    BY <1>1, <1>2, <1>4, <1>6, <2>2, OwnerRefinesFiles
<1>7. CASE loc[p].pc \notin Locked
  <2>1. engine' = engine /\ OnError(p) = "end"
    BY <1>1, <1>7 DEF LeftBehind, OnError, Locked, Ready, Recovering, Publishing, Preparing, Building, Checked
  <2>2. loc[p].pc \notin Pending /\ loc'[p].pc \notin Pending
    BY <1>2, <1>7, <2>1 DEF Pending, Locked, Publishing
  <2> QED
    BY <1>1, <1>2, <2>1, <2>2, Reached, AwayRefines DEF Alone
<1> QED
  BY <1>5, <1>6, <1>7

\* The legacy exporter replaces the export and nothing else.
LEMMA LegacyRefines ==
    ASSUME IInv, AInv, IInv', NEW p \in Procs, LegacyExport(p)
    PROVE  [Atomic!Next]_(Atomic!vars)
<1>1. /\ loc[p].pc = "legacy" /\ Goto(p, "end") /\ root' = [root EXCEPT !.public = Legacy]
      /\ UNCHANGED <<engine, droot, dengine, order>>
  BY DEF LegacyExport, At, env, disk
<1>2. Alone(p) /\ loc'[p].pc = "end"
  BY <1>1, GotoAlone
<1>3. ~Unreported /\ ~Unreported'
  BY <1>1, <1>2, OwnerPending DEF Locked, Pending
<1>4. engine.journal = None
  BY <1>1, Have DEF JournalFacts, NoJournal
<1>5. root'.public = Legacy /\ root'.input = root.input
  BY <1>1, Types DEF RootRec
<1>6. Now = ViewOf(engine.current, root.public, Restored(root, engine))
  BY <1>4 DEF Now, Settled, ViewOf
<1>7. Now' = ViewOf(engine.current, Legacy, Restored(root, engine))
  BY <1>1, <1>4, <1>5 DEF Now, Settled, Restored, ViewOf
<1>8. Now' = [Now EXCEPT !.pub = Legacy]
  BY <1>6, <1>7 DEF ViewOf
<1>9. Base = Now /\ Base' = Now' /\ OnDisk' = OnDisk
  BY <1>1, <1>3 DEF Base, Now, OnDisk
<1>10. CASE order = "entry"
  BY <1>1, <1>10, Mapping DEF Maps, Atomic!vars
<1>11. CASE order # "entry"
  BY <1>1, <1>8, <1>9, <1>11, Mapping DEF Maps, Atomic!Next, Atomic!Export
<1> QED
  BY <1>10, <1>11

\* The user's edit shows in whatever is found.
LEMMA EditSettled ==
    ASSUME NEW r \in RootRec, NEW e \in EngineRec, NEW y \in RootRec, NEW i \in Editable, NEW v \in Versions,
           Edited(y, r, i, v), e.ijournal # None => e.ijournal.changed \cap Editable = {}
    PROVE  /\ Settled(y, e) = [Settled(r, e) EXCEPT !.input[i] = v]
           /\ Settled(r, e).input[i] = r.input[i]
<1>1. Restored(y, e) = [Restored(r, e) EXCEPT ![i] = v]
  BY EditRestored
<1>2. ASSUME NEW c, NEW q, NEW in
      PROVE  [ViewOf(c, q, in) EXCEPT !.input[i] = v] = ViewOf(c, q, [in EXCEPT ![i] = v])
  BY DEF ViewOf
<1>3. Restored(r, e)[i] = r.input[i]
  BY GenerationAssumption DEF Restored
<1>4. PICK c, q, in : in \in {r.input, Restored(r, e)} /\
         Settled(r, e) = ViewOf(c, q, in) /\ Settled(y, e) = ViewOf(c, q, [in EXCEPT ![i] = v])
  <2>1. CASE e.journal = None
    <3>1. Settled(r, e) = ViewOf(e.current, r.public, Restored(r, e))
      BY <2>1 DEF Settled, ViewOf
    <3>2. Settled(y, e) = ViewOf(e.current, r.public, [Restored(r, e) EXCEPT ![i] = v])
      BY <1>1, <2>1 DEF Settled, ViewOf, Edited
    <3> QED
      BY <3>1, <3>2
  <2>2. CASE e.journal # None /\ e.committed # None
    <3>1. Settled(r, e) = ViewOf(e.current, r.public, r.input)
      BY <2>2 DEF Settled, View, ViewOf
    <3>2. Settled(y, e) = ViewOf(e.current, r.public, [r.input EXCEPT ![i] = v])
      BY <2>2 DEF Settled, View, ViewOf, Edited
    <3> QED
      BY <3>1, <3>2
  <2>3. CASE e.journal # None /\ e.committed = None
    <3>1. Settled(r, e) = ViewOf(e.journal.old, OldPublic(e), Restored(r, e))
      BY <2>3 DEF Settled, ViewOf, OldPublic
    <3>2. Settled(y, e) = ViewOf(e.journal.old, OldPublic(e), [Restored(r, e) EXCEPT ![i] = v])
      BY <1>1, <2>3 DEF Settled, ViewOf, OldPublic
    <3> QED
      BY <3>1, <3>2
  <2> QED
    BY <2>1, <2>2, <2>3
<1>5. Settled(r, e).input = in
  BY <1>4 DEF ViewOf
<1> QED
  BY <1>2, <1>3, <1>4, <1>5

\* The user edits an input.
LEMMA EditRefines ==
    ASSUME IInv, AInv, NEW i \in Editable, NEW v \in Versions, Edit(i, v)
    PROVE  [Atomic!Next]_(Atomic!vars)
<1>0. i \in Inputs /\ v \in Contents
  BY GenerationAssumption DEF Contents
<1>1. ASSUME NEW r \in RootRec
      PROVE  \E y \in RootRec : [r EXCEPT !.input[i] = v] = y /\ Edited(y, r, i, v)
  <2> DEFINE in == [r.input EXCEPT ![i] = v]
             y == [r EXCEPT !.input = in]
  <2>1. in \in Ids
    BY <1>0 DEF RootRec, Ids, Contents
  <2>2. [r EXCEPT !.input[i] = v] = y
    OBVIOUS
  <2> HIDE DEF in
  <2>3. y \in RootRec /\ y.public = r.public /\ y.input = in
    BY <2>1 DEF RootRec
  <2> HIDE DEF y
  <2> QED
    BY <2>2, <2>3 DEF Edited, in
<1>2. PICK y \in RootRec : root' = y /\ Edited(y, root, i, v)
  BY <1>1, Types DEF Edit
<1>3. PICK z \in RootRec : droot' = z /\ Edited(z, droot, i, v)
  BY <1>1, Types DEF Edit
<1>4. UNCHANGED <<engine, dengine, loc, order>> /\ v # root.input[i]
  BY DEF Edit, env
<1>5. /\ engine.ijournal # None => engine.ijournal.changed \cap Editable = {}
      /\ dengine.ijournal # None => dengine.ijournal.changed \cap Editable = {}
  BY DEF AInv, Shape, Imports
<1>6. Now' = [Now EXCEPT !.input[i] = v] /\ Now.input[i] = root.input[i]
  BY <1>2, <1>4, <1>5, Types, EditSettled DEF Now
<1>7. OnDisk' = [OnDisk EXCEPT !.input[i] = v]
  BY <1>3, <1>4, <1>5, Types, EditSettled DEF OnDisk
<1>8. Base' = [Base EXCEPT !.input[i] = v]
  <2>1. Revoked(engine) \in EngineRec /\ Revoked(engine).ijournal = engine.ijournal
    BY Types, RevokedSame DEF But
  <2>2. Unreported' <=> Unreported
    BY <1>4 DEF Unreported
  <2>3. CASE Unreported
    <3>1. Settled(y, Revoked(engine)) = [Settled(root, Revoked(engine)) EXCEPT !.input[i] = v]
      BY <1>2, <1>5, <2>1, Types, EditSettled
    <3>2. Base = Settled(root, Revoked(engine)) /\ Base' = Settled(y, Revoked(engine))
      BY <1>2, <1>4, <2>2, <2>3 DEF Base, Revoked
    <3> QED
      BY <3>1, <3>2
  <2>4. CASE ~Unreported
    <3>1. Base = Now /\ Base' = Now'
      BY <1>2, <1>4, <2>2, <2>4 DEF Base, Now
    <3> QED
      BY <1>6, <3>1
  <2> QED
    BY <2>3, <2>4
<1>9. CASE order = "entry"
  BY <1>4, <1>9, Mapping DEF Maps, Atomic!vars
<1>10. CASE order # "entry"
  <2>1. Atomic!Edit(i, v)
    BY <1>4, <1>6, <1>7, <1>8, <1>10, Mapping DEF Maps, Atomic!Edit
  <2> QED
    BY <1>0, <2>1 DEF Atomic!Next
<1> QED
  BY <1>9, <1>10

\* Entries reach the disk on their own.
LEMMA WritebackRefines ==
    ASSUME IInv, AInv, WritebackAll \/ WritebackDirectory \/ WritebackEntry
    PROVE  [Atomic!Next]_(Atomic!vars)
<1>1. UNCHANGED <<root, engine, loc, order>>
  BY DEF WritebackAll, WritebackDirectory, WritebackEntry, files, env
<1>2. CASE order = "entry"
  BY <1>1, <1>2, Mapping DEF Maps, Atomic!vars
<1>3. CASE order # "entry"
  <2>1. Reaches(droot', dengine')
    BY <1>3, Reached DEF WritebackAll, WritebackDirectory, WritebackEntry, SyncAll
  <2> QED
    BY <1>1, <2>1, AwayRefines
<1> QED
  BY <1>2, <1>3

\* The power fails: what is found is what the disk holds.
LEMMA PowerLossRefines ==
    ASSUME PowerLoss
    PROVE  [Atomic!Next]_(Atomic!vars)
<1>1. /\ root' = droot /\ engine' = dengine /\ UNCHANGED <<droot, dengine, order>>
      /\ loc' = [p \in Procs |-> Idle]
  BY DEF PowerLoss, disk
<1>2. ~Unreported'
  BY <1>1 DEF Unreported, Idle
<1>3. Now' = OnDisk /\ Base' = OnDisk /\ OnDisk' = OnDisk
  BY <1>1, <1>2 DEF Now, Base, OnDisk
<1>4. CASE order = "entry"
  BY <1>1, <1>4, Mapping DEF Maps, Atomic!vars
<1>5. CASE order # "entry"
  BY <1>1, <1>3, <1>5, Mapping DEF Maps, Atomic!Next, Atomic!PowerLoss
<1> QED
  BY <1>4, <1>5

\* Of the inputs that an import's journal names, those up to k have their new contents;
\* after the loop all have them, until the publication ends.
Rewriting == {"prep_input", "prep_root_sync", "decide"} \cup Publishing

Rewrote(l, r, e) ==
    l.pc \in Rewriting /\ e.ijournal # None =>
        \A i \in e.ijournal.changed : (l.pc = "prep_input" => i <= l.k) => r.input[i] = l.goal[i]

RInv == \A p \in Procs : Rewrote(loc[p], root, engine)

\* A step of the owner.
LEMMA RewroteOwner ==
    ASSUME IInv, NEW p \in Procs, loc[p].pc \in Locked, Alone(p), Rewrote(loc'[p], root', engine')
    PROVE  RInv'
<1>1. \A q \in Procs \ {p} : loc[q].pc \notin Locked
  BY DEF IInv, LockInv
<1>2. \A q \in Procs \ {p} : loc'[q].pc \notin Rewriting
  BY <1>1 DEF Alone, Rewriting, Locked, Ready, Preparing
<1> QED
  BY <1>2 DEF RInv, Rewrote

\* A step of an invocation that leaves those steps, or was not there.
LEMMA RewroteAway ==
    ASSUME RInv, UNCHANGED <<root, engine>>,
           \A q \in Procs : loc'[q] = loc[q] \/ loc'[q].pc \notin Rewriting
    PROVE  RInv'
BY DEF RInv, Rewrote

\* A step of the publication.
LEMMA RewroteKeeps ==
    ASSUME IInv, RInv, NEW p \in Procs, loc[p].pc \in Rewriting \ {"prep_input"}, Alone(p),
           loc'[p].pc # "prep_input", loc'[p].goal = loc[p].goal,
           root'.input = root.input, engine'.ijournal = engine.ijournal
    PROVE  RInv'
<1>1. Rewrote(loc[p], root, engine)
  BY DEF RInv
<1>2. Rewrote(loc'[p], root', engine')
  BY <1>1 DEF Rewrote
<1>3. loc[p].pc \in Locked
  BY DEF Rewriting, Locked, Ready, Preparing
<1> QED
  BY <1>2, <1>3, RewroteOwner

LEMMA PublishRewrote ==
    ASSUME IInv, RInv, NEW p \in Procs,
           \/ PubBackup(p) \/ PubExport(p) \/ PubJournal(p) \/ PubJournalRename(p) \/ PubJournalSync(p)
           \/ PubRename(p) \/ PubSelect(p) \/ PubRootSync(p) \/ PubEngineSync(p)
           \/ PubCommit(p) \/ PubCommitRename(p) \/ PrepRootSync(p) \/ Decide(p)
    PROVE  RInv'
<1>1. /\ loc[p].pc \in Rewriting \ {"prep_input"}
      /\ \E l \in Publishing \cup {"decide", "end"} : Goto(p, l)
  BY DEF PubBackup, PubExport, PubJournal, PubJournalRename, PubJournalSync, PubRename, PubSelect,
     PubRootSync, PubEngineSync, PubCommit, PubCommitRename, PrepRootSync, Decide, At, Rewriting, Publishing
<1>2. Alone(p) /\ loc'[p].pc # "prep_input" /\ loc'[p].goal = loc[p].goal
  BY <1>1, GotoAlone DEF Publishing
<1>3. root'.input = root.input /\ engine'.ijournal = engine.ijournal
  <2> USE Types DEF RootRec, EngineRec
  <2>1. CASE PubJournalSync(p) \/ PubRootSync(p) \/ PubEngineSync(p) \/ PrepRootSync(p) \/ Decide(p)
    BY <2>1 DEF PubJournalSync, PubRootSync, PubEngineSync, PrepRootSync, Decide, SyncJournal, SyncEngine, SyncRoot, files
  <2>2. CASE PubBackup(p) \/ PubExport(p) \/ PubJournal(p) \/ PubCommit(p)
    BY <2>2 DEF PubBackup, PubExport, PubJournal, PubCommit, InEngine
  <2>3. CASE PubJournalRename(p)
    <3>1. \E t, j : engine' = [engine EXCEPT !.temps = t, !.journal = j] /\ root' = root
      BY <2>3 DEF PubJournalRename, InEngine
    <3> QED
      BY <3>1
  <2>4. CASE PubRename(p)
    BY <2>4 DEF PubRename, InBoth
  <2>5. CASE PubSelect(p) \/ PubCommitRename(p)
    BY <2>5 DEF PubSelect, PubCommitRename, InEngine
  <2> QED
    BY <2>1, <2>2, <2>3, <2>4, <2>5
<1> QED
  BY <1>1, <1>2, <1>3, RewroteKeeps

\* prepare_inputs renames the new contents over the inputs one by one.
LEMMA PrepareRewrote ==
    ASSUME IInv, AInv, RInv, NEW p \in Procs,
           PrepSync(p) \/ PrepInput(p) \/ PrepInputsDone(p) \/ GensSync(p) \/ ImportRecheck(p)
    PROVE  RInv'
<1> USE Types, HolderFacts, Have
<1>1. loc[p].pc \in {"prep_sync", "prep_input", "gens_sync", "import_recheck"} /\ Alone(p)
  BY DEF PrepSync, PrepInput, PrepInputsDone, GensSync, ImportRecheck, At, Goto, Alone, LocRec
<1>2. loc[p].pc \in Locked
  BY <1>1 DEF Locked, Ready, Preparing
<1>3. CASE GensSync(p) \/ ImportRecheck(p)
  <2>1. loc[p].pc \in {"gens_sync", "import_recheck"} /\ UNCHANGED engine
    BY <1>3 DEF GensSync, ImportRecheck, At, files
  <2>2. engine'.ijournal = None
    BY <2>1 DEF ImportFacts, InputsSwept
  <2> QED
    BY <1>1, <1>2, <2>2, RewroteOwner DEF Rewrote
<1>4. CASE PrepSync(p)
  <2>1. loc[p].pc = "prep_sync" /\ Goto(p, "prep_input") /\ UNCHANGED engine
    BY <1>4 DEF PrepSync, At, SyncJournal, SyncEngine, files
  <2>2. loc'[p].pc = "prep_input" /\ loc'[p].k = 0
    BY <2>1, GotoAlone DEF PrepFacts, Sane
  <2>3. engine.ijournal # None => \A i \in engine.ijournal.changed : ~(i <= 0)
    BY GenerationAssumption DEF EngineRec, IJournalRec, Inputs
  <2> QED
    BY <1>1, <1>2, <2>1, <2>2, <2>3, RewroteOwner DEF Rewrote
<1>5. CASE PrepInputsDone(p)
  <2>1. /\ loc[p].pc = "prep_input" /\ loc[p].k = NInputs /\ root' = root
        /\ engine' = [engine EXCEPT !.temps = @ \ {"import.next"}]
        /\ loc' = [loc EXCEPT ![p].k = 0, ![p].pc = "prep_root_sync"]
    BY <1>5 DEF PrepInputsDone, At, InEngine
  <2>2. /\ engine'.ijournal = engine.ijournal /\ loc'[p].pc = "prep_root_sync" /\ loc'[p].goal = loc[p].goal
    BY <2>1 DEF EngineRec, LocRec
  <2>3. engine.ijournal # None => \A i \in engine.ijournal.changed : i <= NInputs
    BY GenerationAssumption DEF EngineRec, IJournalRec, Inputs
  <2>4. Rewrote(loc[p], root, engine)
    BY DEF RInv
  <2>5. Rewrote(loc'[p], root', engine')
    BY <2>1, <2>2, <2>3, <2>4 DEF Rewrote, Rewriting
  <2> QED
    BY <1>1, <1>2, <2>5, RewroteOwner
<1>6. CASE PrepInput(p)
  <2> DEFINE i == loc[p].k + 1
  <2>1. /\ loc[p].pc = "prep_input" /\ UNCHANGED engine /\ i \in Inputs
        /\ root' = IF i \in Changed(p) THEN [root EXCEPT !.input[i] = loc[p].goal[i]] ELSE root
        /\ loc' = [loc EXCEPT ![p].k = i]
    BY <1>6 DEF PrepInput, At
  <2>2. loc'[p].pc = "prep_input" /\ loc'[p].goal = loc[p].goal /\ loc'[p].k = i /\ loc[p].k \in Nat
    BY <2>1, GenerationAssumption DEF LocRec
  <2>3. engine.ijournal # None /\ engine.ijournal.changed = Changed(p)
    BY <2>1 DEF PrepFacts, Changed, Rewrites
  <2>4. root.input \in Ids
    BY DEF RootRec
  <2>5. \A j \in Changed(p) : root'.input[j] = IF j = i THEN loc[p].goal[i] ELSE root.input[j]
    BY <2>1, <2>4 DEF RootRec, Ids, Changed
  <2>6. \A j \in Changed(p) : j <= loc[p].k => root.input[j] = loc[p].goal[j]
    BY <2>1, <2>3 DEF RInv, Rewrote, Rewriting
  <2>7. \A j \in Changed(p) : j <= i => j = i \/ j <= loc[p].k
    BY <2>2, GenerationAssumption DEF Changed, Inputs
  <2>8. Rewrote(loc'[p], root', engine')
    BY <2>1, <2>2, <2>3, <2>5, <2>6, <2>7 DEF Rewrote
  <2> QED
    BY <1>1, <1>2, <2>8, RewroteOwner
<1> QED
  BY <1>3, <1>4, <1>5, <1>6

\* A step of the owner to elsewhere.
LEMMA ElsewhereRewrote ==
    ASSUME IInv, NEW p \in Procs, loc[p].pc \in Locked, Alone(p), loc'[p].pc \notin Rewriting
    PROVE  RInv'
BY RewroteOwner DEF Rewrote

\* recover goes on in recover, or returns.
LEMMA RecoverElsewhere ==
    ASSUME IInv, NEW p \in Procs, RecoverStep(p)
    PROVE  RInv'
<1> USE Types
<1>1. loc[p].pc \in Recovering
  BY DEF RecoverStep, Clean1, Clean2, Clean3, Clean4, Recover, UndoPublic, UndoSelect, UndoRootSync,
     UndoEngineSync, RestoreInput, InputsRestored, InputsRootSync, InputsEngineSync, InputsUnlink,
     InputsUnlinkSync, InputsClean, InputsCleanSync, At, Recovering
<1>2. loc[p].ret \in Rets
  BY <1>1, HolderFacts DEF Recovering
<1>3. Alone(p) /\ loc'[p].pc \in Recovering \cup Rets
  <2>1. CASE RestoreInput(p)
    <3>1. \/ loc' = [loc EXCEPT ![p].pc = Unrecovered(p), ![p].k = 0]
          \/ loc' = [loc EXCEPT ![p].k = loc[p].k + 1]
      BY <2>1 DEF RestoreInput
    <3> QED
      BY <1>1, <3>1 DEF LocRec, Alone, Unrecovered, Rets
  <2>2. CASE InputsRestored(p)
    BY <2>2 DEF InputsRestored, LocRec, Alone, Recovering
  <2>3. CASE ~RestoreInput(p) /\ ~InputsRestored(p)
    <3>1. \E l \in Recovering \cup Rets : Goto(p, l)
      BY <1>2, <2>3 DEF RecoverStep, Clean1, Clean2, Clean3, Clean4, Recover, UndoPublic, UndoSelect, UndoRootSync,
         UndoEngineSync, InputsRootSync, InputsEngineSync, InputsUnlink,
         InputsUnlinkSync, InputsClean, InputsCleanSync, Unrecovered, Recovering, Rets
    <3> QED
      BY <3>1, GotoAlone
  <2> QED
    BY <2>1, <2>2, <2>3
<1>4. loc[p].pc \in Locked /\ loc'[p].pc \notin Rewriting
  BY <1>1, <1>3 DEF Locked, Rewriting, Recovering, Rets, Publishing
<1> QED
  BY <1>3, <1>4, ElsewhereRewrote

\* The steps by which the owner leaves a publication or an import, or has not begun one.
LEMMA OthersElsewhere ==
    ASSUME IInv, NEW p \in Procs,
           \/ PubCommitSync(p) \/ Abort(p) \/ PublishFailed(p) \/ Undo(p) \/ LegacyExport(p)
           \/ PrepBackup(p) \/ PrepJournal(p) \/ PrepJournalRename(p)
    PROVE  RInv'
<1> USE Types DEF Alone, LocRec, Rewriting, Publishing
<1>1. CASE PubCommitSync(p)
  BY <1>1, ElsewhereRewrote DEF PubCommitSync, At, End, Idle, Locked
<1>2. CASE Abort(p) \/ Undo(p)
  BY <1>2, ElsewhereRewrote DEF Abort, Undo, At, Locked
<1>3. CASE PublishFailed(p) \/ LegacyExport(p) \/ PrepJournalRename(p)
  <2>1. loc[p].pc \in Locked /\ \E l \in {"undo", "end", "prep_sync"} : Goto(p, l)
    BY <1>3 DEF PublishFailed, LegacyExport, PrepJournalRename, At, Locked, Ready, Preparing
  <2> QED
    BY <2>1, GotoAlone, ElsewhereRewrote
<1>4. CASE PrepBackup(p) \/ PrepJournal(p)
  BY <1>4, ElsewhereRewrote DEF PrepBackup, PrepJournal, At, Locked, Ready, Preparing
<1> QED
  BY <1>1, <1>2, <1>3, <1>4

\* The steps that leave the directories alone.
LEMMA LocalRewrote ==
    ASSUME IInv, RInv, NEW p \in Procs,
           \/ Install(p) \/ ImportRead(p) \/ ImportCheck(p)
           \/ Lock(p) \/ Selected(p) \/ Snapshot(p) \/ Warm(p) \/ Build(p) \/ Recheck(p) \/ EndAt(p)
           \/ Kill(p) \/ \E kind \in Kinds : Start(p, kind)
    PROVE  RInv'
<1>1. UNCHANGED <<root, engine>>
  BY DEF Install, ImportRead, ImportCheck, Lock, Selected, Snapshot, Warm, Build, Recheck, EndAt, Kill,
     Start, files
<1>2. Alone(p) /\ loc'[p].pc \notin Rewriting
  <2> USE Types DEF Rewriting, Publishing
  <2>1. CASE Install(p) \/ ImportCheck(p) \/ Lock(p)
    <3>1. PICK l \in {"end", "gens_sync", "install", "recover"} : Goto(p, l)
      BY <2>1 DEF Install, ImportCheck, Lock
    <3> QED
      BY <3>1, GotoAlone
  <2>2. CASE ImportRead(p)
    <3>1. PICK changed \in SUBSET (Inputs \ Editable) :
             loc' = [loc EXCEPT ![p].snap = root.input, ![p].old = engine.current,
                       ![p].goal = [i \in Inputs |-> IF i \in changed THEN Imported ELSE root.input[i]],
                       ![p].pc = "import_check"]
      BY <2>2 DEF ImportRead
    <3>2. PICK g : loc' = [loc EXCEPT ![p].snap = root.input, ![p].old = engine.current, ![p].goal = g,
                                      ![p].pc = "import_check"]
      BY <3>1
    <3> QED
      BY <3>2 DEF LocRec, Alone
  <2>3. CASE Selected(p)
    BY <2>3 DEF Selected, LocRec, Alone
  <2>4. CASE EndAt(p) \/ Kill(p)
    BY <2>4 DEF EndAt, Kill, End, Idle, Alone
  <2>5. CASE \E kind \in Kinds : Start(p, kind)
    BY <2>5, ZenonT(60) DEF Start, Idle, Alone
  <2>6. ASSUME Retry(p) PROVE Alone(p) /\ loc'[p].pc \notin Rewriting
    BY <2>6 DEF Retry, LocRec, Alone
  <2>7. ASSUME NEW l, Goto(p, l), l \notin Rewriting PROVE Alone(p) /\ loc'[p].pc \notin Rewriting
    BY <2>7, GotoAlone
  <2>8. CASE Snapshot(p)
    <3>1. CASE loc' = [loc EXCEPT ![p].snap = root.input, ![p].goal = root.input,
                                ![p].pc = IF loc[p].prev = root.input THEN "warm" ELSE "build"]
      BY <3>1 DEF LocRec, Alone
    <3> QED
      BY <2>6, <2>7, <2>8, <3>1 DEF Snapshot
  <2>9. CASE Warm(p)
    BY <2>6, <2>7, <2>9 DEF Warm
  <2>10. CASE Build(p)
    <3>1. CASE loc' = [loc EXCEPT ![p].pc = "recover", ![p].ret = "recheck"]
      BY <3>1 DEF LocRec, Alone
    <3> QED
      BY <2>7, <2>10, <3>1 DEF Build
  <2>11. CASE Recheck(p)
    <3>1. CASE loc' = [loc EXCEPT ![p].old = engine.current, ![p].pc = "install"]
      BY <3>1 DEF LocRec, Alone
    <3> QED
      BY <2>6, <2>11, <3>1 DEF Recheck
  <2> QED
    BY <2>1, <2>2, <2>3, <2>4, <2>5, <2>8, <2>9, <2>10, <2>11
<1> QED
  BY <1>1, <1>2, RewroteAway DEF Alone

\* Failures, edits and the disk.
LEMMA OutsideRewrote ==
    ASSUME IInv, AInv, RInv
    PROVE  /\ \A p \in Procs : Fail(p) => RInv'
           /\ \A i \in Editable, v \in Versions : Edit(i, v) => RInv'
           /\ PowerLoss => RInv'
<1> USE Types
<1>1. ASSUME NEW p \in Procs, Fail(p) PROVE RInv'
  <2>1. /\ engine' \in LeftBehind(p) /\ root' = root /\ loc[p].pc \in Checked
        /\ loc' = [loc EXCEPT ![p].pc = OnError(p), ![p].k = 0]
    BY <1>1 DEF Fail
  <2>2. OnError(p) \in {"publish_failed", "end", "abort", "undo"}
    BY DEF OnError, Unrecovered
  <2>3. Alone(p) /\ loc'[p].pc \notin Rewriting
    BY <2>1, <2>2 DEF Alone, LocRec, Rewriting, Publishing
  <2>4. CASE loc[p].pc \in Locked
    BY <2>3, <2>4, ElsewhereRewrote
  <2>5. CASE loc[p].pc \notin Locked
    <3>1. engine' = engine
      BY <2>1, <2>5 DEF LeftBehind, Locked, Ready, Publishing, Preparing
    <3> QED
      BY <2>1, <2>3, <3>1, RewroteAway DEF Alone
  <2> QED
    BY <2>4, <2>5
<1>2. ASSUME NEW i \in Editable, NEW v \in Versions, Edit(i, v) PROVE RInv'
  <2>1. UNCHANGED <<engine, loc>> /\ root' = [root EXCEPT !.input[i] = v]
    BY <1>2 DEF Edit
  <2>2. engine.ijournal # None => engine.ijournal.changed \cap Editable = {}
    BY DEF AInv, Shape, Imports
  <2>3. engine.ijournal # None => \A j \in engine.ijournal.changed : root'.input[j] = root.input[j]
    BY <2>1, <2>2 DEF RootRec, Ids, EngineRec, IJournalRec
  <2> QED
    BY <2>1, <2>3 DEF RInv, Rewrote
<1>3. ASSUME PowerLoss PROVE RInv'
  BY <1>3 DEF PowerLoss, RInv, Rewrote, Rewriting, Publishing, Idle
<1> QED
  BY <1>1, <1>2, <1>3

LEMMA NextRInv == IInv /\ AInv /\ RInv /\ [Next]_vars => RInv'
<1> SUFFICES ASSUME IInv, AInv, RInv, [Next]_vars PROVE RInv'
  OBVIOUS
<1>1. ASSUME NEW p \in Procs, Step(p)
      PROVE  RInv'
  <2>1. CASE RecoverStep(p)
    BY <2>1, RecoverElsewhere
  <2>2. CASE PublishStep(p)
    BY <2>2, PublishRewrote, OthersElsewhere DEF PublishStep
  <2>3. CASE CompileStep(p)
    BY <2>3, LocalRewrote, PublishRewrote, PrepareRewrote DEF CompileStep
  <2>4. CASE ImportStep(p)
    BY <2>4, LocalRewrote, PublishRewrote, PrepareRewrote, OthersElsewhere DEF ImportStep
  <2> QED
    BY <1>1, <2>1, <2>2, <2>3, <2>4, OthersElsewhere DEF Step
<1>2. ASSUME NEW p \in Procs, (\E kind \in Kinds : Start(p, kind)) \/ Fail(p) \/ Kill(p)
      PROVE  RInv'
  BY <1>2, LocalRewrote, OutsideRewrote
<1>3. CASE UNCHANGED <<root, engine, loc>>
  BY <1>3, RewroteAway
<1>4. ASSUME NEW r \in Readers, ReaderLock(r) \/ Pin(r)
      PROVE  RInv'
  BY <1>3, <1>4 DEF ReaderLock, Pin, files
<1>5. CASE WritebackAll \/ WritebackDirectory \/ WritebackEntry
  BY <1>3, <1>5 DEF WritebackAll, WritebackDirectory, WritebackEntry, files
<1>6. CASE UNCHANGED vars
  BY <1>3, <1>6 DEF vars, files
<1> QED
  BY <1>1, <1>2, <1>4, <1>5, <1>6, OutsideRewrote DEF Next

\* The renaming of the marker publishes.
LEMMA CommitRefines ==
    ASSUME IInv, AInv, RInv, IInv', NEW p \in Procs, PubCommitRename(p)
    PROVE  [Atomic!Next]_(Atomic!vars)
<1> DEFINE g == loc[p].goal
           changed == IF engine.ijournal = None THEN {} ELSE engine.ijournal.changed
<1> USE Types, Have
<1>1. /\ loc[p].pc = "pub_commit_rename" /\ Goto(p, "pub_commit_sync")
      /\ engine' = [engine EXCEPT !.temps = @ \ {"committed.next"}, !.committed = loc[p].goal]
      /\ UNCHANGED <<root, droot, dengine, order>>
  BY DEF PubCommitRename, At, InEngine, disk, env
<1>2. /\ engine.journal # None /\ engine.committed = None /\ engine.current = g /\ root.public = g
      /\ g \in Ids /\ changed \subseteq Inputs /\ root.input \in Ids
  BY <1>1 DEF JournalFacts, After, LocRec, EngineRec, IJournalRec, RootRec
<1>3. But(engine', engine, {"committed"}) /\ engine'.committed = g /\ g # None
  BY <1>1, <1>2, Nones DEF EngineRec, But
<1>4. Alone(p) /\ loc'[p].pc = "pub_commit_sync"
  BY <1>1, GotoAlone
<1>5. ~Unreported /\ Unreported'
  BY <1>1, <1>4, OwnerPending DEF Locked, Publishing, Pending
<1>6. Base = Now /\ Base' = Now
  <2>1. /\ Base = Settled(root, engine) /\ Base' = Settled(root, Revoked(engine'))
    BY <1>1, <1>5 DEF Base
  <2>2. But(Revoked(engine'), engine', {"committed"}) /\ Revoked(engine').committed = None
    BY RevokedSame DEF IInv, FileTypes
  <2>3. Settled(root, Revoked(engine')) = Settled(root, engine)
    BY <1>2, <1>3, <2>2, SettledLoose DEF But
  <2> QED
    BY <2>1, <2>3 DEF Now
<1>7. OnDisk' = OnDisk
  BY <1>1 DEF OnDisk
<1>8. Now' = [sel |-> g, pub |-> g, input |-> root.input]
  BY <1>1, <1>2, <1>3 DEF Now, Settled, View, But
<1>9. Now.input = Restored(root, engine)
  BY <1>2 DEF Now, Settled
<1>10. \A i \in changed : root.input[i] = g[i]
  BY <1>1 DEF RInv, Rewrote, Rewriting, Publishing
<1>11. \A i \in Inputs \ changed : Restored(root, engine)[i] = root.input[i]
  BY DEF Restored
<1> HIDE DEF g, changed
<1>12. root.input = [i \in Inputs |-> IF i \in changed THEN g[i] ELSE Now.input[i]]
  BY <1>2, <1>9, <1>10, <1>11 DEF Ids
<1>13. CASE order = "entry" \/ Now' = Now
  BY <1>1, <1>6, <1>7, <1>13, Stutters
<1>14. CASE order # "entry" /\ Now' # Now
  <2> DEFINE Gives(id, c, v) ==
               Now' = [sel |-> id, pub |-> id, input |-> [i \in Inputs |-> IF i \in c THEN id[i] ELSE v.input[i]]]
  <2>1. \E id \in Ids, c \in SUBSET Inputs : Gives(id, c, Now)
    BY <1>2, <1>8, <1>12
  <2>2. \E id \in Ids, c \in SUBSET Inputs : Gives(id, c, Found(root, engine))
    <3> HIDE DEF Gives
    <3> QED
      BY <1>14, <2>1, Mapping DEF Maps
  <2>3. Atomic!Publish
    BY <1>1, <1>6, <1>7, <1>14, <2>2, Mapping DEF Maps, Atomic!Publish
  <2> QED
    BY <2>3 DEF Atomic!Next
<1> QED
  BY <1>13, <1>14

LEMMA InitRefines ==
    ASSUME Init
    PROVE  Atomic!Init
<1>1. root = droot /\ engine = dengine /\ \A p \in Procs : loc[p].pc = "idle"
  BY DEF Init, Idle
<1>2. ~Unreported
  BY <1>1 DEF Unreported
<1> QED
  BY <1>1, <1>2 DEF Atomic!Init

LEMMA NextRefines ==
    ASSUME IInv, AInv, RInv, IInv', [Next]_vars
    PROVE  [Atomic!Next]_(Atomic!vars)
<1>1. ASSUME NEW p \in Procs, Step(p)
      PROVE  [Atomic!Next]_(Atomic!vars)
  <2>1. CASE RecoverStep(p)
    BY <2>1, RecoverRefines, UndoRefines, SyncRefines, RecoverDecisionRefines DEF RecoverStep
  <2>2. CASE PublishStep(p)
    BY <2>2, PublishRefines, SyncRefines, CommitRefines, PubCommitSyncRefines, RevokeRefines,
       LeaveRefines DEF PublishStep
  <2>3. CASE CompileStep(p)
    BY <2>3, LocalRefines, SyncRefines DEF CompileStep
  <2>4. CASE ImportStep(p)
    BY <2>4, LocalRefines, PrepareRefines, SyncRefines, RevokeRefines DEF ImportStep
  <2> QED
    BY <1>1, <2>1, <2>2, <2>3, <2>4, LegacyRefines DEF Step
<1>2. ASSUME NEW p \in Procs, (\E kind \in Kinds : Start(p, kind)) \/ Fail(p) \/ Kill(p)
      PROVE  [Atomic!Next]_(Atomic!vars)
  BY <1>2, LocalRefines, FailRefines, LeaveRefines
<1>3. CASE UNCHANGED <<root, engine, droot, dengine, order, loc>>
  BY <1>3, Reached, AwayRefines
<1>4. ASSUME NEW r \in Readers, ReaderLock(r) \/ Pin(r)
      PROVE  [Atomic!Next]_(Atomic!vars)
  BY <1>3, <1>4 DEF ReaderLock, Pin, files, disk, env
<1>5. CASE UNCHANGED vars
  BY <1>3, <1>5 DEF vars, files, disk, env
<1> QED
  BY <1>1, <1>2, <1>4, <1>5, EditRefines, WritebackRefines, PowerLossRefines DEF Next

\* The transaction of generation.c implements AtomicPublication: however the file operations
\* of jf_generation_publish, recover and prepare_inputs interleave with failures, kills and
\* power losses, the selector, the public export and the inputs that the next recovery finds
\* change together, when the marker is renamed, and go back together.
THEOREM TransactionPublishesAtomically ==
    ASSUME "directory" \notin CommitSyncFails
    PROVE  Spec => PublishesAtomically
<1>1. Init => Atomic!Init
  BY InitRefines
<1>2. IInv /\ AInv /\ RInv /\ IInv' /\ [Next]_vars => [Atomic!Next]_(Atomic!vars)
  BY NextRefines
<1>3. Init => RInv
  BY DEF Init, Idle, RInv, Rewrote, Rewriting, Publishing
<1>4. IInv /\ AInv /\ RInv /\ [Next]_vars => RInv'
  BY NextRInv
<1> QED
  BY <1>1, <1>2, <1>3, <1>4, AtomicInvariant, PTL DEF Spec, PublishesAtomically, Atomic!Spec
=============================================================================
