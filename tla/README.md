# Verification of JaroMail's filter engine and outbox

TLA+ models of the parts of JaroMail that decide on, move, publish, send and
recover user data,
with the TLC runs that check them on small instances and TLAPS proofs of the
main results. Source paths are relative to the directory that holds `src/`
(the repository); `PROJECT.json` maps every definition to its lines.

## The system

JaroMail is a shell front end (`src/src/zlibs`) around C tools. Since the
native filter engine, the tools carry the logic that touches mail:

| Component | State it keeps | Operations | Must be true of it |
|---|---|---|---|
| Message move, `filter/storage.c` | a Maildir's `cur`, `new`, `tmp`; private stage and claim directories; pinned descriptors | `jf_storage_begin`, `jf_storage_move` | no message lost, doubled or replaced, in the namespace or on disk; whatever a failure leaves is named |
| Worker pool, `filter/pool.c` | job window, stop/quit flags, pending signals | start, bind, window, stop, finish; worker and signal threads | no lost wakeup, jobs settle once, a signal stops the batch and becomes its status |
| Batch coordinator, `jaro-filter.c` | decisions of a window, output rows, batch lock | select, prepare, submit, close, emit, flush, diagnose | every durable outcome is reported, the lock stays held |
| Compiler transaction, `filter/generation.c` | ROOT's inputs and `Filters.sieve`; `cache/filter-engine`: selector, journals, marker, backups, generations | compile, import, legacy run, pin, recover | after any interruption: all of the old view or all of the new one |
| Snapshot, `filter/snapshot.c` | dependencies and their fingerprints | collect, overlay, parse | what is published was current at one instant |
| Policy, classifier, profile, import, cache, emitters (`filter/*.c`) | none across calls | parse, resolve, classify, emit, import, merge | classifier, cache and script decide alike; a script is imported as what it says; a merge keeps both policies |
| Header reader, `filter/headers.c`, SHA-256 | none across calls | byte scanners | out of scope |
| Contact append, `filter/contact.c` | the address book file | locked append, check | no duplicate, no reported contact lost, the book stays valid |
| Dot lock, `dotlock.c`, `zlibs/locking` | `X.lock`, `X.pid` | lock, unlock | one owner, whose marker stays; no lock left behind |
| Outbox and fetch, `zlibs/email`, `zlibs/imap`, `zlibs/maildirs` | outbox, sent and incoming Maildirs | queue, send, fetch, deliver | each mail sent once, kept until it is filed |
| Filter front end, `zlibs/filters`, `zlibs/filter-native` | engine choice | filter, compile, import | engine statuses handled |
| Address book, search, stats, accounts, keyring, composition (`zlibs/*`) | configuration files | wrappers of other programs | - |
| Header tools (`rfc822.c`, `rfc2047.c`, `fetchaddr.c`, ...), MailToMutt, stats page, zuper, `vendor/` | none | byte parsers, user interface, vendored code | out of scope |

Interactions: `zlibs/filter-native` runs the compiler and the filter as
processes. The filter pins a generation under the compiler's shared lock, then
classifies messages with it and, in apply mode, gives windows of decisions to
the pool, whose workers each call `jf_storage_move`. Compilers and readers meet
only on the publication lock (`fcntl`) and in the files; movers meet each other
and independent mail clients in the Maildirs. The compiler collects its inputs
without a lock that an editor would respect, and collects them again before it
publishes. The shell sends the outbox under a dot lock, which it shares with any
other program that uses dot locks; it adds contacts through the contact helper,
which shares the address book with `abook`, an editor without a lock.

What is hard here: clients that act between any two system calls of a move;
threads, condition variables and signals; kills, I/O errors and power losses
between any two file operations of a transaction. The list, with the line where
each bites and the property that covers it, is `hazards` in `PROJECT.json`.

## Modules

| Module | Models | Runs |
|---|---|---|
| `MaildirMove` | `jf_storage_move` and the descriptor part of `prepare` | `move_one`, `move_two` |
| `AtomicMove`, `MaildirMoveAtomic` | what a move promises, and the mapping from `MaildirMove` | `move_two` |
| `BatchPool` | the pool, the coordinator, signals, output, the batch lock | `pool` |
| `Generation` | the compiler transaction | `gen_*` |
| `AtomicPublication` | what the transaction promises; the mapping is in `Generation` | `gen_power`, `gen_shared` |
| `Snapshot` | collecting the inputs, and the loops that collect again | `snapshot`, `snapshot_import` |
| `Policy` | parsing to decision, script and cache; import and merge | `policy` |
| `Contact` | `jf_contact_add` | `contact` |
| `DotLock`, `Outbox` | `dotlock`; `lock`, `unlock` and `send` on top of it | `outbox` |
| `MC*` | instances for TLC | |
| `MaildirMoveProofs`, `BatchPoolProofs`, `GenerationProofs`, `GenerationAtomicProofs`, `SnapshotProofs`, `PolicyProofs`, `ContactProofs`, `OutboxProofs` | theorems about the module of that name (`MaildirMoveProofs` and `GenerationAtomicProofs` also the refinements of `AtomicMove` and `AtomicPublication`, `OutboxProofs` also about `DotLock`) | - |

In each module a definition marked *Fault* is not part of the model: it is its
neighbour with a slip, and shows which property notices (`mutants`).

### MaildirMove

State: the public namespace `mail` (name to inode) and its counterpart on
stable storage `dmail`; the bytes of inodes; per mover the stage, the claim
directory and the locals of `jf_storage_move` with a program counter. One action
is one system call, or a group of checks without an effect in between: `Open`,
`ReadHeaders`, staging, copying in two parts, publication attempts with `linkat`,
the fsyncs, the claim by `renameat`, the verification of the claim, the checks
of copy and source, the unlink, and the error path `restore`/`unstage`/`remove`.
Every step can fail instead (I/O, memory, interruption, replaced lock or
directory), and every mover can be killed. Stat comparisons are kept by what
they can tell: `sstat` says whether the source's identity, its times or neither
changed since the baseline, and an edit may go unnoticed by stat, as an edit
within the clock's granularity does. Digests are compared by content.

A mover whose destination is the directory of its source ends at `Begin` (`noop`); no
run has one, the theorems include them.

Clients deliver, rename, delete and edit; what a client removes or overwrites
itself is `disposed` and owed to nobody.

Not in the model: writers that opened a message before the move and write after
its unlink; a power loss that splits a rename across two directories of one
file system (the claim directory lies in the source directory and is written
with it); chains in which one mover's destination is another's source, which
the alias check in `jaro-filter.c` refuses within a batch
(`SourcesAssumption`).

### BatchPool

A section between `pthread_mutex_lock` and unlock (or wait) is one action:
everything shared is only touched there. A thread that waits on a condition
variable is `waiting` until a signal or broadcast makes it recheck. Signals are
pending for the process, or (SIGPIPE) for the coordinator's thread; the mask
decides whether the handler or `sigtimedwait` gets them. A decision goes through
`none`, `ready` or a refusal, and the result of its job; what the job does
inside is `MaildirMove`. Output is rows written, rows flushed, and paths named
on stderr; each write and flush may fail, with or without SIGPIPE.

### Generation

The directories ROOT, engine and `generations/` are records of their entries,
each with a counterpart on stable storage. A generation's identifier is the
fingerprint of its inputs, here the inputs themselves, so that the public export
and the selector can be compared with them. One action is one file operation:
the backup, each save, rename and fsync of `publish`, `prepare_inputs`,
`recover`, `recover_inputs` and `cleanup_transaction`. `Start` is `locate`, which
fsyncs the hierarchy before it has the lock. Every step may fail, leaving what
a half-done `save` leaves, and continues on the code's error path; a process may
be killed; a power loss replaces everything by what is on disk.

What reaches the disk, and when, is the variable `order`, chosen at the start
from the constant `Orders`:

- `global`: in the order it was done (one metadata journal, flushed by any fsync);
- `directory`: so within a directory, but directories independently;
- `entry`: an fsync promises its directory's entries and nothing is ordered.

`Settled` is the view (selector, export, inputs) an uninterrupted recovery
would leave, `Recoverable` says that it succeeds; `allowed` is the history of the
views that are acceptable: the one before the transaction, and the new one from
the rename of the commit marker on; `seen` has the inputs there have been since the
exclusive lock was taken, whether a user or the import itself changed them.
`CommitSyncFails` names the orders under which
fsync of the commit marker may fail; see the finding.

Not in the model: `--check`, requested identifiers (`--generation`), file modes,
the first creation of the hierarchy, the products' contents, edits of inputs
that an import is rewriting (recovery would overwrite them, see the hazards).
The snapshot is collected in one step or notices a change, which is what
`Snapshot` shows of the code; `same_root` is part of that.

### What a move and a publication promise

`AtomicMove` has a place per message and one action, `Move`, that changes it; a
mover that reports success made that step. `MaildirMoveAtomic` maps `MaildirMove`
to it: a message is *here* while it is public or claimed, and *there* once its
claimed source is unlinked, at which moment its copy must be public and complete.
Everything before (staging, publishing, claiming) and every rollback is a stutter.
A rollback that links a message back may hold a second link in the claim directory
while another mover takes the message; `Here` does not count that link once
somebody has unlinked the source.

`AtomicPublication` has a `view` (selector, export, inputs), the view on stable
storage, and the view an unreported publication may go back to. `Publish` changes
all of `view` in one step, in `Generation` the rename of the commit marker; it is
then reported (and durable by then), withdrawn, or stands without anyone having
learned of it. The mapping (`PublishesAtomically`) takes for `view` what a recovery
would leave. On a file system of unordered entries nothing is promised of it:
there recovery may refuse, and `AllOrNothing` says only that it never mixes views.

### Snapshot

The inputs are read one after the other, each by `open`, `read` and a second
`fstat`; account files are listed, sorted and looked at again. The profile and the address
books follow; a book that is there is exported
by a program that is itself an input, read after the first such book, or an earlier
export of the same book by the same program is reused. The invocation is the loop of `jf_compile` (collect, build,
collect again, at most three attempts) or `jf_compile_import` (collect, collect with
the imported contents in place, collect twice more). The merge has new contents for
one of the sets in `Merges`, books included: a book that was absent is then present in
the overlay and in no other collection of that import. The user edits in place,
replaces, creates or removes files between any two system calls. `readdir` lists
the account files in any order and the code sorts them, so `List` takes the sorted list of
those present.

Contents never recur: a file that is replaced and put back between two collections
is excluded, as no comparison of fingerprints can notice it. The exporter is always
installed, and a book without records is exported as any other is, where the code
knows its empty export without running the program.

`FirstBook` names the import that writes the first book. There the exporter is read
and run by the overlay alone, so nothing rechecks it: `ExportCurrent` excludes that
publication, though not the later ones that might reuse its export, `Consistent` lets
it name any exporter, and `snapshot_import` shows what happens (see the findings).

### Policy

A domain is the sequence of its labels, an address has a form of which one is
normal, a regular expression is the set of addresses it matches, a mailbox name is
a sequence of components and separators. `Parse` has the rules of all sources, the
rule for duplicates (first contact, last route), the order and the limit; `Classify`
looks addresses up kind by kind, each time only for a better rule, as the indexed
classifier does; `Emit` and `RunSieve` are the script and the server's reading of it;
`CacheOf`, `Valid` and `Restore` the cache; `Unmap`, `Selector`, `Generated`,
`Recovered` and `Complete` the import; `Merge` the merge. The machine compiles its
sources, files a message by cache and by script, or imports what another
machine's sources emit under its profile, or a variant of it: a test written twice
or moved to another stage, a builtin removed or looking for another key, mailboxes
created another way. Keys of builtins are compared as they are (the code ignores
their case). `Plain` is the normal form of an address that is valid: `jf_valid_domain`,
`jf_valid_mailbox` and the validation at the head of `jf_policy_classify`
(`classify.c:124-157`, status 7) are not modelled. `Merge` leaves out the numbers that
appended book records get, and the refusal of a book it cannot number
(`E_IMPORT_BOOK`).

### Contact

A book is a sequence of items: the `[format]` section, records, and lines that are
neither. One action is one system call of `jf_contact_add`: exclusive creation, open, the first `fstat`,
`F_SETLK` on the inode, the read with its scan, the comparison of descriptor and name,
the write, the fsyncs. A failed write or a power loss leaves any prefix of what was
appended, also one that breaks in a line. The editor appends in place or loads and
renames. Three history variables mark what the code does not promise: `raced` (an
edit after the last check), `exposed` (a contact reported to a second invocation while
the creator of the book has yet to fsync the directory), `torn` (a write failed half
way). The books there may be at first are valid (`FirstBooksAssumption`): of a book
that the user broke nothing is promised.

### DotLock and Outbox

`DotLock` is the program: links are resolved up to `MAXLINKS`, the private temporary
file is linked to `FILE.lock` without a look at what `link` reports, and the lock is
one's own when that file has two links; `-r` and `-f` retry and force. `Outbox` is
`lock` and `unlock` of the shell (dotlock, then the pid marker; the marker is removed
first, then the lock) and `send` between them: the queue is read under the lock, each
mail goes to the server, is filed in `sent` and removed. A signal sets a flag once
`send` has its traps; before that the framework's handler unsets the shell's
variables and lets it go on (`lost`). The server may take a mail and the answer be
lost. Another program uses the same lock by another name and with its own options.
A `dotlock` outlives the shell that is killed while it waits for it, and may still take
the lock (`Outlived`). `dotlock -u` fails when the lock is gone, and the marker is then
written again. Queueing is one step; a delivery that `stdin_queue` takes back, because
its checksum is wrong, is no mail here. `entered` is the history of the mails that have
been in the outbox.

Marked by history variables, and excluded where a property says so: `usurped` (a live
lock was removed by `-f`, or `dotlock` reported success after its last attempt without
the lock, `dotlock.c:631`, `:652`; the shell asks for neither, and `LockedMeansOwned`,
`MarkerKept` and `SentOnce` promise nothing then), `orphaned` (a kill, an early signal or a failure
left the lock; nothing removes it later, as the shell neither retries nor forces),
`misreported` (`dotlock -u` died after it had removed the lock, and the marker is
written again, perhaps over a new owner's, `zlibs/locking:101`), `lapses` (a mail the
server took stays in the outbox and is sent again by the next run,
`zlibs/email:643`).

## Runs

| Run | Shows | Bounds |
|---|---|---|
| `move_one` | `NoLoss`, `DurableNoLoss`, `LeftoversReported`, `NoClobber`, `Termination`, types | one mover, 3 client operations, 2 contents, 2 attempts, 2 names in each directory: enough for a client to replace the source, edit it and touch the copy in one move, and for every candidate name to be found taken: by a delivery, renamed between two attempts |
| `move_two` | `MovedOnce`, `MovesAtomically` | two movers of one message and a client operation |
| `pool` | `LentOut`, `LockHeld`, `OutcomesReported`, `SignalReported`, `StopBoundary`, `Ends`, types | 2 workers, 3 messages in windows of 2 (a full and a partial window, in which one worker finds nothing), a signal besides SIGPIPE |
| `gen_power` | `AllOrNothing`, `SelectedComplete`, `StagingFree`, `PublishesAtomically` | all three orders; one writer that compiles, imports or runs the legacy exporter any number of times; two inputs (one missing at first), an I/O failure, a kill and a power loss; under `directory` fsync-commit does not fail |
| `gen_shared` | `Fresh`, `PinsSettled`, `PublishesAtomically`, types | two compilers, a reader, an input the user edits, a kill |
| `gen_returns` | `Returns` | one compiler, unlimited edits, a failure |
| `gen_marker` | violates `RollbackRepeatable` | `directory`, fsync-commit fails |
| `snapshot` | `Consistent`, `ExportCurrent`, types | a required input, an optional profile, an account file, two books and their exporter; an import writes the required input and the first book; 3 edits, one for each of the first three collections of an import or the attempts of a compile; any number of invocations |
| `snapshot_import` | violates `ExportBound` | the same with one edit |
| `policy` | `FirstMatch`, `ImportFaithful`, `MergeKeeps` | all sequences of at most 2 of 9 lines with 2 sets of contacts under 3 profiles (each kind of separator, a prefix, mappings that collide, with and without expressions); 28 messages (6 of one address and one of two, each with and without bounce and spam); every pair of such sources as machine and script; `RuleMax` 5, which two lines and four contacts reach |
| `contact` | `Unique`, `Kept`, `StaysValid`, types | two invocations at a time, any number in all, 2 addresses and the editor's, `RuleMax` 2, which both addresses, or one and the editor's, reach, `IdMax` 5, one failure, one edit, one power loss |
| `outbox` | `LockedMeansOwned`, `LockAccounted`, `MarkerKept`, `SentOnce`, `Filed`, types | two senders, another user that knows the outbox by a symbolic link and also names a link to itself, `-r 1`, `-r 2`, `-f` with `HARDMAXATTEMPTS` 2; 2 mails, one mishap, any number of sends |

Bounds on failures, kills and power losses count over a whole behaviour, so a
second interruption during recovery from a first one of another kind is
included. Symmetry is used for contents, movers with the same source,
compilers, senders and invocations that add contacts, which no definition tells
apart; never in a liveness run. `policy` stops when its one message is filed or its
one script imported, so only there deadlock is not checked.

Fairness: a thread or process that can take a step takes one
(`WF_vars(Step(p))` and alike). Nothing waits for another party except on the
pool's condition variables, where the weak fairness is that of each thread's own
section; the locks are taken without waiting. No fairness is assumed of clients,
editors, signals, failures or writeback.

### Findings

`gen_marker`: when fsync of the commit marker fails, `publish` removes the marker and
rolls back, but the removal becomes durable only after ROOT has been rolled back and
fsynced (`generation.c:478`, `:440`). A power loss in between leaves the marker beside
a rolled-back export, and every later recovery refuses. This contradicts the comment
at `generation.c:309` ("rollback can be repeated after any interruption"). No data is
lost; the compiler is blocked until the journal is removed by hand.

`snapshot_import`: an import creates the first address book. Only its overlay has a book,
so only the overlay reads the exporter (`snapshot.c:477`) and runs it (`:366`); the
snapshot before and both rechecks never look at it. A program replaced in between gives
the contacts of a generation that records the digest of the other. This contradicts
`doc/filter-interfaces.md:324` ("Directory membership and resolved inputs must be
rechecked before publication", the exporter's digest being an input by line 316). The
next compile reads the present exporter and exports anew, so it lasts until then
(`ExportCurrent`).

Met while modelling, and not stated as runs:

- the export's backup and the journal that refers to it become durable by one fsync
  (`generation.c:463`); with unordered entries a power loss before it can leave a
  journal whose backup is missing. `AllOrNothing` promises no recovery there;
- `recover_inputs` overwrites edits made between a dead import and its recovery
  (`generation.c:370`);
- some changes of inputs during a collection end as a failure (status 3) and not as a
  change (status 6) (`snapshot.c:217`, `:284`; `Failed` after `StillAbsent` and
  `AccountStat`);
- `unmap` accepts a mailbox with no inverse: one named like a destination that the
  profile maps elsewhere is taken for that destination (`import.c:182`), although
  `doc/filter-interfaces.md` asks for a unique inverse. Scripts emitted under the same
  profile, which `policy` imports, do not contain one.

## Proofs

All invariants and action properties of the runs, but for the three of `Policy`, and both
refinements are theorems, for every value of the constants that the named `ASSUME`s allow:
any number of processes, names, contents, failures, kills, edits and power losses. Those
`ASSUME`s, which TLC evaluates in the runs, are all that is assumed, except in
`GenerationAtomicProofs`, whose theorems have one hypothesis of their own (below), and in
`PolicyProofs`, which is about operators and states what they are applied to.

| Module | Theorems (property) |
|---|---|
| `MaildirMoveProofs` | `TypeCorrect`, `NeverLost` (`NoLoss`), `NeverReplaced` (`NoClobber`), `MovesOnce` (`MovedOnce`), `NothingLeftUnsaid` (`LeftoversReported`), `NeverLostOnDisk` (`DurableNoLoss`), `Atomic` (`MovesAtomically`, the refinement of `AtomicMove`) |
| `BatchPoolProofs` | `TypeCorrect`, `DecisionsLent` (`LentOut`), `LockKept` (`LockHeld`), `SignalNotLost` (`SignalReported`), `StopRespected` (`StopBoundary`), `NothingUnreported` (`OutcomesReported`) |
| `GenerationProofs` | `TypeCorrect`, `PublishesCurrentInputs` (`Fresh`), `NoStaleStaging` (`StagingFree`), `SelectionComplete` (`SelectedComplete`), `PinnedIsSettled` (`PinsSettled`) |
| `GenerationAtomicProofs` | `TransactionAllOrNothing` (`AllOrNothing`), `RollbackCanBeRepeated` (`RollbackRepeatable`), `TransactionPublishesAtomically` (`PublishesAtomically`, the refinement of `AtomicPublication`) |
| `SnapshotProofs` | `TypeCorrect`, `ContactsCurrent` (`ExportCurrent`), `PublishesOneInstant` (`Consistent`) |
| `PolicyProofs` | `IndexFindsFirst`, `ServerTestsAlike`, `ImportReadsBack`, `OwnRecordsAccepted`, `CacheDecidesAlike` (each about operators) |
| `ContactProofs` | `TypeCorrect`, `NoDuplicateContact` (`Unique`), `ReportedKept` (`Kept`), `BookStaysValid` (`StaysValid`) |
| `OutboxProofs` | `TypeCorrect`, `Exclusion` (`LockedMeansOwned`), `MarkerNamesOwner` (`MarkerKept`), `NoMailUnfiled` (`Filed`), `NoDuplicateSend` (`SentOnce`), `NoLockLeft` (`LockAccounted`) |

In every module the inductive invariant is a conjunction of named parts; lemmas say what a
step leaves of the processes that do not take it, there is one lemma per action or group
of alike actions, and the theorems follow from the invariant.

### MaildirMove

`ConstantsAssumption`: inodes of files and copies are distinct, candidates lie in their
destination, no hard links at the start; `SourcesAssumption` as above. None of the
properties is inductive: `NoLoss` needs, at the unlink, that the copy is public and has
the present bytes of the source.

- `LossInv` is `ClaimInv` (claims hold files, only between claim and unlink or restore;
  a verified claim holds the pinned inode), `PlaceInv` (copies are public only in their
  destination, and not while staged), `CheckedInv` (from the final checks on, the copy is
  public with the digest's bytes, and so is the source unless its stat shows a change) and
  `SafeInv` (every file is public, claimed or copied).
- `OnceInv` adds `SpotInv` (a file has one name or claim; a rollback that links before it
  unlinks is the one moment with two), `UnlinkedInv`, `LiveInv` and `SettledInv`; from it
  follow `MovedOnce` and the refinement: a message of the mapping is *there* exactly when
  some mover has unlinked it (`PlaceIsSpot`), so that only the unlink is a `Move` and
  everything else a stutter.
- `LeftInv` says of each step of the error path what is still to be removed or named.
- `DurableInv` says, directory by directory, how far the disk lags: what was public or
  claimed is on disk in its home directory until the copy and its name are flushed, and
  only then the source may go.

### BatchPool

`BatchAssumption` only asks for a worker and a window. The pool keeps a count of
unsettled jobs, so the invariant must count: `CountInv` says that `remaining` is the number
of jobs nobody has taken plus the workers that have one, which needs cardinalities of finite
sets. `JobInv` and `ReadyInv` tie each worker to a decision of the window that no other
has; `SignalInv` follows a signal from where it is pending, by mask and thread, to the flag
or the status; `ReportInv` follows each durable outcome through rows, flush and stderr.

### Generation

The invariant says of each step under the exclusive lock what the steps before it have
cleared in the directory *and on the disk*, for all three orders at once: `PubFacts` and
`ImportFacts` for journals, backups and staging names, `GenFacts` for generations that are
named, `SeenFacts` for the snapshot, `TornInv` (no journal would restore a torn backup),
`Complete` (every generation that selector or journal names is complete and durable) and
`LockInv` (mutual exclusion). Trying `Fresh` showed a slip of the model: an import that
rewrites inputs, or rolls them back, also makes inputs current; `seen` now records that.
`GenerationAssumption` asks that the placeholder for "no entry" is no content, process,
generation or journal.

`AllOrNothing` is about what a recovery would make of the directories, and of the disk. A
power loss makes any mixture that the order allows the new state of both, so no statement
about the two as they are is inductive: it must hold of everything that can still reach the
disk. `AInv` therefore has two parts.

- `Shape` relates ROOT and engine to their counterparts on disk, and says that every
  mixture recovers to an allowed view. It goes by the journal: in neither place
  (`Unjournaled`: selector and disk agree), written (`Journaled`: what it would restore is
  the old view, and without it on the disk nothing has been replaced yet), or removed and
  still on the disk (`Fenced`: what it would do is done). `Imports` says the same of the
  journal of an import, and `Sure` that recovery succeeds unless entries are unordered.
  `BlendShape` shows that it passes to any mixture of directory and disk, entry by entry
  (`RootBlend`, `EngineBlend`).
- `Settling` says of each step of the process that has the lock how far it has come:
  `UndoFacts` for a recovery or rollback, `JournalFacts` for a publication, `PrepFacts` for
  the inputs of an import.

The hypothesis of the three theorems is `"directory" \notin CommitSyncFails`: where ROOT and
the engine directory reach the disk independently, fsync of the commit marker does not
fail. It is what the finding is about: `gen_marker` drops it and `RollbackRepeatable` fails,
and the theorems say that nothing else has to be excluded. The hypothesis leaves the
failure in under the orders `global` and `entry`. `RollbackCanBeRepeated` is also for ordered
entries only, as a recovery may refuse where they are not.

For the refinement, `Now` and `OnDisk` are what a recovery makes of directories and disk, and
`Base` what it makes of the directories if an unreported publication is taken back. Each
action leaves all three alone (`Stutters`), or makes one step of `AtomicPublication`: the
rename of the marker is `Publish`, taking it back `Withdraw`, the fsync that makes it durable
`Report`, and a process that ends in between leaves a `Stand`; an edit changes all three, and
whatever of the directories reaches the disk recovers to `Now` or to `OnDisk` (`DiskFound`),
which is `Persist`. That `Publish` has the right inputs needs one fact more,
`RInv`: when the marker is renamed every input that the journal names has been rewritten.

### Snapshot

A collection takes many system calls, and edits fall between them, so that no snapshot is
consistent by itself; the second collection must notice. The argument: no content of a file
comes back once it is gone (`Gone`, `Aged`), therefore a first snapshot whose inputs were
never all current at one instant holds a content that is gone when it is complete
(`Stale`), and no later collection reads that content, so none agrees with it. `CollectInv`
says how far a collection has come, `ExportInv` that an export is of the book and the
exporter that were read, or that this exporter is gone, `RunInv` what the loop knows at each
of its steps. `SnapshotAssumption` names inputs that are distinct, and lets an import
override any of those read before the accounts and any book; the wrong export of a first
book names an exporter that is gone, which is why no later collection reuses it.

### Policy

The policy, the script and the cache are three tables of the same rules, written in three
files of the source. The theorems say that the tables agree, for any rule, profile, address
and message:

- `IndexFindsFirst`: the four lookups of the classifier, each only for a better rule, find
  the first rule that holds for an address;
- `ServerTestsAlike`: the test in the script holds for the messages of its rule;
- `ImportReadsBack`: the import gives each test the selector and predicate it came from (a
  domain is with or without a wildcard; `unsorted` has no test);
- `OwnRecordsAccepted`: the validator of the cache accepts every rule that the parser makes.
  That rules are ordered by stage with the fallback last, and can be exported, are its
  hypotheses: `Ordered` and `Build` see to that;
- `CacheDecidesAlike`: the selectors that the cache drops decide nothing.

That a whole message is decided by the first rule of the whole policy is a fold of these
over its addresses, and stays with TLC (`FirstMatch`).

### Contact

Books have any length, so facts about what an append makes of one are lemmas on
sequences (`AppendFacts`, `AppendCount`, `ValidShape`, `GrowGood`; `TearFacts` for what a
torn one leaves). `WriterInv` says what an invocation has read and that it has the lock of
its file; between the read and the last check an editor may only have made the file longer,
which the check of the size notices. `AppendInv` says that from that check on, unless an edit
overlapped, the name leads to the file and it is what was read. `Kept` is not inductive:
`KeptInv` adds that where the name on the disk is not the name in the directory there is no
name on the disk, and all that was reported is exposed.

### DotLock and Outbox

`LockedMeansOwned` is inductive together with the types, to which two facts belong:
`RunInv` (a run of `dotlock` that has resolved its argument has a path that leads to the
file, and its attempts stay below the hard limit) and `ShellInv` (a shell runs `dotlock` in
`lock` only). That the resolution of symbolic links ends in such a path is shown by
induction. `MarkInv` says who may still write `outbox.pid`; `OnceInv` bounds, per mail, what
the server took by the lapses, but for the one sender that is settling it; `FiledInv` says
that a sender files and removes only what the server took; `AccountInv`
gives every lock file an owner that has it or is about to see that it has, so that an owner
that is gone must have been marked at the step where it left the lock.

### Induction

The library's induction theorems cannot be instantiated by the provers at hand. Where an
induction is needed (chains of links, the least file number, the greatest section number)
the least element of the set in question, or the least counterexample, is taken instead: `Least` states that a non-empty set of numbers has a least
element, from the well-foundedness of `<`.

### Only model-checked

- `FirstMatch`, `ImportFaithful` and `MergeKeeps` of `Policy`: they are about what folds,
  `SelectSeq` and `FlattenSeq` compute, by recursion on the length of a policy, a message
  or a script. The prover has no induction for that; `PolicyProofs` has the part that is
  about single rules and addresses.
- `Termination`, `Ends` and `Returns`: liveness under fairness is not treated by the
  prover.

## Not modelled

- Lexing and byte formats: tokens of `Filters.txt`, addresses, the profile, Sieve
  strings; the legacy Sieve grammar; `headers.c`, `rfc822.c`, `rfc2047.c`,
  `sha256.c`; cache framing, lengths and digests; the zsh product and quoting. They are
  parsers without state, whose faults are in characters that the models abstract
  from. Rule identifiers, occurrence numbers and size limits other than `JF_RULE_MAX`
  go with them.
- Of `jaro-filter.c`: the option parser, selection and alias detection, which are
  assumptions of `MaildirMove` (`SourcesAssumption`).
- Of the snapshot: symbolic links, nested account directories and the warnings about
  contacts.
- Of `dotlock`: `-t`, `-d`, `-p` and the privileged mode, which the shell does not use.
- Of the shell: fetching (`fetchmail`, `imap`), recipients of anonymous mail,
  learning recipients, `rmdupes`, backups, search, statistics, accounts, keyring and
  composition: they run other programs and prompt.
- The front ends of compiler and legacy engine, MailToMutt, zuper, vendored code.

## Plan

1. Done: all modules; the abstract specifications of a move and of a publication; the
   proofs above, which include both refinements.
2. Open: liveness proofs and what recursive definitions compute for every input, which the
   prover does not treat; the components listed as not modelled.
3. When the commit marker's removal is made durable before ROOT is rolled back, the
   hypothesis of `GenerationAtomicProofs` and the run `gen_marker` can go:
   `CommitSyncFails` is then every order.
