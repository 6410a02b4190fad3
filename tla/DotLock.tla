------------------------------- MODULE DotLock -------------------------------
(***************************************************************************)
(* src/src/dotlock.c: the program that locks a file by linking a private   *)
(* temporary file to FILE.lock.  The temporary file is named after host    *)
(* and process and is unlinked before it is created, so all that is seen   *)
(* of it is whose temporary file the lock is a link to: lock[f] is that    *)
(* process.  A lock that an earlier run of the same process left is Stale. *)
(* The actions are composed with a caller by the modules that extend this. *)
(***************************************************************************)
EXTENDS Naturals, FiniteSets

CONSTANTS
    Procs,      \* processes that run dotlock
    Paths,      \* names a file to lock may be given by
    Links,      \* per path: the path it is a symbolic link to, or File or None
    File,       \* a path that is a file and no symbolic link
    MaxLinks,   \* MAXLINKS, the longest chain of symbolic links followed
    HardMax,    \* HARDMAXATTEMPTS
    None, Stale

ASSUME DotLockAssumption ==
    /\ Links \in [Paths -> Paths \cup {File, None}]
    /\ File \notin Paths /\ None \notin Paths \cup Procs /\ File # None
    /\ Stale \notin Procs \cup {None}
    /\ MaxLinks \in Nat /\ HardMax \in Nat \ {0}

VARIABLES
    lock,       \* per path: whose lock file there is
    dl,         \* per process: its run of dotlock
    usurped     \* history: a live lock was removed by force, or success reported without one

\* The options of a run, -r and -f; the shell's are Plain.
Plain == [retry |-> 0, force |-> FALSE]

Quit == [pc |-> "none", file |-> None, opt |-> Plain, hard |-> 0, count |-> 0]

DotLockInit ==
    /\ lock = [f \in Paths |-> None]
    /\ dl = [p \in Procs |-> Quit]
    /\ usurped = FALSE

-----------------------------------------------------------------------------
(* dotlock_prepare *)

\* dotlock_deference_symlink: at most MaxLinks links are followed.
Dereference(path) ==
    LET at[n \in 0..MaxLinks] ==
            IF n = 0 THEN path
            ELSE IF Links[at[n - 1]] \in Paths THEN Links[at[n - 1]] ELSE at[n - 1]
    IN at[MaxLinks]

\* What is left is locked if it is no link (fstat and lstat agree), or refused.
Prepared(path) ==
    LET f == Dereference(path) IN
    IF Links[f] = File THEN "open" ELSE "error"

-----------------------------------------------------------------------------
(* dotlock_lock *)

Run(p, l) == dl[p].pc = l
Then(p, l) == dl' = [dl EXCEPT ![p].pc = l]

Done(p) == dl' = [dl EXCEPT ![p] = Quit]

\* main and dotlock_dispatch: the options are read and the file is prepared.
Begin(p, path, opt) ==
    dl' = [dl EXCEPT ![p] = [Quit EXCEPT !.pc = Prepared(path), !.file = Dereference(path),
                                         !.opt = opt]]

\* A fresh temporary file; a lock of an earlier run is no link to it.
Open(p) ==
    /\ Run(p, "open")
    /\ lock' = [f \in Paths |-> IF lock[f] = p THEN Stale ELSE lock[f]]
    /\ Then(p, "link")
    /\ UNCHANGED usurped

\* Fault: one attempt more.
AttemptsLeftOneMore(p) == dl[p].hard <= HardMax

AttemptsLeft(p) == dl[p].hard < HardMax

\* Fault: the temporary file is renamed, over a lock that exists.
LinkedOver(p, owner) == p

\* link makes no link where there is a lock file.
Linked(p, owner) == IF owner = None THEN p ELSE owner

\* The link is made where there is none; what link reports is not looked at.
Link(p) ==
    /\ Run(p, "link")
    /\ AttemptsLeft(p)
    /\ lock' = [lock EXCEPT ![dl[p].file] = Linked(p, @)]
    /\ dl' = [dl EXCEPT ![p].pc = "stat", ![p].hard = @ + 1]
    /\ UNCHANGED usurped

\* All attempts made: the loop ends as if the lock had been taken.
Exhausted(p) ==
    /\ Run(p, "link")
    /\ ~AttemptsLeft(p)
    /\ Then(p, "ok")
    /\ usurped' = (usurped \/ lock[dl[p].file] # p)
    /\ UNCHANGED lock

\* Fault: a lock file is taken for one's own.
WonAny(p) == lock[dl[p].file] # None

\* The temporary file has two links.
Won(p) == lock[dl[p].file] = p

\* The temporary file's size never changes, so every attempt counts.
Stat(p) ==
    /\ Run(p, "stat")
    /\ IF Won(p) THEN Then(p, "ok")
       ELSE IF dl[p].count + 1 > dl[p].opt.retry
            THEN Then(p, IF dl[p].opt.force THEN "force" ELSE "exist")
            ELSE dl' = [dl EXCEPT ![p].pc = "link", ![p].count = @ + 1]
    /\ UNCHANGED <<lock, usurped>>

\* -f removes the lock, whoever has it by now.
ForceUnlink(p) ==
    /\ Run(p, "force")
    /\ lock' = [lock EXCEPT ![dl[p].file] = None]
    /\ usurped' = (usurped \/ lock[dl[p].file] \in Procs)
    /\ dl' = [dl EXCEPT ![p].pc = "link", ![p].count = 0]

DotLockStep(p) == Open(p) \/ Link(p) \/ Exhausted(p) \/ Stat(p) \/ ForceUnlink(p)

\* A system call fails, or the program is killed by a signal: the lock may be left.
\* A link that cannot be made looks like a lock of somebody else's.
DotLockFails(p) ==
    /\ \/ Run(p, "link") /\ AttemptsLeft(p)
          /\ dl' = [dl EXCEPT ![p].pc = "stat", ![p].hard = @ + 1]
       \/ dl[p].pc \in {"open", "link", "stat", "force"} /\ Then(p, "error")
    /\ UNCHANGED <<lock, usurped>>

\* dotlock_unlock: the lock file is removed, whosever it is.
Unlinked(path) == [lock EXCEPT ![Dereference(path)] = None]

DotLockOK ==
    /\ lock \in [Paths -> Procs \cup {None, Stale}]
    /\ \A p \in Procs :
         /\ dl[p].pc \in {"none", "open", "link", "stat", "force", "ok", "exist", "error"}
         /\ dl[p].file \in Paths \cup {None}
         /\ dl[p].opt \in [retry : Nat, force : BOOLEAN]
         /\ dl[p].hard \in 0..HardMax /\ dl[p].count \in 0..HardMax
    /\ usurped \in BOOLEAN
=============================================================================
