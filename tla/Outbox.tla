------------------------------- MODULE Outbox --------------------------------
(***************************************************************************)
(* Sending the outbox: send of src/src/zlibs/email under the lock and      *)
(* unlock of src/src/zlibs/locking, which run dotlock.  Several senders,   *)
(* other users of the same dot lock with options of their own, mails that  *)
(* are queued meanwhile, failures, signals and kills.                      *)
(***************************************************************************)
EXTENDS DotLock, FiniteSetsExt

CONSTANTS
    Senders, Others,  \* shells that send; other programs that lock the outbox
    OtherPaths, OtherOptions,  \* how the others name the outbox, and their options
    Outbox,           \* the path the shells lock
    Mails,            \* mails, numbered in the order of their file names
    Cut,              \* a pid file whose writer failed
    MaxMishaps, MaxAsks  \* bounds on failures, signals and kills, and on what the others ask

ASSUME OutboxAssumption ==
    /\ Procs = Senders \cup Others /\ Senders \cap Others = {}
    /\ Outbox \in Paths /\ OtherPaths \subseteq Paths
    /\ OtherOptions \subseteq [retry : Nat, force : BOOLEAN]
    /\ Mails \subseteq Nat /\ IsFiniteSet(Mails)
    /\ Cut \notin Procs \cup {None}
    /\ MaxMishaps \in Nat /\ MaxAsks \in Nat

VARIABLES
    sh,                       \* per sender: where its send stands, and its locals
    pid,                      \* what outbox.pid holds
    queued, sent,             \* the mails in the outbox and in sent
    accepted,                 \* per mail: how often the server has taken it
    mishaps, asks,            \* failures, signals and kills so far; requests of the others
    entered,                  \* history: the mails that have been in the outbox
    lapses,                   \* history, per mail: taken, and left in the outbox all the same
    orphaned,                 \* history: a lock was left behind
    misreported               \* history: a release was reported failed that had been made

mail == <<queued, sent, accepted, entered, lapses>>
locking == <<lock, dl, usurped>>
env == <<mishaps, asks>>
vars == <<locking, sh, pid, mail, env, orphaned, misreported>>

Away == [pc |-> "idle", queue |-> {}, cur |-> 0, out |-> "none",
         interrupted |-> FALSE, lost |-> FALSE]

Init ==
    /\ DotLockInit
    /\ sh = [p \in Senders |-> Away]
    /\ pid = None
    /\ queued \in SUBSET Mails
    /\ entered = queued
    /\ sent = {}
    /\ accepted = [m \in Mails |-> 0]
    /\ mishaps = 0 /\ asks = 0
    /\ lapses = [m \in Mails |-> 0]
    /\ orphaned = FALSE /\ misreported = FALSE

At(p, l) == p \in Senders /\ sh[p].pc = l
Goto(p, l) == sh' = [sh EXCEPT ![p].pc = l]
Return(p) == sh' = [sh EXCEPT ![p] = Away]
Same == UNCHANGED <<env, orphaned, misreported>>

-----------------------------------------------------------------------------
(* lock *)

Send(p) ==
    /\ At(p, "idle") /\ Run(p, "none")
    /\ Goto(p, "lock")
    /\ Begin(p, Outbox, Plain)
    /\ UNCHANGED <<lock, usurped, pid, mail>> /\ Same

\* dotlock's status; only 0 goes on.
Locked(p) ==
    /\ At(p, "lock") /\ dl[p].pc \in {"ok", "exist", "error"}
    /\ IF Run(p, "ok") THEN Goto(p, "pid") ELSE Return(p)
    /\ Done(p)
    /\ orphaned' = (orphaned \/ (Run(p, "error") /\ Won(p)))
    /\ UNCHANGED <<lock, usurped, pid, mail, env, misreported>>

WritePid(p) ==
    /\ At(p, "pid")
    /\ pid' = p
    /\ Goto(p, "list")
    /\ UNCHANGED <<locking, mail>> /\ Same

\* Fault: the lock is kept when its owner's pid could not be written.
WithoutPidKept == "idle"

\* Where a pid that cannot be written leads: the lock is given back.
WithoutPid == "giveback"

WritePidFails(p) ==
    /\ At(p, "pid")
    /\ pid' \in {pid, Cut}
    /\ Goto(p, WithoutPid)
    /\ UNCHANGED <<locking, mail, orphaned, misreported>>

\* dotlock -u, with no look at its status.
GiveBack(p) ==
    /\ At(p, "giveback")
    /\ lock' = Unlinked(Outbox)
    /\ Return(p)
    /\ UNCHANGED <<dl, usurped, pid, mail>> /\ Same

-----------------------------------------------------------------------------
(* The loop of send; its traps are set by now *)

\* The queue is read under the lock.  A shell that a signal reached before the traps
\* were set has unset its variables and looks in the wrong place.
List(p) ==
    /\ At(p, "list")
    /\ sh' = [sh EXCEPT ![p].pc = "next", ![p].queue = IF sh[p].lost THEN {} ELSE queued]
    /\ UNCHANGED <<locking, pid, mail>> /\ Same

Remaining(p) == sh[p].queue \ {Min(sh[p].queue)}

Leaves(p) == sh' = [sh EXCEPT ![p] = [Away EXCEPT !.pc = "unlock", !.lost = sh[p].lost]]

NextMail(p) ==
    /\ At(p, "next")
    /\ IF sh[p].queue = {} \/ sh[p].interrupted THEN Leaves(p)
       ELSE sh' = [sh EXCEPT ![p].pc = "smtp", ![p].cur = Min(sh[p].queue),
                             ![p].queue = Remaining(p)]
    /\ UNCHANGED <<locking, pid, mail>> /\ Same

\* smtp_send: the server takes the mail or not.  A mail that is gone cannot be read.
Smtp(p) ==
    /\ At(p, "smtp")
    /\ \E out \in {"ok", "refused"} :
         /\ out = "ok" => sh[p].cur \in queued
         /\ accepted' = [accepted EXCEPT ![sh[p].cur] = IF out = "ok" THEN @ + 1 ELSE @]
         /\ sh' = [sh EXCEPT ![p].pc = "judge", ![p].out = out]
    /\ UNCHANGED <<locking, pid, queued, sent, entered, lapses>> /\ Same

\* The server takes it and the answer is lost.
SmtpFails(p) ==
    /\ At(p, "smtp") /\ sh[p].cur \in queued
    /\ accepted' = [accepted EXCEPT ![sh[p].cur] = @ + 1]
    /\ lapses' = [lapses EXCEPT ![sh[p].cur] = @ + 1]
    /\ sh' = [sh EXCEPT ![p].pc = "judge", ![p].out = "refused"]
    /\ UNCHANGED <<locking, pid, queued, sent, entered, orphaned, misreported>>

\* Where the status leads: an interruption ends the run whatever the status is.
Judge(p) ==
    /\ At(p, "judge")
    /\ IF sh[p].interrupted THEN Leaves(p)
       ELSE Goto(p, IF sh[p].out = "ok" THEN "file" ELSE "next")
    /\ lapses' = [lapses EXCEPT ![sh[p].cur] =
                    IF sh[p].interrupted /\ sh[p].out = "ok" THEN @ + 1 ELSE @]
    /\ UNCHANGED <<locking, pid, queued, sent, accepted, entered>> /\ Same

\* deliver sent, then rm.
FileSent(p) ==
    /\ At(p, "file")
    /\ sent' = sent \cup {sh[p].cur}
    /\ Goto(p, "rm")
    /\ UNCHANGED <<locking, pid, queued, accepted, entered, lapses>> /\ Same

Remove(p) ==
    /\ At(p, "rm")
    /\ queued' = queued \ {sh[p].cur}
    /\ Goto(p, "next")
    /\ UNCHANGED <<locking, pid, sent, accepted, entered, lapses>> /\ Same

\* Fault: a mail that could not be filed is removed all the same.
UnfiledRemoved == "rm"

\* Where a mail that cannot be filed, or be removed, leads.
Unfiled == "next"

FileFails(p) ==
    /\ sh[p].pc \in {"file", "rm"}
    /\ Goto(p, IF At(p, "file") THEN Unfiled ELSE "next")
    /\ lapses' = [lapses EXCEPT ![sh[p].cur] = @ + 1]
    /\ UNCHANGED <<locking, pid, queued, sent, accepted, entered, orphaned, misreported>>

-----------------------------------------------------------------------------
(* unlock, in the always block *)

\* Fault: the marker is removed once the lock is free.
UnlockStepsReleaseFirst == <<"release", "rmpid">>

\* The marker is removed while exclusion is still held.
UnlockSteps == <<"rmpid", "release">>

After(p, l) == IF l = UnlockSteps[1] THEN Goto(p, UnlockSteps[2]) ELSE Return(p)

Own(p) == pid = p /\ ~sh[p].lost

\* pidcheck: a lock that is not ours is left alone.
Unlock(p) ==
    /\ At(p, "unlock")
    /\ IF Own(p) THEN Goto(p, UnlockSteps[1]) ELSE Return(p)
    /\ orphaned' = (orphaned \/ ~Own(p))
    /\ UNCHANGED <<locking, pid, mail, env, misreported>>

RmPid(p) ==
    /\ At(p, "rmpid")
    /\ pid' = None
    /\ After(p, "rmpid")
    /\ UNCHANGED <<locking, mail>> /\ Same

\* dotlock -u; a lock that is gone cannot be removed, and the marker is written again.
Release(p) ==
    /\ At(p, "release")
    /\ IF lock[Dereference(Outbox)] # None THEN After(p, "release") ELSE Goto(p, "repid")
    /\ lock' = Unlinked(Outbox)
    /\ UNCHANGED <<dl, usurped, pid, mail>> /\ Same

\* dotlock -u fails, or dies once it has removed the lock; the marker is written again.
ReleaseFails(p) ==
    /\ At(p, "release")
    /\ \/ UNCHANGED <<lock, misreported>> /\ orphaned' = TRUE
       \/ lock' = Unlinked(Outbox) /\ misreported' = TRUE /\ UNCHANGED orphaned
    /\ Goto(p, "repid")
    /\ UNCHANGED <<dl, usurped, pid, mail>>

RePid(p) ==
    /\ At(p, "repid")
    /\ pid' = p
    /\ Return(p)
    /\ UNCHANGED <<locking, mail>> /\ Same

\* rm fails, or dotlock -u after a pid that could not be written: the lock stays.
KeepsLock(p) ==
    /\ sh[p].pc \in {"rmpid", "giveback"}
    /\ Return(p)
    /\ orphaned' = TRUE
    /\ UNCHANGED <<locking, pid, mail, misreported>>

-----------------------------------------------------------------------------
(* Other users of the lock, and the environment *)

Ask(o) ==
    /\ Run(o, "none") /\ asks < MaxAsks
    /\ asks' = asks + 1
    /\ \E path \in OtherPaths, opt \in OtherOptions : Begin(o, path, opt)
    /\ UNCHANGED <<lock, usurped, sh, pid, mail, mishaps, orphaned, misreported>>

\* Done with the lock, or refused.
Leave(o) ==
    /\ dl[o].pc \in {"ok", "exist", "error"}
    /\ lock' = IF Run(o, "ok") THEN Unlinked(dl[o].file) ELSE lock
    /\ Done(o)
    /\ orphaned' = (orphaned \/ (Run(o, "error") /\ lock[dl[o].file] = o))
    /\ UNCHANGED <<usurped, sh, pid, mail, env, misreported>>

\* stdin_queue: deliver outbox, with no lock, under a name of its own.  A delivery whose
\* checksum is wrong is taken back there, and is no mail of the outbox here.
Enqueue(m) ==
    /\ m \notin entered
    /\ queued' = queued \cup {m} /\ entered' = entered \cup {m}
    /\ UNCHANGED <<locking, sh, pid, sent, accepted, lapses>> /\ Same

Mishap == mishaps < MaxMishaps /\ mishaps' = mishaps + 1 /\ UNCHANGED asks

SenderFails(p) ==
    \/ WritePidFails(p) \/ SmtpFails(p) \/ FileFails(p) \/ ReleaseFails(p) \/ KeepsLock(p)

Fail(p) ==
    /\ Mishap
    /\ \/ p \in Senders /\ SenderFails(p)
       \/ DotLockFails(p) /\ UNCHANGED <<sh, pid, mail, orphaned, misreported>>

\* Before send has set its traps the framework's handler unsets the shell's
\* variables and lets it go on; from then on the flag is set.
Signal(p) ==
    /\ Mishap /\ ~At(p, "idle")
    /\ sh' = IF sh[p].pc \in {"lock", "pid"} THEN [sh EXCEPT ![p].lost = TRUE]
             ELSE [sh EXCEPT ![p].interrupted = TRUE]
    /\ UNCHANGED <<locking, pid, mail, orphaned, misreported>>

\* The shell dies; the dotlock it waits for dies with it, or goes on.
Kill(p) ==
    /\ Mishap /\ ~At(p, "idle")
    /\ Return(p)
    /\ Done(p) \/ (At(p, "lock") /\ UNCHANGED dl)
    /\ orphaned' = (orphaned \/ (lock[Dereference(Outbox)] = p /\ dl'[p].pc = "none"))
    /\ lapses' = [m \in Mails |-> IF m = sh[p].cur /\ sh[p].out = "ok"
                                     /\ sh[p].pc \in {"judge", "file", "rm"}
                                  THEN lapses[m] + 1 ELSE lapses[m]]
    /\ UNCHANGED <<lock, usurped, pid, queued, sent, accepted, entered, misreported>>

\* Nobody waits for the status of a dotlock that outlived its shell.
Outlived(p) ==
    /\ At(p, "idle") /\ dl[p].pc \in {"ok", "exist", "error"}
    /\ Done(p)
    /\ orphaned' = (orphaned \/ Won(p))
    /\ UNCHANGED <<lock, usurped, sh, pid, mail, env, misreported>>

Step(p) ==
    \/ Locked(p) \/ WritePid(p) \/ GiveBack(p) \/ List(p) \/ NextMail(p) \/ Smtp(p) \/ Judge(p)
    \/ FileSent(p) \/ Remove(p) \/ Unlock(p) \/ RmPid(p) \/ Release(p) \/ RePid(p)
    \/ Outlived(p)

Dot(p) == DotLockStep(p) /\ UNCHANGED <<sh, pid, mail>> /\ Same

Next ==
    \/ \E p \in Senders : Send(p) \/ Step(p) \/ Signal(p) \/ Kill(p)
    \/ \E o \in Others : Ask(o) \/ Leave(o)
    \/ \E p \in Procs : Dot(p) \/ Fail(p)
    \/ \E m \in Mails : Enqueue(m)

Spec == Init /\ [][Next]_vars

-----------------------------------------------------------------------------
(* Properties *)

Sending == {"list", "next", "smtp", "judge", "file", "rm", "unlock", "rmpid"}

\* Types; a run of dotlock makes at most HARDMAXATTEMPTS attempts.
TypeOK ==
    /\ DotLockOK
    /\ \A p \in Senders :
         /\ sh[p].pc \in Sending \cup {"idle", "lock", "pid", "giveback", "release", "repid"}
         /\ sh[p].queue \subseteq Mails /\ sh[p].cur \in Mails \cup {0}
         /\ sh[p].out \in {"none", "ok", "refused"}
         /\ sh[p].interrupted \in BOOLEAN /\ sh[p].lost \in BOOLEAN
    /\ pid \in Senders \cup {None, Cut}
    /\ queued \subseteq Mails /\ sent \subseteq Mails /\ entered \subseteq Mails

Has(p) ==
    IF p \in Senders THEN sh[p].pc \in Sending \cup {"pid", "giveback", "release"} \/ Run(p, "ok")
    ELSE Run(p, "ok")

\* Whoever dotlock told that the outbox is locked has the lock, by whatever name it was
\* given and whatever failed, as long as nobody forced or out-waited a lock.
LockedMeansOwned ==
    ~usurped => \A p \in Procs :
        Has(p) => lock[IF p \in Senders THEN Dereference(Outbox) ELSE dl[p].file] = p

\* A lock on the outbox is somebody's who will remove it, unless a kill, a signal
\* before the traps, or a failure left it behind: no ordinary end of a send, and
\* none by a signal after that, leaves a lock.
LockAccounted ==
    ~orphaned => \A f \in Paths :
        /\ lock[f] # Stale
        /\ lock[f] \in Senders => Has(lock[f]) \/ dl[lock[f]].pc \in {"stat", "force", "error"}

\* outbox.pid names the sender that has the lock until that sender removes it: "A new
\* owner must not have its marker removed after we release the dotlock."
MarkerKept ==
    ~usurped /\ ~misreported => \A p \in Senders : sh[p].pc \in Sending => pid = p

\* Each mail is given to the server once, and again only where an earlier run was
\* interrupted, or failed, after the server had taken it: two senders never send one mail,
\* as long as nobody forced or out-waited a lock.
SentOnce == ~usurped => \A m \in Mails : accepted[m] <= 1 + lapses[m]

\* No mail is lost or filed unsent: one that has been in the outbox and is there no more
\* was taken by the server and is in sent, and sent holds only mails the server has taken.
Filed ==
    /\ \A m \in entered \ queued : m \in sent
    /\ \A m \in sent : accepted[m] > 0
=============================================================================
