---------------------------- MODULE OutboxProofs ----------------------------
(***************************************************************************)
(* Proofs about Outbox and DotLock, for any number of senders, other users *)
(* of the lock, mails, names, links and attempts.                          *)
(***************************************************************************)
EXTENDS Outbox, WellFoundedInduction, TLAPS

-----------------------------------------------------------------------------
(* Symbolic links.  Induction is by the least counterexample.               *)

LEMMA Least ==
    ASSUME NEW T \in SUBSET Nat, T # {}
    PROVE  \E x \in T : \A y \in T : x <= y
  <1>1. IsWellFoundedOn(OpToRel(<, Nat), Nat)
    BY NatLessThanWellFounded, Zenon
  <1>2. PICK x \in T : \A y \in T : ~(<<y, x>> \in OpToRel(<, Nat))
    BY <1>1, WFMin, Zenon
  <1>3. \A y \in T : ~(y < x)
    BY <1>2 DEF OpToRel
  <1>. QED BY <1>3

Follow(f) == IF Links[f] \in Paths THEN Links[f] ELSE f

\* The chain of links from path, as Dereference computes it.
Chain(path, g) ==
    g = [n \in 0..MaxLinks |-> IF n = 0 THEN path
                               ELSE IF Links[g[n - 1]] \in Paths THEN Links[g[n - 1]] ELSE g[n - 1]]

LEMMA ChainExists ==
    ASSUME NEW path \in Paths
    PROVE  \E g : Chain(path, g)
  <1>. DEFINE Part(n, g) == g[0] = path /\ \A i \in 1..n : g[i] = Follow(g[i - 1])
              Bad == {n \in Nat : ~\E g \in [0..n -> Paths] : Part(n, g)}
  <1>1. Bad = {}
    <2>. SUFFICES ASSUME Bad # {} PROVE FALSE
      OBVIOUS
    <2>1. PICK n \in Bad : \A m \in Bad : n <= m
      BY Least
    <2>2. CASE n = 0
      <3>1. [i \in 0..0 |-> path] \in [0..0 -> Paths] OBVIOUS
      <3>2. Part(0, [i \in 0..0 |-> path]) OBVIOUS
      <3>. QED BY <2>2, <3>1, <3>2
    <2>3. CASE n # 0
      <3>1. n - 1 \in Nat /\ n - 1 \notin Bad
        <4>1. n \in Nat OBVIOUS
        <4>. HIDE DEF Bad
        <4>. QED BY <2>1, <2>3, <4>1
      <3>2. PICK g \in [0..(n - 1) -> Paths] : Part(n - 1, g) BY <3>1
      <3>. DEFINE h == [i \in 0..n |-> IF i = n THEN Follow(g[n - 1]) ELSE g[i]]
      <3>3. h \in [0..n -> Paths] BY <2>3, <3>2 DEF Follow
      <3>4. Part(n, h) BY <2>3, <3>2
      <3>. QED BY <3>3, <3>4
    <2>. QED BY <2>2, <2>3
  <1>2. PICK g \in [0..MaxLinks -> Paths] : Part(MaxLinks, g)
    BY <1>1, DotLockAssumption
  <1>3. Chain(path, g)
    BY <1>2, DotLockAssumption DEF Chain, Follow
  <1>. QED BY <1>3

LEMMA ChainTyped ==
    ASSUME NEW path \in Paths, NEW g, Chain(path, g)
    PROVE  \A n \in 0..MaxLinks : g[n] \in Paths /\ (Links[path] = File => g[n] = path)
  <1>. DEFINE Bad == {n \in 0..MaxLinks : ~(g[n] \in Paths /\ (Links[path] = File => g[n] = path))}
  <1>. SUFFICES ASSUME Bad # {} PROVE FALSE
    OBVIOUS
  <1>1. PICK n \in Bad : \A m \in Bad : n <= m
    <2>1. Bad \in SUBSET Nat BY DotLockAssumption
    <2>. HIDE DEF Bad
    <2>. QED BY <2>1, Least
  <1>2. n # 0 BY DotLockAssumption DEF Chain
  <1>3. n - 1 \in 0..MaxLinks /\ n - 1 \notin Bad BY <1>1, <1>2, DotLockAssumption
  <1>4. g[n] = IF Links[g[n - 1]] \in Paths THEN Links[g[n - 1]] ELSE g[n - 1]
    BY <1>2, DotLockAssumption DEF Chain
  <1>. QED BY <1>3, <1>4, DotLockAssumption

\* A name is followed to a name, and one that is no link to itself.
LEMMA DereferenceType ==
    ASSUME NEW path \in Paths
    PROVE  Dereference(path) \in Paths /\ (Links[path] = File => Dereference(path) = path)
  <1>. DEFINE at == CHOOSE g : Chain(path, g)
  <1>1. Chain(path, at) BY ChainExists, Zenon
  <1>2. Dereference(path) = at[MaxLinks] BY DEF Dereference, Chain
  <1>. HIDE DEF at
  <1>. QED BY <1>1, <1>2, ChainTyped, DotLockAssumption

-----------------------------------------------------------------------------
(* Types *)

\* The file the shells lock.
Target == Dereference(Outbox)

Statuses == {"none", "open", "link", "stat", "force", "ok", "exist", "error"}

Runs == [pc : Statuses, file : Paths \cup {None}, opt : [retry : Nat, force : BOOLEAN],
         hard : 0..HardMax, count : 0..HardMax]

Labels == Sending \cup {"idle", "lock", "pid", "giveback", "release", "repid"}

Shells == [pc : Labels, queue : SUBSET Mails, cur : Mails \cup {0}, out : {"none", "ok", "refused"},
           interrupted : BOOLEAN, lost : BOOLEAN]

StateType ==
    /\ lock \in [Paths -> Procs \cup {None, Stale}]
    /\ dl \in [Procs -> Runs]
    /\ sh \in [Senders -> Shells]
    /\ pid \in Senders \cup {None, Cut}
    /\ queued \in SUBSET Mails /\ sent \in SUBSET Mails /\ entered \in SUBSET Mails
    /\ accepted \in [Mails -> Nat] /\ lapses \in [Mails -> Nat]
    /\ usurped \in BOOLEAN /\ orphaned \in BOOLEAN /\ misreported \in BOOLEAN

\* Retries are counted after attempts, and a run that goes on locks a file that is no link.
RunInv ==
    \A p \in Procs :
        /\ dl[p].count <= dl[p].hard
        /\ Run(p, "stat") => dl[p].count < dl[p].hard
        /\ ~Run(p, "none") => dl[p].file \in Paths
        /\ dl[p].pc \notin {"none", "error"} => Links[dl[p].file] = File

\* A shell runs dotlock in lock and nowhere else, for the outbox; a run that outlives its
\* shell is a dead shell's.
ShellInv ==
    \A p \in Senders :
        /\ At(p, "lock") => ~Run(p, "none")
        /\ ~Run(p, "none") => sh[p].pc \in {"lock", "idle"} /\ dl[p].file = Target
        /\ sh[p].pc \in {"smtp", "judge", "file", "rm"} => sh[p].cur \in Mails
        /\ sh[p].pc \in {"file", "rm"} => sh[p].out = "ok"
        /\ At(p, "rm") => sh[p].cur \in sent

TypeInv == StateType /\ RunInv /\ ShellInv

LEMMA TargetType == Target \in Paths /\ Dereference(Outbox) = Target
  BY DereferenceType, OutboxAssumption DEF Target

LEMMA MinQueue ==
    ASSUME NEW S \in SUBSET Mails, S # {}
    PROVE  Min(S) \in S
  BY Least, OutboxAssumption DEF Min

LEMMA InitType == Init => TypeInv
  <1>. SUFFICES ASSUME Init PROVE TypeInv
    OBVIOUS
  <1>. USE DotLockAssumption, OutboxAssumption DEF Init, DotLockInit
  <1>1. dl \in [Procs -> Runs] BY DEF Quit, Plain, Runs, Statuses
  <1>2. sh \in [Senders -> Shells] BY DEF Away, Shells, Labels
  <1>3. StateType BY <1>1, <1>2 DEF StateType
  <1>4. RunInv BY DEF RunInv, Run, Quit
  <1>5. ShellInv BY DEF ShellInv, Run, At, Quit, Away
  <1>. QED BY <1>3, <1>4, <1>5 DEF TypeInv

\* A step of dotlock for a process.
LEMMA DotType ==
    ASSUME TypeInv, NEW p \in Procs, DotLockStep(p) \/ DotLockFails(p), UNCHANGED <<sh, pid, mail>>,
           orphaned' \in BOOLEAN, misreported' \in BOOLEAN
    PROVE  TypeInv'
  <1>. USE DotLockAssumption, OutboxAssumption
       DEF TypeInv, StateType, RunInv, ShellInv, Runs, Statuses, Run, Then, At, mail, AttemptsLeft, Won, Linked
  <1>1. CASE Open(p) BY <1>1, SMTT(60) DEF Open
  <1>2. CASE Link(p) BY <1>2 DEF Link
  <1>3. CASE Exhausted(p) BY <1>3 DEF Exhausted
  <1>4. CASE Stat(p)
    <2>1. CASE Won(p)
      <3>1. Run(p, "stat") /\ dl' = [dl EXCEPT ![p].pc = "ok"] /\ UNCHANGED <<lock, usurped>>
        BY <1>4, <2>1 DEF Stat
      <3>. QED BY <3>1
    <2>2. CASE ~Won(p) /\ dl[p].count + 1 > dl[p].opt.retry
      <3>1. PICK l \in {"force", "exist"} : dl' = [dl EXCEPT ![p].pc = l]
        BY <1>4, <2>2 DEF Stat
      <3>. QED BY <1>4, <3>1 DEF Stat
    <2>3. CASE ~Won(p) /\ ~(dl[p].count + 1 > dl[p].opt.retry)
      BY <1>4, <2>3, SMTT(40) DEF Stat
    <2>. QED BY <2>1, <2>2, <2>3
  <1>5. CASE ForceUnlink(p)
    <2>1. /\ Run(p, "force") /\ dl' = [dl EXCEPT ![p].pc = "link", ![p].count = 0]
          /\ lock' = [lock EXCEPT ![dl[p].file] = None]
          /\ usurped' \in BOOLEAN
      BY <1>5 DEF ForceUnlink
    <2>2. dl' \in [Procs -> Runs] /\ \A q \in Procs : dl'[q].file = dl[q].file
      BY <2>1
    <2>3. /\ dl'[p].pc = "link" /\ dl'[p].count = 0 /\ dl'[p].hard = dl[p].hard
          /\ \A q \in Procs \ {p} : dl'[q] = dl[q]
      BY <2>1
    <2>4. StateType'
      BY <2>1, <2>2
    <2>5. RunInv'
      <3>1. dl'[p].count <= dl'[p].hard
        BY <2>3
      <3>2. dl'[p].file \in Paths /\ Links[dl'[p].file] = File
        BY <2>1, <2>2
      <3>. QED BY <2>3, <3>1, <3>2
    <2>6. ShellInv'
      <3>1. \A q \in Senders : ~Run(q, "none")' <=> ~Run(q, "none")
        BY <2>1, <2>3
      <3>. HIDE DEF Run
      <3>. QED BY <2>2, <3>1
    <2>. QED BY <2>4, <2>5, <2>6
  <1>6. CASE DotLockFails(p)
    <2>1. CASE Run(p, "link") /\ AttemptsLeft(p) /\ dl' = [dl EXCEPT ![p].pc = "stat", ![p].hard = @ + 1]
      BY <1>6, <2>1 DEF DotLockFails
    <2>2. CASE dl[p].pc \in {"open", "link", "stat", "force"} /\ dl' = [dl EXCEPT ![p].pc = "error"]
      BY <1>6, <2>2 DEF DotLockFails
    <2>. QED BY <1>6, <2>1, <2>2 DEF DotLockFails
  <1>. QED BY <1>1, <1>2, <1>3, <1>4, <1>5, <1>6 DEF DotLockStep

\* dotlock is started for a name that is followed to a file, or reports an error.
LEMMA BeginType ==
    ASSUME StateType, RunInv, NEW p \in Procs, NEW path \in Paths,
           NEW opt \in [retry : Nat, force : BOOLEAN], Begin(p, path, opt)
    PROVE  /\ dl' \in [Procs -> Runs] /\ RunInv'
           /\ dl'[p].pc # "none" /\ dl'[p].file = Dereference(path)
           /\ dl'[p].pc \in {"open", "error"}
           /\ \A q \in Procs \ {p} : dl'[q] = dl[q]
  <1>. DEFINE f == Dereference(path)
  <1>1. f \in Paths BY DereferenceType
  <1>2. Prepared(path) = IF Links[f] = File THEN "open" ELSE "error" BY DEF Prepared
  <1>3. dl' = [dl EXCEPT ![p] = [Quit EXCEPT !.pc = Prepared(path), !.file = f, !.opt = opt]]
    BY DEF Begin
  <1>. HIDE DEF f
  <1>4. dl' \in [Procs -> Runs]
    <2>1. Prepared(path) \in Statuses BY <1>2 DEF Statuses
    <2>2. 0 \in 0..HardMax BY DotLockAssumption
    <2>. HIDE DEF Statuses
    <2>3. ASSUME NEW l \in Statuses
          PROVE  [Quit EXCEPT !.pc = l, !.file = f, !.opt = opt] \in Runs
      BY <1>1, <2>2 DEF Runs, Quit
    <2>4. [Quit EXCEPT !.pc = Prepared(path), !.file = f, !.opt = opt] \in Runs
      BY <2>1, <2>3
    <2>. QED BY <1>3, <2>4 DEF StateType
  <1>5. RunInv'
    BY <1>1, <1>2, <1>3, DotLockAssumption DEF StateType, RunInv, Run, Quit
  <1>. QED BY <1>2, <1>3, <1>4, <1>5 DEF StateType, f, Quit

LEMMA DoneType ==
    ASSUME StateType, RunInv, NEW p \in Procs, Done(p)
    PROVE  /\ dl' \in [Procs -> Runs] /\ RunInv' /\ dl'[p].pc = "none"
           /\ \A q \in Procs \ {p} : dl'[q] = dl[q]
  BY DotLockAssumption DEF StateType, RunInv, Run, Runs, Statuses, Done, Quit, Plain

LEMMA LockingType ==
    ASSUME TypeInv, NEW p \in Senders,
           Send(p) \/ Locked(p) \/ WritePid(p) \/ WritePidFails(p) \/ GiveBack(p)
    PROVE  TypeInv'
  <1>. USE DotLockAssumption, OutboxAssumption DEF TypeInv
  <1>1. p \in Procs OBVIOUS
  <1>2. CASE Send(p)
    <2>1. /\ sh' = [sh EXCEPT ![p].pc = "lock"] /\ Begin(p, Outbox, Plain)
          /\ UNCHANGED <<lock, usurped, pid, queued, sent, accepted, entered, lapses, orphaned, misreported>>
      BY <1>2 DEF Send, Goto, Same, mail
    <2>2. /\ dl' \in [Procs -> Runs] /\ RunInv'
          /\ dl'[p].pc # "none" /\ dl'[p].file = Target
          /\ \A q \in Procs \ {p} : dl'[q] = dl[q]
      BY <1>1, <2>1, BeginType DEF Plain, Target
    <2>3. sh' \in [Senders -> Shells] BY <2>1 DEF StateType, Shells, Labels, Sending
    <2>4. StateType' BY <2>1, <2>2, <2>3 DEF StateType
    <2>5. ShellInv' BY <2>1, <2>2 DEF StateType, ShellInv, Run, At, Shells
    <2>. QED BY <2>2, <2>4, <2>5
  <1>3. CASE Locked(p)
    <2>1. /\ At(p, "lock") /\ Done(p)
          /\ \/ sh' = [sh EXCEPT ![p].pc = "pid"]
             \/ sh' = [sh EXCEPT ![p] = Away]
          /\ orphaned' \in BOOLEAN
          /\ UNCHANGED <<lock, usurped, pid, queued, sent, accepted, entered, lapses, misreported>>
      BY <1>3 DEF Locked, Goto, Return, mail, StateType
    <2>2. /\ dl' \in [Procs -> Runs] /\ RunInv' /\ dl'[p].pc = "none"
          /\ \A q \in Procs \ {p} : dl'[q] = dl[q]
      BY <1>1, <2>1, DoneType
    <2>3. sh' \in [Senders -> Shells]
      <3>1. Away \in Shells BY DEF Shells, Labels, Away
      <3>2. CASE sh' = [sh EXCEPT ![p].pc = "pid"]
        BY <3>2 DEF StateType, Shells, Labels, Sending
      <3>. QED BY <2>1, <3>1, <3>2 DEF StateType
    <2>4. StateType' BY <2>1, <2>2, <2>3 DEF StateType
    <2>5. ShellInv' BY <2>1, <2>2 DEF StateType, ShellInv, Run, At, Shells, Away
    <2>. QED BY <2>2, <2>4, <2>5
  <1>4. CASE WritePid(p)
    BY <1>4 DEF WritePid, Goto, Same, mail, locking, StateType, RunInv, ShellInv, Shells, Labels, Sending,
                Run, At
  <1>5. CASE WritePidFails(p)
    BY <1>5, SMTT(120) DEF WritePidFails, WithoutPid, Goto, mail, locking, StateType, RunInv, ShellInv, Shells, Labels,
                Run, At
  <1>6. CASE GiveBack(p)
    BY <1>6, TargetType DEF GiveBack, Unlinked, Return, Same, mail, StateType, RunInv, ShellInv, Shells, Labels,
                Run, At, Away
  <1>. QED BY <1>2, <1>3, <1>4, <1>5, <1>6

\* What the loop sets in a shell is of its type.
LEMMA ShellSet ==
    ASSUME sh \in [Senders -> Shells], NEW p \in Senders, NEW l \in Labels,
           NEW q \in SUBSET Mails, NEW m \in Mails \cup {0}, NEW o \in {"none", "ok", "refused"}
    PROVE  /\ [sh EXCEPT ![p].pc = l, ![p].cur = m, ![p].queue = q] \in [Senders -> Shells]
           /\ [sh EXCEPT ![p].pc = l, ![p].queue = q] \in [Senders -> Shells]
           /\ [sh EXCEPT ![p].pc = l, ![p].out = o] \in [Senders -> Shells]
  <1>1. sh[p] \in Shells OBVIOUS
  <1>2. /\ [sh[p] EXCEPT !.pc = l, !.cur = m, !.queue = q] \in Shells
        /\ [sh[p] EXCEPT !.pc = l, !.queue = q] \in Shells
        /\ [sh[p] EXCEPT !.pc = l, !.out = o] \in Shells
    BY <1>1, ZenonT(60) DEF Shells
  <1>3. /\ [sh EXCEPT ![p] = [sh[p] EXCEPT !.pc = l, !.cur = m, !.queue = q]] \in [Senders -> Shells]
        /\ [sh EXCEPT ![p] = [sh[p] EXCEPT !.pc = l, !.queue = q]] \in [Senders -> Shells]
        /\ [sh EXCEPT ![p] = [sh[p] EXCEPT !.pc = l, !.out = o]] \in [Senders -> Shells]
    BY <1>2
  <1>. QED BY <1>3

LEMMA LoopType ==
    ASSUME TypeInv, NEW p \in Senders,
           List(p) \/ NextMail(p) \/ Smtp(p) \/ SmtpFails(p) \/ Judge(p) \/ FileSent(p) \/ Remove(p) \/ FileFails(p)
    PROVE  TypeInv'
  <1>. USE OutboxAssumption DEF TypeInv, StateType, RunInv, ShellInv, Shells, Labels, Sending, Run, At, Goto,
           Same, mail, locking
  <1>1. CASE List(p)
    <2>1. PICK q \in SUBSET Mails : sh' = [sh EXCEPT ![p].pc = "next", ![p].queue = q]
      BY <1>1 DEF List
    <2>2. /\ At(p, "list")
          /\ UNCHANGED <<lock, dl, usurped, pid, queued, sent, accepted, entered, lapses, orphaned, misreported>>
      BY <1>1 DEF List
    <2>3. sh' \in [Senders -> Shells] 
      <3>1. "next" \in Labels OBVIOUS
      <3>. HIDE DEF Shells, Labels, ShellInv, RunInv
      <3>. QED BY <2>1, <3>1, ShellSet
    <2>4. ShellInv' BY <2>1, <2>2
    <2>. QED BY <2>2, <2>3, <2>4
  <1>2. CASE NextMail(p)
    <2>1. CASE sh' = [sh EXCEPT ![p] = [Away EXCEPT !.pc = "unlock", !.lost = sh[p].lost]]
      BY <1>2, <2>1 DEF NextMail, Away
    <2>2. CASE ~(sh[p].queue = {} \/ sh[p].interrupted)
      <3>1. Min(sh[p].queue) \in Mails BY <2>2, MinQueue
      <3>2. Remaining(p) \in SUBSET Mails BY DEF Remaining
      <3>3. sh' = [sh EXCEPT ![p].pc = "smtp", ![p].cur = Min(sh[p].queue), ![p].queue = Remaining(p)]
        BY <1>2, <2>2 DEF NextMail
      <3>4. PICK m \in Mails, q \in SUBSET Mails :
              sh' = [sh EXCEPT ![p].pc = "smtp", ![p].cur = m, ![p].queue = q]
        BY <3>1, <3>2, <3>3
      <3>5. /\ At(p, "next")
            /\ UNCHANGED <<lock, dl, usurped, pid, queued, sent, accepted, entered, lapses, orphaned, misreported>>
        BY <1>2 DEF NextMail
      <3>6. sh' \in [Senders -> Shells]
        <4>1. "smtp" \in Labels OBVIOUS
        <4>. HIDE DEF Shells, Labels, ShellInv, RunInv
        <4>. QED BY <3>4, <4>1, ShellSet
      <3>7. ShellInv' BY <3>4, <3>5
      <3>. QED BY <3>5, <3>6, <3>7
    <2>. QED BY <1>2, <2>1, <2>2 DEF NextMail, Leaves
  <1>3. CASE Smtp(p)
    <2>1. PICK out \in {"ok", "refused"} :
            /\ accepted' = [accepted EXCEPT ![sh[p].cur] = IF out = "ok" THEN @ + 1 ELSE @]
            /\ sh' = [sh EXCEPT ![p].pc = "judge", ![p].out = out]
      BY <1>3 DEF Smtp
    <2>2. /\ At(p, "smtp")
          /\ UNCHANGED <<lock, dl, usurped, pid, queued, sent, entered, lapses, orphaned, misreported>>
      BY <1>3 DEF Smtp
    <2>3. accepted' \in [Mails -> Nat] BY <2>1, <2>2
    <2>4. sh' \in [Senders -> Shells]
      <3>1. "judge" \in Labels OBVIOUS
      <3>. HIDE DEF Shells, Labels, ShellInv, RunInv
      <3>. QED BY <2>1, <3>1, ShellSet
    <2>5. ShellInv' BY <2>1, <2>2
    <2>. QED BY <2>2, <2>3, <2>4, <2>5
  <1>4. CASE SmtpFails(p)
    <2>1. accepted' \in [Mails -> Nat] /\ lapses' \in [Mails -> Nat] BY <1>4 DEF SmtpFails
    <2>2. /\ At(p, "smtp") /\ sh' = [sh EXCEPT ![p].pc = "judge", ![p].out = "refused"]
          /\ UNCHANGED <<lock, dl, usurped, pid, queued, sent, entered, orphaned, misreported>>
      BY <1>4 DEF SmtpFails
    <2>3. sh' \in [Senders -> Shells]
      <3>1. "judge" \in Labels OBVIOUS
      <3>. HIDE DEF Shells, Labels, ShellInv, RunInv
      <3>. QED BY <2>2, <3>1, ShellSet
    <2>4. ShellInv' BY <2>2
    <2>. QED BY <2>1, <2>2, <2>3, <2>4
  <1>5. CASE Judge(p)
    <2>1. lapses' \in [Mails -> Nat] BY <1>5 DEF Judge
    <2>2. CASE sh' = [sh EXCEPT ![p] = [Away EXCEPT !.pc = "unlock", !.lost = sh[p].lost]]
      BY <1>5, <2>1, <2>2 DEF Judge, Away
    <2>3. CASE sh' = [sh EXCEPT ![p].pc = IF sh[p].out = "ok" THEN "file" ELSE "next"]
      BY <1>5, <2>1, <2>3, SMTT(40) DEF Judge
    <2>. QED BY <1>5, <2>2, <2>3 DEF Judge, Leaves
  <1>6. CASE FileSent(p) BY <1>6, SMTT(60) DEF FileSent
  <1>7. CASE Remove(p) BY <1>7, SMTT(60) DEF Remove
  <1>8. CASE FileFails(p) BY <1>8, SMTT(40) DEF FileFails, Unfiled
  <1>. QED BY <1>1, <1>2, <1>3, <1>4, <1>5, <1>6, <1>7, <1>8

LEMMA UnlockType ==
    ASSUME TypeInv, NEW p \in Senders,
           Unlock(p) \/ RmPid(p) \/ Release(p) \/ ReleaseFails(p) \/ RePid(p) \/ KeepsLock(p)
    PROVE  TypeInv'
  <1>. USE OutboxAssumption, TargetType
       DEF TypeInv, StateType, RunInv, ShellInv, Run, At
  <1>1. UnlockSteps[1] = "rmpid" /\ UnlockSteps[2] = "release" BY DEF UnlockSteps
  <1>2. /\ sh[p].pc \in {"unlock", "rmpid", "release", "repid", "giveback"}
        /\ \/ \E l \in {"rmpid", "release", "repid"} : sh' = [sh EXCEPT ![p].pc = l]
           \/ sh' = [sh EXCEPT ![p] = Away]
        /\ UNCHANGED <<dl, usurped, queued, sent, accepted, entered, lapses>>
    BY <1>1 DEF Unlock, RmPid, Release, ReleaseFails, RePid, KeepsLock, After, Goto, Return, Same, mail, locking
  <1>3. /\ lock' \in [Paths -> Procs \cup {None, Stale}]
        /\ pid' \in Senders \cup {None, Cut}
        /\ orphaned' \in BOOLEAN /\ misreported' \in BOOLEAN
    BY DEF Unlock, RmPid, Release, ReleaseFails, RePid, KeepsLock, Unlinked, Same, mail, locking
  <1>4. CASE sh' = [sh EXCEPT ![p] = Away]
    <2>1. sh' \in [Senders -> Shells] BY <1>4 DEF Shells, Labels, Away
    <2>2. ShellInv' BY <1>2, <1>4 DEF Away
    <2>. QED BY <1>2, <1>3, <2>1, <2>2
  <1>5. CASE \E l \in {"rmpid", "release", "repid"} : sh' = [sh EXCEPT ![p].pc = l]
    <2>1. PICK l \in {"rmpid", "release", "repid"} : sh' = [sh EXCEPT ![p].pc = l] BY <1>5
    <2>2. sh' \in [Senders -> Shells] BY <2>1, SMTT(40) DEF Shells, Labels, Sending
    <2>3. ShellInv' BY <1>2, <2>1 DEF Shells
    <2>. QED BY <1>2, <1>3, <2>2, <2>3
  <1>. QED BY <1>2, <1>4, <1>5

LEMMA HitType ==
    ASSUME TypeInv, NEW p \in Senders, Signal(p) \/ Kill(p) \/ Outlived(p)
    PROVE  TypeInv'
  <1>. USE OutboxAssumption DEF TypeInv
  <1>1. CASE Signal(p)
    <2>1. UNCHANGED <<lock, dl, usurped, pid, queued, sent, accepted, entered, lapses, orphaned, misreported>>
      BY <1>1 DEF Signal, locking, mail
    <2>2. sh' = [sh EXCEPT ![p].lost = TRUE] \/ sh' = [sh EXCEPT ![p].interrupted = TRUE]
      BY <1>1 DEF Signal
    <2>3. sh' \in [Senders -> Shells]
      <3>1. sh[p] \in Shells BY DEF StateType
      <3>2. ASSUME NEW b \in BOOLEAN
            PROVE  [sh[p] EXCEPT !.lost = b] \in Shells /\ [sh[p] EXCEPT !.interrupted = b] \in Shells
        BY <3>1 DEF Shells
      <3>3. \/ sh' = [sh EXCEPT ![p] = [sh[p] EXCEPT !.lost = TRUE]]
            \/ sh' = [sh EXCEPT ![p] = [sh[p] EXCEPT !.interrupted = TRUE]]
        BY <2>2
      <3>. QED BY <3>2, <3>3 DEF StateType
    <2>4. \A q \in Senders : sh'[q].pc = sh[q].pc /\ sh'[q].cur = sh[q].cur /\ sh'[q].out = sh[q].out
      BY <2>2, SMTT(40) DEF StateType, Shells
    <2>. QED BY <2>1, <2>3, <2>4 DEF StateType, RunInv, ShellInv, Run, At
  <1>2. CASE Kill(p)
    <2>1. /\ sh' = [sh EXCEPT ![p] = Away] /\ (Done(p) \/ (At(p, "lock") /\ UNCHANGED dl))
          /\ UNCHANGED <<lock, usurped, pid, queued, sent, accepted, entered, misreported>>
          /\ orphaned' \in BOOLEAN /\ lapses' \in [Mails -> Nat]
      BY <1>2 DEF Kill, Return, StateType
    <2>2. /\ dl' \in [Procs -> Runs] /\ RunInv' /\ (dl'[p].pc = "none" \/ (At(p, "lock") /\ dl' = dl))
          /\ \A q \in Procs \ {p} : dl'[q] = dl[q]
      <3>1. CASE Done(p) BY <3>1, DoneType
      <3>2. CASE At(p, "lock") /\ UNCHANGED dl BY <3>2 DEF StateType, RunInv, Run
      <3>. QED BY <2>1, <3>1, <3>2
    <2>3. sh' \in [Senders -> Shells] BY <2>1 DEF StateType, Shells, Labels, Away
    <2>4. ShellInv' BY <2>1, <2>2 DEF StateType, ShellInv, Run, At, Away
    <2>. QED BY <2>1, <2>2, <2>3, <2>4 DEF StateType
  <1>3. CASE Outlived(p)
    <2>1. /\ Done(p) /\ orphaned' \in BOOLEAN /\ At(p, "idle")
          /\ UNCHANGED <<lock, usurped, sh, pid, queued, sent, accepted, entered, lapses, misreported>>
      BY <1>3 DEF Outlived, mail, StateType
    <2>2. /\ dl' \in [Procs -> Runs] /\ RunInv' /\ dl'[p].pc = "none"
          /\ \A q \in Procs \ {p} : dl'[q] = dl[q]
      BY <2>1, DoneType
    <2>. QED BY <2>1, <2>2 DEF StateType, ShellInv, Run, At
  <1>. QED BY <1>1, <1>2, <1>3

LEMMA OtherType ==
    ASSUME TypeInv, NEW o \in Others, Ask(o) \/ Leave(o)
    PROVE  TypeInv'
  <1>. USE OutboxAssumption DEF TypeInv
  <1>1. o \in Procs /\ o \notin Senders OBVIOUS
  <1>2. CASE Ask(o)
    <2>1. PICK path \in Paths, opt \in [retry : Nat, force : BOOLEAN] : Begin(o, path, opt)
      BY <1>2 DEF Ask
    <2>2. UNCHANGED <<lock, usurped, sh, pid, queued, sent, accepted, entered, lapses, orphaned, misreported>>
      BY <1>2 DEF Ask, mail
    <2>3. dl' \in [Procs -> Runs] /\ RunInv' /\ \A q \in Procs \ {o} : dl'[q] = dl[q]
      BY <1>1, <2>1, BeginType
    <2>. QED BY <1>1, <2>2, <2>3 DEF StateType, ShellInv, Run, At
  <1>3. CASE Leave(o)
    <2>1. dl' \in [Procs -> Runs] /\ RunInv' /\ \A q \in Procs \ {o} : dl'[q] = dl[q]
      BY <1>1, <1>3, DoneType DEF Leave
    <2>2. /\ UNCHANGED <<usurped, sh, pid, queued, sent, accepted, entered, lapses, misreported>>
          /\ orphaned' \in BOOLEAN /\ lock' \in [Paths -> Procs \cup {None, Stale}]
      BY <1>3 DEF Leave, Unlinked, mail, StateType
    <2>. QED BY <1>1, <2>1, <2>2 DEF StateType, ShellInv, Run, At
  <1>. QED BY <1>2, <1>3

LEMMA EnqueueType ==
    ASSUME TypeInv, NEW m \in Mails, Enqueue(m)
    PROVE  TypeInv'
  BY DEF TypeInv, StateType, RunInv, ShellInv, Run, At, Enqueue, locking, Same

\* The steps of the specification, with what each leaves alone.
LEMMA NextCases ==
    ASSUME [Next]_vars
    PROVE  \/ \E p \in Senders :
                \/ Send(p) \/ Locked(p) \/ WritePid(p) \/ WritePidFails(p) \/ GiveBack(p)
                \/ List(p) \/ NextMail(p) \/ Smtp(p) \/ SmtpFails(p)
                \/ Judge(p) \/ FileSent(p) \/ Remove(p) \/ FileFails(p)
                \/ Unlock(p) \/ RmPid(p) \/ Release(p) \/ ReleaseFails(p) \/ RePid(p) \/ KeepsLock(p)
                \/ Signal(p) \/ Kill(p) \/ Outlived(p)
           \/ \E o \in Others : Ask(o) \/ Leave(o)
           \/ \E p \in Procs : /\ DotLockStep(p) \/ DotLockFails(p)
                               /\ UNCHANGED <<sh, pid, mail, orphaned, misreported>>
           \/ \E m \in Mails : Enqueue(m)
           \/ UNCHANGED vars
  BY Zenon DEF Next, Step, Dot, Fail, SenderFails, Same

LEMMA NextType == TypeInv /\ [Next]_vars => TypeInv'
  <1>. SUFFICES ASSUME TypeInv, [Next]_vars PROVE TypeInv'
    OBVIOUS
  <1>1. CASE UNCHANGED vars
    BY <1>1 DEF vars, locking, mail, env, TypeInv, StateType, RunInv, ShellInv, Run, At
  <1>2. ASSUME NEW p \in Procs, DotLockStep(p) \/ DotLockFails(p),
               UNCHANGED <<sh, pid, mail, orphaned, misreported>>
        PROVE  TypeInv'
    BY <1>2, DotType DEF TypeInv, StateType
  <1>. QED BY <1>1, <1>2, NextCases, LockingType, LoopType, UnlockType, HitType, OtherType, EnqueueType

\* Types, and the bound on attempts: no run of dotlock links more than HARDMAXATTEMPTS
\* times, whatever its options, and retries never exceed attempts.
THEOREM TypeCorrect == Spec => []TypeOK
  <1>1. TypeInv => TypeOK
    BY DEF TypeInv, StateType, TypeOK, DotLockOK, Runs, Statuses, Shells, Labels
  <1>. QED BY <1>1, InitType, NextType, PTL DEF Spec

-----------------------------------------------------------------------------
(* Exclusion *)

\* Where a shell has been told that it has the lock and has not given it back.
Holding == Sending \cup {"pid", "giveback", "release"}

\* The file that p locks.
Mine(p) == IF p \in Senders THEN Target ELSE dl[p].file

Owned(p) == Has(p) => lock[Mine(p)] = p

LEMMA OwnedAll == LockedMeansOwned <=> (~usurped => \A p \in Procs : Owned(p))
  BY DEF LockedMeansOwned, Owned, Mine, Target

LEMMA MineType ==
    ASSUME TypeInv, NEW p \in Procs, Has(p)
    PROVE  Mine(p) \in Paths
  <1>1. CASE p \in Senders BY <1>1, TargetType DEF Mine
  <1>2. CASE p \notin Senders
    <2>1. dl[p].pc = "ok" BY <1>2 DEF Has, Run
    <2>. QED BY <1>2, <2>1 DEF Mine, TypeInv, RunInv, Run
  <1>. QED BY <1>1, <1>2

\* The steps of a shell that has the lock, which leave the lock as it is.
LEMMA LoopFrame ==
    ASSUME TypeInv, NEW p \in Senders,
           \/ WritePid(p) \/ WritePidFails(p)
           \/ List(p) \/ NextMail(p) \/ Smtp(p) \/ SmtpFails(p)
           \/ Judge(p) \/ FileSent(p) \/ Remove(p) \/ FileFails(p)
           \/ Unlock(p) \/ RmPid(p) \/ RePid(p) \/ KeepsLock(p) \/ Signal(p)
    PROVE  /\ UNCHANGED <<lock, dl, usurped>>
           /\ \A q \in Senders \ {p} : sh'[q] = sh[q]
           /\ sh'[p].pc \in Holding => sh[p].pc \in Holding
  <1>. USE DEF TypeInv, StateType, Shells
  <1>1. UNCHANGED <<lock, dl, usurped>>
    BY DEF WritePid, WritePidFails, List, NextMail, Smtp, SmtpFails, Judge, FileSent, Remove, FileFails,
           Unlock, RmPid, RePid, KeepsLock, Signal, locking
  <1>2. CASE List(p) \/ NextMail(p) \/ Smtp(p) \/ SmtpFails(p) \/ Judge(p)
    <2>1. sh[p].pc \in Holding
      BY <1>2 DEF List, NextMail, Smtp, SmtpFails, Judge, At, Holding, Sending
    <2>2. \A q \in Senders \ {p} : sh'[q] = sh[q]
      BY <1>2 DEF List, NextMail, Smtp, SmtpFails, Judge, Leaves, Goto
    <2>. QED BY <1>1, <2>1, <2>2
  <1>3. CASE WritePid(p) \/ WritePidFails(p) \/ FileSent(p) \/ Remove(p) \/ FileFails(p)
    <2>1. sh[p].pc \in Holding
      BY <1>3 DEF WritePid, WritePidFails, FileSent, Remove, FileFails, At, Holding, Sending
    <2>2. \A q \in Senders \ {p} : sh'[q] = sh[q]
      BY <1>3 DEF WritePid, WritePidFails, FileSent, Remove, FileFails, Goto
    <2>. QED BY <1>1, <2>1, <2>2
  <1>4. CASE Unlock(p) \/ RmPid(p)
    <2>1. sh[p].pc \in Holding
      BY <1>4 DEF Unlock, RmPid, At, Holding, Sending
    <2>2. \A q \in Senders \ {p} : sh'[q] = sh[q]
      BY <1>4 DEF Unlock, RmPid, After, Goto, Return
    <2>. QED BY <1>1, <2>1, <2>2
  <1>5. CASE RePid(p) \/ KeepsLock(p)
    BY <1>1, <1>5 DEF RePid, KeepsLock, Return, Away, Holding, Sending
  <1>6. CASE Signal(p)
    <2>1. sh' = [sh EXCEPT ![p].lost = TRUE] \/ sh' = [sh EXCEPT ![p].interrupted = TRUE]
      BY <1>6 DEF Signal
    <2>. QED BY <1>1, <2>1
  <1>. QED BY <1>2, <1>3, <1>4, <1>5, <1>6

\* Giving the lock back takes it from nobody else.
LEMMA GiveBackOwned ==
    ASSUME TypeInv, LockedMeansOwned, NEW p \in Senders,
           GiveBack(p) \/ Release(p) \/ ReleaseFails(p)
    PROVE  LockedMeansOwned'
  <1>. SUFFICES ASSUME ~usurped', NEW q \in Procs, Has(q)' PROVE lock'[Mine(q)'] = q
    BY OwnedAll DEF Owned, LockedMeansOwned, Mine, Target
  <1>1. /\ sh[p].pc \in {"giveback", "release"} /\ sh'[p].pc \in {"idle", "repid"}
        /\ \A r \in Senders \ {p} : sh'[r] = sh[r]
        /\ UNCHANGED <<dl, usurped>>
        /\ lock' = lock \/ lock' = [lock EXCEPT ![Target] = None]
    <2>1. UnlockSteps[1] = "rmpid" BY DEF UnlockSteps
    <2>. QED BY <2>1 DEF GiveBack, Release, ReleaseFails, At, Return, Goto, After, Away, Unlinked,
                Target, TypeInv, StateType, Shells
  <1>2. Has(q) /\ Mine(q)' = Mine(q) /\ q # p
    BY <1>1, OutboxAssumption DEF Has, Run, Mine, Target, Sending, TypeInv, ShellInv, At
  <1>3. lock[Mine(q)] = q /\ lock[Target] = p
    <2>1. Has(p) /\ p \in Procs BY <1>1, OutboxAssumption DEF Has
    <2>. QED BY <1>1, <1>2, <2>1, OwnedAll DEF Owned, Mine
  <1>4. Mine(q) \in Paths BY <1>2, MineType
  <1>. QED BY <1>1, <1>2, <1>3, <1>4, TargetType DEF TypeInv, StateType

\* The steps of dotlock: a link is made only where there is no lock, a lock is won only
\* by the link, and force and exhaustion are accounted for.
LEMMA DotOwned ==
    ASSUME TypeInv, LockedMeansOwned, NEW p \in Procs, DotLockStep(p) \/ DotLockFails(p),
           UNCHANGED sh
    PROVE  LockedMeansOwned'
  <1>. SUFFICES ASSUME ~usurped', NEW q \in Procs, Has(q)' PROVE lock'[Mine(q)'] = q
    BY OwnedAll DEF Owned, LockedMeansOwned, Mine, Target
  <1>1. ~usurped
    BY DEF TypeInv, StateType, DotLockStep, Open, Link, Exhausted, Stat, ForceUnlink, DotLockFails
  <1>2. Has(q) => lock[Mine(q)] = q
    BY <1>1, OwnedAll DEF Owned
  <1>3. \A r \in Procs : dl'[r].file = dl[r].file
    <2>. USE DEF TypeInv, StateType, Runs, Statuses, Then, Run
    <2>1. CASE Stat(p)
      <3>1. \/ \E l \in Statuses : dl' = [dl EXCEPT ![p].pc = l]
            \/ dl' = [dl EXCEPT ![p].pc = "link", ![p].count = @ + 1]
        BY <2>1 DEF Stat
      <3>2. ASSUME NEW l \in Statuses, dl' = [dl EXCEPT ![p].pc = l]
            PROVE  \A r \in Procs : dl'[r].file = dl[r].file
        BY <3>2
      <3>. QED BY <3>1, <3>2
    <2>2. CASE Link(p) BY <2>2, SMTT(60) DEF Link
    <2>3. CASE DotLockFails(p) BY <2>3, SMTT(60) DEF DotLockFails
    <2>. QED BY <2>1, <2>2, <2>3 DEF DotLockStep, Open, Exhausted, ForceUnlink
  <1>4. Mine(q)' = Mine(q) BY <1>3 DEF Mine, Target
  <1>5. Mine(p) = dl[p].file /\ dl[p].file \in Paths /\ (p \in Senders => sh[p].pc \in {"lock", "idle"})
    BY OutboxAssumption DEF TypeInv, RunInv, ShellInv, Run, Mine, DotLockStep, Open, Link, Exhausted, Stat,
           ForceUnlink, DotLockFails
  <1>6. ~Has(p)
    BY <1>5, OutboxAssumption DEF Has, At, Sending, Run, DotLockStep, Open, Link, Exhausted, Stat,
           ForceUnlink, DotLockFails
  <1>7. CASE q = p
    <2>1. Run(q, "ok")'
      BY <1>5, <1>7, OutboxAssumption DEF Has, At, Sending
    <2>2. CASE Exhausted(p) BY <1>4, <1>5, <1>7, <2>2 DEF Exhausted
    <2>3. CASE Stat(p)
      <3>1. Won(p)
        BY <1>7, <2>1, <2>3 DEF Stat, Run, Then, TypeInv, StateType, Runs
      <3>. QED BY <1>4, <1>5, <1>7, <2>3, <3>1 DEF Won, Stat
    <2>. QED BY <1>7, <2>1, <2>2, <2>3 DEF DotLockStep, Open, Link, ForceUnlink, DotLockFails, Then, Run,
                TypeInv, StateType, Runs
  <1>8. CASE q # p
    <2>1. dl'[q] = dl[q]
      BY <1>8 DEF DotLockStep, Open, Link, Exhausted, Stat, ForceUnlink, DotLockFails, Then, TypeInv, StateType
    <2>2. Has(q) BY <2>1 DEF Has, Run
    <2>3. lock[Mine(q)] = q /\ q \in Procs /\ q # None /\ Mine(q) \in Paths
      BY <1>2, <2>2, MineType, DotLockAssumption
    <2>4. CASE ForceUnlink(p)
      BY <1>4, <1>5, <1>8, <2>3, <2>4 DEF ForceUnlink, TypeInv, StateType
    <2>5. CASE Open(p)
      BY <1>4, <1>8, <2>3, <2>5 DEF Open
    <2>6. CASE Link(p)
      BY <1>4, <1>8, <2>3, <2>6 DEF Link, Linked, TypeInv, StateType
    <2>. QED BY <1>4, <2>3, <2>4, <2>5, <2>6 DEF DotLockStep, Exhausted, Stat, DotLockFails
  <1>. QED BY <1>7, <1>8

LEMMA OtherOwned ==
    ASSUME TypeInv, LockedMeansOwned, NEW o \in Others, Ask(o) \/ Leave(o)
    PROVE  LockedMeansOwned'
  <1>. SUFFICES ASSUME ~usurped', NEW q \in Procs, Has(q)' PROVE lock'[Mine(q)'] = q
    BY OwnedAll DEF Owned, LockedMeansOwned, Mine, Target
  <1>1. UNCHANGED <<usurped, sh>> BY DEF Ask, Leave
  <1>2. o \in Procs /\ o \notin Senders BY OutboxAssumption
  <1>3. dl'[o].pc \in {"open", "error", "none"} /\ \A r \in Procs \ {o} : dl'[r] = dl[r]
    <2>1. CASE Ask(o)
      <3>1. PICK path \in Paths, opt \in [retry : Nat, force : BOOLEAN] : Begin(o, path, opt)
        BY <2>1, OutboxAssumption DEF Ask
      <3>. QED BY <1>2, <3>1, BeginType DEF TypeInv
    <2>2. CASE Leave(o)
      BY <1>2, <2>2, DoneType DEF Leave, TypeInv
    <2>. QED BY <2>1, <2>2
  <1>4. q # o BY <1>2, <1>3 DEF Has, Run
  <1>5. Has(q) /\ Mine(q)' = Mine(q) BY <1>1, <1>3, <1>4 DEF Has, Run, Mine, Target
  <1>6. lock[Mine(q)] = q BY <1>1, <1>5, OwnedAll DEF Owned
  <1>7. CASE lock' = lock BY <1>5, <1>6, <1>7
  <1>8. CASE lock' # lock
    <2>1. Run(o, "ok") /\ lock' = Unlinked(dl[o].file) BY <1>8 DEF Ask, Leave
    <2>2. Has(o) /\ Mine(o) = dl[o].file BY <1>2, <2>1 DEF Has, Mine
    <2>3. lock[dl[o].file] = o BY <1>1, <1>2, <2>2, OwnedAll DEF Owned
    <2>4. Dereference(dl[o].file) = dl[o].file /\ dl[o].file \in Paths
      BY <1>2, <2>1, DereferenceType DEF TypeInv, RunInv, Run
    <2>. QED BY <1>4, <1>5, <1>6, <2>1, <2>3, <2>4 DEF Unlinked, TypeInv, StateType
  <1>. QED BY <1>7, <1>8

LEMMA NextOwned == TypeInv /\ LockedMeansOwned /\ [Next]_vars => LockedMeansOwned'
  <1>. SUFFICES ASSUME TypeInv, LockedMeansOwned, [Next]_vars PROVE LockedMeansOwned'
    OBVIOUS
  <1>1. ASSUME UNCHANGED <<lock, usurped>>,
               \A q \in Procs : Has(q)' => Has(q) /\ Mine(q)' = Mine(q)
        PROVE  LockedMeansOwned'
    BY <1>1, OwnedAll DEF Owned, LockedMeansOwned, Mine, Target
  <1>2. CASE UNCHANGED vars
    BY <1>1, <1>2 DEF vars, locking, Has, Run, Mine, Target
  <1>3. ASSUME NEW p \in Senders, UNCHANGED <<lock, dl, usurped>>,
               \A q \in Senders \ {p} : sh'[q] = sh[q],
               sh'[p].pc \in Holding => sh[p].pc \in Holding
        PROVE  LockedMeansOwned'
    BY <1>1, <1>3 DEF Has, Run, Mine, Target, Holding
  <1>4. ASSUME NEW p \in Senders, Send(p) PROVE LockedMeansOwned'
    <2>1. /\ UNCHANGED <<lock, usurped>> /\ sh'[p].pc = "lock" /\ Begin(p, Outbox, Plain)
          /\ \A q \in Senders \ {p} : sh'[q] = sh[q]
      BY <1>4 DEF Send, Goto, TypeInv, StateType, Shells
    <2>2. dl'[p].pc \in {"open", "error"} /\ \A q \in Procs \ {p} : dl'[q] = dl[q]
      BY <2>1, BeginType, OutboxAssumption DEF TypeInv, Plain
    <2>. QED BY <1>1, <2>1, <2>2, OutboxAssumption DEF Has, Run, Mine, Target, Sending
  <1>5. ASSUME NEW p \in Senders, Locked(p) \/ Kill(p) \/ Outlived(p) PROVE LockedMeansOwned'
    <2>1. /\ UNCHANGED <<lock, usurped>> /\ (Done(p) \/ UNCHANGED dl)
          /\ sh'[p].pc = "idle" \/ (sh'[p].pc = "pid" /\ Run(p, "ok"))
          /\ \A q \in Senders \ {p} : sh'[q] = sh[q]
      BY <1>5 DEF Locked, Kill, Outlived, At, Goto, Return, Away, TypeInv, StateType, Shells
    <2>2. (dl'[p].pc = "none" \/ UNCHANGED dl) /\ \A q \in Procs \ {p} : dl'[q] = dl[q]
      BY <2>1, DoneType, OutboxAssumption DEF TypeInv
    <2>3. ASSUME NEW q \in Procs, Has(q)' PROVE Has(q) /\ Mine(q)' = Mine(q)
      <3>1. CASE q = p
        <4>1. Has(p) BY <2>1, <2>2, <2>3, <3>1 DEF Has, Run, Sending
        <4>. QED BY <3>1, <4>1 DEF Mine, Target
      <3>2. CASE q # p BY <2>1, <2>2, <2>3, <3>2 DEF Has, Run, Mine, Target
      <3>. QED BY <3>1, <3>2
    <2>. QED BY <1>1, <2>1, <2>3
  <1>6. ASSUME NEW m \in Mails, Enqueue(m) PROVE LockedMeansOwned'
    BY <1>1, <1>6 DEF Enqueue, locking, Has, Run, Mine, Target
  <1>. QED BY <1>2, <1>3, <1>4, <1>5, <1>6, NextCases, LoopFrame, GiveBackOwned, DotOwned, OtherOwned

\* Mutual exclusion by dotlock: whoever was told that the file is locked has the lock,
\* for any number of processes, names that lead to the file, retries and failures, as long
\* as nobody forced or out-waited a lock.
THEOREM Exclusion == Spec => []LockedMeansOwned
  <1>1. Init => LockedMeansOwned
    BY OutboxAssumption DEF Init, DotLockInit, LockedMeansOwned, Has, Run, Quit, Away, Sending
  <1>. QED BY <1>1, InitType, NextType, NextOwned, PTL DEF Spec

-----------------------------------------------------------------------------
(* The marker *)

\* A shell whose release was reported failed rewrites its marker while it still has the lock.
MarkInv ==
    ~usurped /\ ~misreported => \A p \in Senders :
        /\ sh[p].pc \in Sending => pid = p
        /\ sh[p].pc = "repid" => lock[Target] = p

\* Shells that have the lock, as far as exclusion holds, are one.
LEMMA OneHolder ==
    ASSUME LockedMeansOwned, ~usurped, NEW p \in Senders, sh[p].pc \in Holding
    PROVE  lock[Target] = p
  BY OutboxAssumption DEF LockedMeansOwned, Has, Holding, Target

\* The steps of a shell that leave lock and marker as they are.
LEMMA MarkFrame ==
    ASSUME TypeInv, NEW p \in Senders,
           \/ Send(p) \/ Locked(p) \/ List(p) \/ NextMail(p) \/ Smtp(p) \/ SmtpFails(p)
           \/ Judge(p) \/ FileSent(p) \/ Remove(p) \/ FileFails(p)
           \/ Unlock(p) \/ KeepsLock(p) \/ Signal(p) \/ Kill(p) \/ Outlived(p)
    PROVE  /\ UNCHANGED <<lock, usurped, pid, misreported>>
           /\ \A q \in Senders \ {p} : sh'[q] = sh[q]
           /\ sh'[p].pc \in Sending => sh[p].pc \in Sending
           /\ sh'[p].pc = "repid" => sh[p].pc = "repid"
  <1>. USE DEF TypeInv, StateType, Shells, Sending, At, Goto, Return, Leaves, Away
  <1>1. UNCHANGED <<lock, usurped, pid, misreported>>
    BY DEF Send, Locked, List, NextMail, Smtp, SmtpFails, Judge, FileSent, Remove, FileFails,
           Unlock, KeepsLock, Signal, Kill, Outlived, locking, Same
  <1>2. CASE Send(p) \/ Locked(p) \/ KeepsLock(p) \/ Kill(p) \/ Outlived(p)
    BY <1>1, <1>2 DEF Send, Locked, KeepsLock, Kill, Outlived
  <1>3. CASE List(p) \/ NextMail(p) \/ Smtp(p) \/ SmtpFails(p) \/ Judge(p)
    <2>1. sh[p].pc \in Sending BY <1>3 DEF List, NextMail, Smtp, SmtpFails, Judge
    <2>2. \A q \in Senders \ {p} : sh'[q] = sh[q]
      BY <1>3 DEF List, NextMail, Smtp, SmtpFails, Judge
    <2>3. sh'[p].pc # "repid"
      <3>1. CASE List(p) \/ Smtp(p) \/ SmtpFails(p) BY <3>1 DEF List, Smtp, SmtpFails
      <3>2. CASE NextMail(p) BY <3>2, ZenonT(60) DEF NextMail
      <3>3. CASE Judge(p) BY <3>3, ZenonT(60) DEF Judge
      <3>. QED BY <1>3, <3>1, <3>2, <3>3
    <2>. QED BY <1>1, <2>1, <2>2, <2>3
  <1>4. CASE FileSent(p) \/ Remove(p) \/ FileFails(p)
    BY <1>1, <1>4 DEF FileSent, Remove, FileFails, Unfiled
  <1>5. CASE Unlock(p)
    <2>1. UnlockSteps[1] = "rmpid" BY DEF UnlockSteps
    <2>. QED BY <1>1, <1>5, <2>1 DEF Unlock
  <1>6. CASE Signal(p)
    <2>1. sh' = [sh EXCEPT ![p].lost = TRUE] \/ sh' = [sh EXCEPT ![p].interrupted = TRUE]
      BY <1>6 DEF Signal
    <2>. QED BY <1>1, <2>1
  <1>. QED BY <1>2, <1>3, <1>4, <1>5, <1>6

\* Neither the other users of the lock nor dotlock take the lock of a shell that is not
\* itself running dotlock, unless by force.
LEMMA TargetKept ==
    ASSUME TypeInv, LockedMeansOwned, ~usurped, ~usurped',
           NEW q \in Senders, sh[q].pc \notin {"lock", "idle"}, lock[Target] = q,
           \/ \E o \in Others : Ask(o) \/ Leave(o)
           \/ \E p \in Procs : DotLockStep(p) \/ DotLockFails(p)
    PROVE  lock'[Target] = q
  <1>1. q \in Procs /\ q # None /\ Target \in Paths
    BY OutboxAssumption, DotLockAssumption, TargetType
  <1>2. ASSUME NEW o \in Others, Ask(o) \/ Leave(o) PROVE lock'[Target] = q
    <2>1. CASE lock' = lock BY <2>1
    <2>2. CASE lock' # lock
      <3>1. Run(o, "ok") /\ lock' = Unlinked(dl[o].file) BY <1>2, <2>2 DEF Ask, Leave
      <3>2. o \in Procs /\ o \notin Senders BY OutboxAssumption
      <3>3. lock[dl[o].file] = o BY <3>1, <3>2 DEF LockedMeansOwned, Has
      <3>4. Dereference(dl[o].file) = dl[o].file /\ dl[o].file \in Paths
        BY <3>1, <3>2, DereferenceType DEF TypeInv, RunInv, Run
      <3>. QED BY <1>1, <3>1, <3>2, <3>3, <3>4 DEF Unlinked, TypeInv, StateType
    <2>. QED BY <2>1, <2>2
  <1>3. ASSUME NEW p \in Procs, DotLockStep(p) \/ DotLockFails(p) PROVE lock'[Target] = q
    <2>1. p # q
      BY <1>3 DEF TypeInv, ShellInv, Run, DotLockStep, Open, Link, Exhausted, Stat, ForceUnlink, DotLockFails
    <2>2. CASE Open(p) BY <1>1, <2>1, <2>2 DEF Open
    <2>3. CASE Link(p) BY <1>1, <2>3 DEF Link, Linked, TypeInv, StateType
    <2>4. CASE ForceUnlink(p)
      BY <1>1, <2>4 DEF ForceUnlink, TypeInv, StateType
    <2>. QED BY <1>3, <2>2, <2>3, <2>4 DEF DotLockStep, Exhausted, Stat, DotLockFails
  <1>. QED BY <1>2, <1>3

LEMMA NextMark == TypeInv /\ LockedMeansOwned /\ MarkInv /\ [Next]_vars => MarkInv'
  <1>. SUFFICES ASSUME TypeInv, LockedMeansOwned, MarkInv, [Next]_vars,
                       ~usurped', ~misreported', NEW q \in Senders
                PROVE  /\ sh'[q].pc \in Sending => pid' = q
                       /\ sh'[q].pc = "repid" => lock'[Target] = q
    BY DEF MarkInv, Target
  <1>1. UnlockSteps[1] = "rmpid" /\ UnlockSteps[2] = "release" BY DEF UnlockSteps
  <1>2. CASE UNCHANGED vars BY <1>2 DEF vars, locking, MarkInv
  <1>3. ASSUME NEW p \in Senders, UNCHANGED <<lock, usurped, pid, misreported>>,
               \A r \in Senders \ {p} : sh'[r] = sh[r],
               sh'[p].pc \in Sending => sh[p].pc \in Sending,
               sh'[p].pc = "repid" => sh[p].pc = "repid"
        PROVE  /\ sh'[q].pc \in Sending => pid' = q
               /\ sh'[q].pc = "repid" => lock'[Target] = q
    BY <1>3 DEF MarkInv
  <1>4. ASSUME NEW p \in Senders, WritePid(p) \/ WritePidFails(p) \/ RmPid(p) \/ RePid(p)
        PROVE  /\ sh'[q].pc \in Sending => pid' = q
               /\ sh'[q].pc = "repid" => lock'[Target] = q
    <2>1. UNCHANGED <<lock, usurped, misreported>>
      BY <1>4 DEF WritePid, WritePidFails, RmPid, RePid, locking, Same
    <2>2. lock[Target] = p
      <3>1. CASE RePid(p) BY <2>1, <3>1 DEF RePid, At, MarkInv
      <3>2. CASE ~RePid(p)
        <4>1. sh[p].pc \in Holding
          BY <1>4, <3>2 DEF WritePid, WritePidFails, RmPid, At, Holding, Sending
        <4>. QED BY <2>1, <4>1, OneHolder
      <3>. QED BY <3>1, <3>2
    <2>3. CASE q = p
      BY <1>1, <1>4, <2>3 DEF WritePid, WritePidFails, WithoutPid, RmPid, RePid, After, Goto, Return, Away,
         Sending, At, TypeInv, StateType, Shells
    <2>4. CASE q # p
      <3>1. sh'[q] = sh[q]
        BY <1>4, <2>4 DEF WritePid, WritePidFails, RmPid, RePid, After, Goto, Return, TypeInv, StateType
      <3>2. sh[q].pc \notin Sending BY <2>1, <2>2, <2>4, OneHolder DEF Holding
      <3>. QED BY <2>1, <3>1, <3>2 DEF MarkInv
    <2>. QED BY <2>3, <2>4
  <1>5. ASSUME NEW p \in Senders, GiveBack(p) \/ Release(p) \/ ReleaseFails(p)
        PROVE  /\ sh'[q].pc \in Sending => pid' = q
               /\ sh'[q].pc = "repid" => lock'[Target] = q
    <2>1. /\ sh[p].pc \in {"giveback", "release"} /\ sh'[p].pc \in {"idle", "repid"}
          /\ \A r \in Senders \ {p} : sh'[r] = sh[r]
          /\ UNCHANGED <<usurped, pid>>
          /\ sh'[p].pc = "repid" => lock' = lock \/ lock[Target] = None
      BY <1>1, <1>5 DEF GiveBack, Release, ReleaseFails, At, Return, Goto, After, Away, Target, TypeInv, StateType,
         Shells
    <2>2. ~misreported
      BY <1>5 DEF GiveBack, Release, ReleaseFails, Same
    <2>3. lock[Target] = p /\ p # None
      BY <2>1, OneHolder, OutboxAssumption, DotLockAssumption DEF Holding
    <2>4. CASE q = p BY <2>1, <2>3, <2>4 DEF Sending
    <2>5. CASE q # p
      BY <2>1, <2>2, <2>3, <2>5 DEF MarkInv
    <2>. QED BY <2>4, <2>5
  <1>6. ASSUME UNCHANGED <<sh, pid, misreported>>,
               \/ \E o \in Others : Ask(o) \/ Leave(o)
               \/ \E p \in Procs : DotLockStep(p) \/ DotLockFails(p)
        PROVE  /\ sh'[q].pc \in Sending => pid' = q
               /\ sh'[q].pc = "repid" => lock'[Target] = q
    <2>1. ~usurped
      BY <1>6 DEF Ask, Leave, DotLockStep, Open, Link, Exhausted, Stat, ForceUnlink, DotLockFails, TypeInv, StateType
    <2>2. sh[q].pc = "repid" => lock[Target] = q BY <1>6, <2>1 DEF MarkInv
    <2>3. sh[q].pc = "repid" => sh[q].pc \notin {"lock", "idle"} OBVIOUS
    <2>. QED BY <1>6, <2>1, <2>2, <2>3, TargetKept DEF MarkInv
  <1>7. ASSUME NEW o \in Others, Ask(o) \/ Leave(o)
        PROVE  UNCHANGED <<sh, pid, misreported>>
    BY <1>7 DEF Ask, Leave
  <1>8. ASSUME NEW m \in Mails, Enqueue(m)
        PROVE  /\ sh'[q].pc \in Sending => pid' = q
               /\ sh'[q].pc = "repid" => lock'[Target] = q
    BY <1>8 DEF Enqueue, locking, Same, MarkInv
  <1>. QED BY <1>2, <1>3, <1>4, <1>5, <1>6, <1>7, <1>8, NextCases, MarkFrame

\* outbox.pid names its sender from the moment the lock is taken until that sender
\* removes it, through failed writes, failed releases, signals and kills of the others, as
\* long as nobody forced or out-waited a lock and no release was misreported.
THEOREM MarkerNamesOwner == Spec => []MarkerKept
  <1>1. Init => LockedMeansOwned
    BY OutboxAssumption DEF Init, DotLockInit, LockedMeansOwned, Has, Run, Quit, Away, Sending
  <1>2. Init => MarkInv BY DEF Init, MarkInv, Away, Sending
  <1>3. MarkInv => MarkerKept BY DEF MarkInv, MarkerKept
  <1>. QED BY <1>1, <1>2, <1>3, InitType, NextType, NextOwned, NextMark, PTL DEF Spec

-----------------------------------------------------------------------------
(* The mails *)

\* Where the two branches of the loop lead.
LEMMA BranchLabels ==
    ASSUME TypeInv, NEW p \in Senders
    PROVE  /\ NextMail(p) => sh'[p].pc \in {"unlock", "smtp"}
           /\ Judge(p) => sh'[p].pc \in {"unlock", "file", "next"}
  <1>. USE DEF TypeInv, StateType, Shells
  <1>1. Leaves(p) => sh'[p].pc = "unlock" BY DEF Leaves, Away
  <1>2. ASSUME NextMail(p), ~Leaves(p) PROVE sh'[p].pc = "smtp"
    <2>1. sh' = [sh EXCEPT ![p].pc = "smtp", ![p].cur = Min(sh[p].queue), ![p].queue = Remaining(p)]
      BY <1>2 DEF NextMail
    <2>. QED BY <2>1
  <1>3. ASSUME Judge(p), ~Leaves(p) PROVE sh'[p].pc \in {"file", "next"}
    BY <1>3 DEF Judge, Goto
  <1>. QED BY <1>1, <1>2, <1>3

\* p has sent m and is about to file it, and to take it out of the outbox.
Settling(p, m) == sh[p].pc \in {"judge", "file", "rm"} /\ sh[p].out = "ok" /\ sh[p].cur = m

\* The other steps of a shell neither begin nor end a settlement.
LEMMA SettlingFrame ==
    ASSUME TypeInv, NEW p \in Senders,
           \/ Send(p) \/ Locked(p) \/ WritePid(p) \/ WritePidFails(p) \/ GiveBack(p)
           \/ List(p) \/ NextMail(p) \/ Unlock(p) \/ RmPid(p) \/ Release(p) \/ ReleaseFails(p)
           \/ RePid(p) \/ KeepsLock(p) \/ Signal(p)
    PROVE  UNCHANGED mail /\ \A q \in Senders, m \in Mails : Settling(q, m)' <=> Settling(q, m)
  <1>. USE DEF TypeInv, StateType, Shells, Settling, At, Goto, Return, Leaves, Away
  <1>1. UNCHANGED mail
    BY DEF Send, Locked, WritePid, WritePidFails, GiveBack, List, NextMail, Unlock, RmPid, Release,
           ReleaseFails, RePid, KeepsLock, Signal
  <1>2. CASE Signal(p)
    <2>1. sh' = [sh EXCEPT ![p].lost = TRUE] \/ sh' = [sh EXCEPT ![p].interrupted = TRUE]
      BY <1>2 DEF Signal
    <2>2. \A q \in Senders : sh'[q].pc = sh[q].pc /\ sh'[q].cur = sh[q].cur /\ sh'[q].out = sh[q].out
      BY <2>1
    <2>. QED BY <1>1, <2>2
  <1>3. ASSUME \A q \in Senders \ {p} : sh'[q] = sh[q],
               sh[p].pc \notin {"judge", "file", "rm"}, sh'[p].pc \notin {"judge", "file", "rm"}
        PROVE  \A q \in Senders, m \in Mails : Settling(q, m)' <=> Settling(q, m)
    BY <1>3
  <1>4. CASE Send(p) \/ Locked(p) \/ WritePid(p) \/ WritePidFails(p) \/ GiveBack(p) \/ RePid(p) \/ KeepsLock(p)
    BY <1>1, <1>3, <1>4 DEF Send, Locked, WritePid, WritePidFails, WithoutPid, GiveBack, RePid, KeepsLock
  <1>5. CASE List(p) \/ NextMail(p)
    <2>1. sh[p].pc \notin {"judge", "file", "rm"} BY <1>5 DEF List, NextMail
    <2>2. \A q \in Senders \ {p} : sh'[q] = sh[q] BY <1>5 DEF List, NextMail
    <2>3. CASE List(p) BY <1>1, <1>3, <2>1, <2>2, <2>3 DEF List
    <2>4. CASE NextMail(p)
      <3>1. sh'[p].pc \notin {"judge", "file", "rm"} BY <2>4, BranchLabels
      <3>. QED BY <1>1, <1>3, <2>1, <2>2, <3>1
    <2>. QED BY <1>5, <2>3, <2>4
  <1>6. CASE Unlock(p) \/ RmPid(p) \/ Release(p) \/ ReleaseFails(p)
    <2>1. UnlockSteps[1] = "rmpid" /\ UnlockSteps[2] = "release" BY DEF UnlockSteps
    <2>. QED BY <1>1, <1>3, <1>6, <2>1 DEF Unlock, RmPid, Release, ReleaseFails, After
  <1>. QED BY <1>2, <1>4, <1>5, <1>6

\* Every mail that the server has taken, or that is filed, has been in the outbox, and a
\* sender settles only what the server has taken.
FiledInv ==
    /\ queued \subseteq entered
    /\ \A m \in Mails : accepted[m] > 0 => m \in entered
    /\ \A m \in entered \ queued : m \in sent
    /\ \A m \in sent : accepted[m] > 0
    /\ \A p \in Senders, m \in Mails : Settling(p, m) => accepted[m] > 0

LEMMA NextFiled == TypeInv /\ FiledInv /\ [Next]_vars => FiledInv'
  <1>. SUFFICES ASSUME TypeInv, FiledInv, [Next]_vars PROVE FiledInv'
    OBVIOUS
  <1>1. ASSUME UNCHANGED mail, \A q \in Senders, m \in Mails : Settling(q, m)' => Settling(q, m)
        PROVE  FiledInv'
    BY <1>1 DEF mail, FiledInv
  <1>2. ASSUME UNCHANGED <<sh, mail>> PROVE FiledInv'
    BY <1>1, <1>2 DEF Settling
  <1>3. ASSUME NEW p \in Senders, Smtp(p) \/ SmtpFails(p) PROVE FiledInv'
    <2>. USE DEF TypeInv, StateType, Shells
    <2>1. /\ UNCHANGED <<queued, sent, entered>> /\ sh[p].cur \in Mails
          /\ \A q \in Senders \ {p} : sh'[q] = sh[q]
      BY <1>3 DEF Smtp, SmtpFails, ShellInv, At
    <2>2. /\ \A m \in Mails : accepted'[m] >= accepted[m]
          /\ \A m \in Mails : accepted'[m] > accepted[m] => m \in queued
          /\ sh'[p].cur = sh[p].cur
          /\ sh'[p].out = "ok" => accepted'[sh[p].cur] > 0
      <3>1. CASE SmtpFails(p) BY <2>1, <3>1 DEF SmtpFails
      <3>2. ASSUME NEW out \in {"ok", "refused"}, out = "ok" => sh[p].cur \in queued,
                   accepted' = [accepted EXCEPT ![sh[p].cur] = IF out = "ok" THEN @ + 1 ELSE @],
                   sh' = [sh EXCEPT ![p].pc = "judge", ![p].out = out]
            PROVE  /\ \A m \in Mails : accepted'[m] >= accepted[m]
                   /\ \A m \in Mails : accepted'[m] > accepted[m] => m \in queued
                   /\ sh'[p].cur = sh[p].cur
                   /\ sh'[p].out = "ok" => accepted'[sh[p].cur] > 0
        BY <2>1, <3>2
      <3>. QED BY <1>3, <3>1, <3>2 DEF Smtp
    <2>3. ASSUME NEW q \in Senders, NEW m \in Mails, Settling(q, m)' PROVE accepted'[m] > 0
      <3>1. CASE q = p BY <2>1, <2>2, <2>3, <3>1 DEF Settling
      <3>2. CASE q # p
        <4>1. Settling(q, m) BY <2>1, <2>3, <3>2 DEF Settling
        <4>2. accepted[m] > 0 BY <4>1 DEF FiledInv
        <4>3. accepted'[m] \in Nat /\ accepted[m] \in Nat BY <1>3, NextType
        <4>. QED BY <2>2, <4>2, <4>3
      <3>. QED BY <3>1, <3>2
    <2>4. \A m \in Mails : accepted'[m] \in Nat /\ accepted[m] \in Nat
      BY <1>3, NextType
    <2>5. \A m \in Mails : accepted[m] > 0 => accepted'[m] > 0 BY <2>2, <2>4
    <2>6. \A m \in Mails : accepted'[m] > 0 => m \in entered' BY <2>1, <2>2, <2>4 DEF FiledInv
    <2>. QED BY <2>1, <2>3, <2>5, <2>6 DEF FiledInv
  <1>4. ASSUME NEW p \in Senders, Judge(p) \/ FileSent(p) \/ FileFails(p) \/ Remove(p) \/ Kill(p) PROVE FiledInv'
    <2>. USE DEF TypeInv, StateType, Shells
    <2>1. UNCHANGED <<accepted, entered>> /\ \A q \in Senders \ {p} : sh'[q] = sh[q]
      BY <1>4 DEF Judge, FileSent, FileFails, Remove, Kill, Goto, Return, Leaves
    <2>2. \A m \in Mails : Settling(p, m)' => Settling(p, m)
      <3>1. CASE Judge(p)
        <4>1. CASE Leaves(p) BY <4>1 DEF Leaves, Away, Settling
        <4>2. CASE ~Leaves(p) BY <3>1, <4>2 DEF Judge, Goto, Settling, At
        <4>. QED BY <4>1, <4>2
      <3>2. CASE FileSent(p) \/ Remove(p) BY <3>2 DEF FileSent, Remove, Goto, Settling, At
      <3>3. CASE FileFails(p) BY <3>3 DEF FileFails, Unfiled, Goto, Settling
      <3>4. CASE Kill(p) BY <3>4 DEF Kill, Return, Away, Settling
      <3>. QED BY <1>4, <3>1, <3>2, <3>3, <3>4
    <2>3. \A q \in Senders, m \in Mails : Settling(q, m)' => accepted'[m] > 0
      BY <2>1, <2>2 DEF Settling, FiledInv
    <2>4. CASE FileSent(p)
      <3>1. sh[p].pc = "file" /\ sh[p].cur \in Mails /\ sh[p].out = "ok" BY <2>4 DEF FileSent, At, ShellInv
      <3>2. accepted[sh[p].cur] > 0 BY <3>1 DEF Settling, FiledInv
      <3>3. sent' = sent \cup {sh[p].cur} /\ UNCHANGED queued BY <2>4 DEF FileSent
      <3>. QED BY <2>1, <2>3, <3>2, <3>3 DEF FiledInv
    <2>5. CASE Remove(p)
      <3>1. queued' = queued \ {sh[p].cur} /\ UNCHANGED sent /\ sh[p].cur \in sent
        BY <2>5 DEF Remove, ShellInv
      <3>. QED BY <2>1, <2>3, <3>1 DEF FiledInv
    <2>6. CASE Judge(p) \/ FileFails(p) \/ Kill(p)
      <3>1. UNCHANGED <<queued, sent>> BY <2>6 DEF Judge, FileFails, Kill
      <3>. QED BY <2>1, <2>3, <3>1 DEF FiledInv
    <2>. QED BY <1>4, <2>4, <2>5, <2>6
  <1>5. ASSUME NEW n \in Mails, Enqueue(n) PROVE FiledInv'
    BY <1>5 DEF Enqueue, FiledInv, Settling
  <1>6. ASSUME NEW o \in Others, Ask(o) \/ Leave(o) PROVE UNCHANGED <<sh, mail>>
    BY <1>6 DEF Ask, Leave
  <1>7. ASSUME NEW p \in Senders, Outlived(p) PROVE UNCHANGED <<sh, mail>>
    BY <1>7 DEF Outlived
  <1>. QED BY <1>1, <1>2, <1>3, <1>4, <1>5, <1>6, <1>7, SettlingFrame, NextCases DEF vars

\* A mail that has been in the outbox and is there no more was taken by the server and is
\* filed in sent, whatever was refused, failed, interrupted, killed or usurped.
THEOREM NoMailUnfiled == Spec => []Filed
  <1>1. Init => FiledInv
    BY DEF Init, FiledInv, Settling, Away
  <1>2. FiledInv => Filed BY DEF FiledInv, Filed
  <1>. QED BY <1>1, <1>2, InitType, NextType, NextFiled, PTL DEF Spec

\* What the server took of a mail that still waits was a lapse each time, but for the
\* sender that is settling it.
OnceInv ==
    ~usurped => \A m \in Mails :
        /\ accepted[m] <= 1 + lapses[m]
        /\ m \in queued /\ (\A p \in Senders : ~Settling(p, m)) => accepted[m] <= lapses[m]

LEMMA UsurpedStays == TypeInv /\ [Next]_vars /\ usurped => usurped'
  <1>. SUFFICES ASSUME TypeInv, [Next]_vars, usurped PROVE usurped'
    OBVIOUS
  <1>1. ASSUME NEW p \in Procs, DotLockStep(p) \/ DotLockFails(p) PROVE usurped'
    BY <1>1 DEF DotLockStep, Open, Link, Exhausted, Stat, ForceUnlink, DotLockFails
  <1>2. ASSUME NEW p \in Senders, 
           \/ WritePid(p) \/ WritePidFails(p)
           \/ List(p) \/ NextMail(p) \/ Smtp(p) \/ SmtpFails(p)
           \/ Judge(p) \/ FileSent(p) \/ Remove(p) \/ FileFails(p)
           \/ Unlock(p) \/ RmPid(p) \/ RePid(p) \/ KeepsLock(p) \/ Signal(p)
        PROVE usurped'
    BY <1>2, LoopFrame
  <1>. QED BY <1>1, <1>2, NextCases DEF Send, Locked, GiveBack, Release, ReleaseFails, Kill, Outlived, Ask, Leave,
              Enqueue, locking, vars

LEMMA NextOnce == TypeInv /\ LockedMeansOwned /\ FiledInv /\ OnceInv /\ [Next]_vars => OnceInv'
  <1>. SUFFICES ASSUME TypeInv, LockedMeansOwned, FiledInv, OnceInv, [Next]_vars, ~usurped', NEW m \in Mails
                PROVE  /\ accepted'[m] <= 1 + lapses'[m]
                       /\ m \in queued' /\ (\A p \in Senders : ~Settling(p, m)') => accepted'[m] <= lapses'[m]
    BY DEF OnceInv
  <1>1. ~usurped BY UsurpedStays
  <1>2. /\ accepted[m] \in Nat /\ lapses[m] \in Nat
        /\ accepted[m] <= 1 + lapses[m]
        /\ m \in queued /\ (\A p \in Senders : ~Settling(p, m)) => accepted[m] <= lapses[m]
    BY <1>1 DEF OnceInv, TypeInv, StateType
  <1>3. ASSUME UNCHANGED mail, \A q \in Senders : Settling(q, m)' <=> Settling(q, m)
        PROVE  /\ accepted'[m] <= 1 + lapses'[m]
               /\ m \in queued' /\ (\A p \in Senders : ~Settling(p, m)') => accepted'[m] <= lapses'[m]
    BY <1>2, <1>3 DEF mail
  <1>4. ASSUME UNCHANGED <<sh, mail>>
        PROVE  /\ accepted'[m] <= 1 + lapses'[m]
               /\ m \in queued' /\ (\A p \in Senders : ~Settling(p, m)') => accepted'[m] <= lapses'[m]
    BY <1>3, <1>4 DEF Settling
  <1>5. ASSUME NEW p \in Senders,
               \/ Send(p) \/ Locked(p) \/ WritePid(p) \/ WritePidFails(p) \/ GiveBack(p)
               \/ List(p) \/ NextMail(p) \/ Unlock(p) \/ RmPid(p) \/ Release(p) \/ ReleaseFails(p)
               \/ RePid(p) \/ KeepsLock(p) \/ Signal(p)
        PROVE  /\ accepted'[m] <= 1 + lapses'[m]
               /\ m \in queued' /\ (\A q \in Senders : ~Settling(q, m)') => accepted'[m] <= lapses'[m]
    BY <1>3, <1>5, SettlingFrame
  <1>6. ASSUME NEW p \in Senders, At(p, "smtp"), sh[p].cur \in queued
        PROVE  accepted[sh[p].cur] <= lapses[sh[p].cur]
    <2>1. ASSUME NEW q \in Senders PROVE ~Settling(q, sh[p].cur)
      <3>1. CASE q = p BY <1>6, <3>1 DEF At, Settling
      <3>2. CASE q # p
        <4>1. lock[Target] = p BY <1>1, <1>6, OneHolder DEF At, Holding, Sending
        <4>2. sh[q].pc \notin {"judge", "file", "rm"} BY <1>1, <3>2, <4>1, OneHolder DEF Holding, Sending
        <4>. QED BY <4>2 DEF Settling
      <3>. QED BY <3>1, <3>2
    <2>. QED BY <1>1, <1>6, <2>1 DEF OnceInv, TypeInv, StateType
  <1>7. ASSUME NEW p \in Senders, Smtp(p) \/ SmtpFails(p)
        PROVE  /\ accepted'[m] <= 1 + lapses'[m]
               /\ m \in queued' /\ (\A q \in Senders : ~Settling(q, m)') => accepted'[m] <= lapses'[m]
    <2>. USE DEF TypeInv, StateType, Shells
    <2>1. /\ At(p, "smtp") /\ UNCHANGED queued
          /\ \A q \in Senders \ {p} : sh'[q] = sh[q]
      BY <1>7 DEF Smtp, SmtpFails
    <2>2. CASE m # sh[p].cur \/ (accepted' = accepted /\ lapses' = lapses)
      <3>1. accepted'[m] = accepted[m] /\ lapses'[m] = lapses[m]
        BY <1>7, <2>2 DEF Smtp, SmtpFails
      <3>2. \A q \in Senders : Settling(q, m) => Settling(q, m)'
        BY <2>1 DEF At, Settling
      <3>. QED BY <1>2, <2>1, <3>1, <3>2
    <2>3. CASE m = sh[p].cur /\ SmtpFails(p)
      <3>1. accepted'[m] = accepted[m] + 1 /\ lapses'[m] = lapses[m] + 1 /\ m \in queued
        BY <2>3 DEF SmtpFails
      <3>. QED BY <1>2, <1>6, <2>1, <2>3, <3>1
    <2>4. CASE m = sh[p].cur /\ Smtp(p) /\ accepted' # accepted
      <3>1. /\ accepted'[m] = accepted[m] + 1 /\ lapses' = lapses /\ m \in queued
            /\ sh' = [sh EXCEPT ![p].pc = "judge", ![p].out = "ok"]
        BY <2>4 DEF Smtp
      <3>2. Settling(p, m)' BY <2>4, <3>1 DEF Settling
      <3>. QED BY <1>2, <1>6, <2>1, <2>4, <3>1, <3>2
    <2>. QED BY <1>7, <2>2, <2>3, <2>4 DEF Smtp
  <1>8. ASSUME NEW p \in Senders, Judge(p) \/ FileSent(p) \/ FileFails(p) \/ Kill(p)
        PROVE  /\ accepted'[m] <= 1 + lapses'[m]
               /\ m \in queued' /\ (\A q \in Senders : ~Settling(q, m)') => accepted'[m] <= lapses'[m]
    <2>. USE DEF TypeInv, StateType, Shells
    <2>1. /\ UNCHANGED <<queued, accepted>>
          /\ \A q \in Senders \ {p} : sh'[q] = sh[q]
      BY <1>8 DEF Judge, FileSent, FileFails, Kill, Goto, Return, Leaves
    <2>2. lapses'[m] = lapses[m] \/ lapses'[m] = lapses[m] + 1
      BY <1>8 DEF Judge, FileSent, FileFails, Kill
    <2>3. Settling(p, m) => Settling(p, m)' \/ lapses'[m] = lapses[m] + 1
      <3>1. CASE Judge(p) BY <3>1 DEF Judge, Settling, Goto
      <3>2. CASE FileSent(p) BY <3>2 DEF FileSent, Settling, Goto
      <3>3. CASE FileFails(p) BY <3>3 DEF FileFails, Settling
      <3>4. CASE Kill(p) BY <3>4 DEF Kill, Settling
      <3>. QED BY <1>8, <3>1, <3>2, <3>3, <3>4
    <2>4. \A q \in Senders \ {p} : Settling(q, m) => Settling(q, m)' BY <2>1 DEF Settling
    <2>. HIDE DEF TypeInv, StateType, Shells
    <2>. QED BY <1>2, <2>1, <2>2, <2>3, <2>4
  <1>9. ASSUME NEW p \in Senders, Remove(p)
        PROVE  /\ accepted'[m] <= 1 + lapses'[m]
               /\ m \in queued' /\ (\A q \in Senders : ~Settling(q, m)') => accepted'[m] <= lapses'[m]
    <2>1. /\ queued' = queued \ {sh[p].cur} /\ UNCHANGED <<accepted, lapses>>
          /\ \A q \in Senders \ {p} : sh'[q] = sh[q]
      BY <1>9 DEF Remove, Goto, TypeInv, StateType
    <2>2. \A q \in Senders : m \in queued' /\ Settling(q, m) => Settling(q, m)'
      BY <2>1 DEF Settling
    <2>. QED BY <1>2, <2>1, <2>2
  <1>10. ASSUME NEW n \in Mails, Enqueue(n)
         PROVE  /\ accepted'[m] <= 1 + lapses'[m]
                /\ m \in queued' /\ (\A q \in Senders : ~Settling(q, m)') => accepted'[m] <= lapses'[m]
    <2>1. UNCHANGED <<sh, accepted, lapses>> /\ queued' = queued \cup {n} /\ n \notin entered
      BY <1>10 DEF Enqueue
    <2>2. m = n => accepted[m] = 0 BY <1>2, <2>1 DEF FiledInv
    <2>. QED BY <1>2, <2>1, <2>2 DEF Settling
  <1>11. ASSUME NEW o \in Others, Ask(o) \/ Leave(o) PROVE UNCHANGED <<sh, mail>>
    BY <1>11 DEF Ask, Leave
  <1>12. ASSUME NEW p \in Senders, Outlived(p) PROVE UNCHANGED <<sh, mail>>
    BY <1>12 DEF Outlived
  <1>. QED BY <1>4, <1>5, <1>7, <1>8, <1>9, <1>10, <1>11, <1>12, NextCases DEF vars

\* No mail is given to the server again unless an earlier run was cut off, or failed,
\* after the server had taken it: for any number of senders, mails and failures, as long as
\* nobody forced or out-waited a lock.
THEOREM NoDuplicateSend == Spec => []SentOnce
  <1>1. Init => LockedMeansOwned
    BY OutboxAssumption DEF Init, DotLockInit, LockedMeansOwned, Has, Run, Quit, Away, Sending
  <1>2. Init => FiledInv BY DEF Init, FiledInv, Settling, Away
  <1>3. Init => OnceInv BY DEF Init, OnceInv
  <1>4. OnceInv => SentOnce BY DEF OnceInv, SentOnce
  <1>. QED BY <1>1, <1>2, <1>3, <1>4, InitType, NextType, NextOwned, NextFiled, NextOnce, PTL DEF Spec

-----------------------------------------------------------------------------
(* Locks left behind *)

\* A lock file is at the name its owner locks, and the owner has it or is about to see
\* that it has; its run of dotlock that begins finds no lock of its own.
AccountInv ==
    ~orphaned => \A f \in Paths :
        /\ lock[f] # Stale
        /\ lock[f] \in Procs => /\ f = Mine(lock[f])
                                /\ Has(lock[f]) \/ dl[lock[f]].pc \in {"stat", "force", "error"}

\* Whether p may have a lock file.
May(p) == Has(p) \/ dl[p].pc \in {"stat", "force", "error"}

LEMMA OrphanedStays == TypeInv /\ [Next]_vars /\ orphaned => orphaned'
  BY NextCases DEF Send, Locked, WritePid, WritePidFails, GiveBack, List, NextMail, Smtp, SmtpFails, Judge,
     FileSent, Remove, FileFails, Unlock, RmPid, Release, ReleaseFails, RePid, KeepsLock, Signal, Kill, Outlived,
     Ask, Leave, Enqueue, Same, vars

\* The steps of a shell that has the lock and keeps it.
LEMMA LoopKeeps ==
    ASSUME TypeInv, ~orphaned', NEW p \in Senders,
           \/ WritePid(p) \/ WritePidFails(p)
           \/ List(p) \/ NextMail(p) \/ Smtp(p) \/ SmtpFails(p)
           \/ Judge(p) \/ FileSent(p) \/ Remove(p) \/ FileFails(p)
           \/ Unlock(p) \/ RmPid(p) \/ RePid(p) \/ KeepsLock(p) \/ Signal(p)
    PROVE  sh[p].pc \in Holding => sh'[p].pc \in Holding
  <1>. USE DEF TypeInv, StateType, Shells, At, Goto, Return, Leaves, Away, Holding, Sending
  <1>1. CASE List(p) \/ Smtp(p) \/ SmtpFails(p) BY <1>1 DEF List, Smtp, SmtpFails
  <1>2. CASE NextMail(p) \/ Judge(p) BY <1>2, BranchLabels
  <1>4. CASE WritePid(p) \/ WritePidFails(p) \/ RePid(p) \/ KeepsLock(p)
    BY <1>4 DEF WritePid, WritePidFails, WithoutPid, RePid, KeepsLock
  <1>5. CASE FileSent(p) \/ Remove(p) \/ FileFails(p) BY <1>5 DEF FileSent, Remove, FileFails, Unfiled
  <1>6. CASE Unlock(p) \/ RmPid(p)
    <2>1. UnlockSteps[1] = "rmpid" /\ UnlockSteps[2] = "release" BY DEF UnlockSteps
    <2>2. CASE Unlock(p)
      <3>1. Own(p) BY <2>2 DEF Unlock
      <3>. QED BY <2>1, <2>2, <3>1 DEF Unlock
    <2>3. CASE RmPid(p) BY <2>1, <2>3 DEF RmPid, After
    <2>. QED BY <1>6, <2>2, <2>3
  <1>7. CASE Signal(p)
    <2>1. sh' = [sh EXCEPT ![p].lost = TRUE] \/ sh' = [sh EXCEPT ![p].interrupted = TRUE]
      BY <1>7 DEF Signal
    <2>. QED BY <2>1
  <1>. QED BY <1>1, <1>2, <1>4, <1>5, <1>6, <1>7

LEMMA NextAccounted == TypeInv /\ AccountInv /\ [Next]_vars => AccountInv'
  <1>. SUFFICES ASSUME TypeInv, AccountInv, [Next]_vars, ~orphaned', NEW f \in Paths
                PROVE  /\ lock'[f] # Stale
                       /\ \A q \in Procs : lock'[f] = q => f = Mine(q)' /\ May(q)'
    BY DEF AccountInv, May
  <1>1. ~orphaned BY OrphanedStays
  <1>2. /\ lock[f] # Stale /\ lock[f] \in Procs \cup {None, Stale}
        /\ \A q \in Procs : lock[f] = q => f = Mine(q) /\ May(q)
    BY <1>1 DEF AccountInv, May, TypeInv, StateType
  <1>3. None \notin Procs /\ Stale \notin Procs /\ None # Stale BY DotLockAssumption
  \* What a step that only removes locks, or none, has to show.
  <1>4. ASSUME lock'[f] = lock[f] \/ lock'[f] = None,
               \A q \in Procs : lock'[f] = q /\ May(q) /\ f = Mine(q) => May(q)' /\ Mine(q)' = Mine(q)
        PROVE  /\ lock'[f] # Stale
               /\ \A q \in Procs : lock'[f] = q => f = Mine(q)' /\ May(q)'
    BY <1>2, <1>3, <1>4
  <1>5. CASE UNCHANGED <<lock, dl, sh>>
    BY <1>4, <1>5 DEF May, Has, Run, Mine, Target
  <1>6. ASSUME NEW p \in Senders,
               \/ WritePid(p) \/ WritePidFails(p)
               \/ List(p) \/ NextMail(p) \/ Smtp(p) \/ SmtpFails(p)
               \/ Judge(p) \/ FileSent(p) \/ Remove(p) \/ FileFails(p)
               \/ Unlock(p) \/ RmPid(p) \/ RePid(p) \/ KeepsLock(p) \/ Signal(p)
        PROVE  /\ lock'[f] # Stale
               /\ \A q \in Procs : lock'[f] = q => f = Mine(q)' /\ May(q)'
    <2>1. /\ UNCHANGED <<lock, dl, usurped>> /\ \A q \in Senders \ {p} : sh'[q] = sh[q]
      BY <1>6, LoopFrame
    <2>2. sh[p].pc \in Holding => sh'[p].pc \in Holding BY <1>6, LoopKeeps
    <2>. QED BY <1>4, <2>1, <2>2 DEF May, Has, Run, Mine, Target, Holding
  <1>7. ASSUME NEW p \in Senders, GiveBack(p) \/ Release(p) \/ ReleaseFails(p)
        PROVE  /\ lock'[f] # Stale
               /\ \A q \in Procs : lock'[f] = q => f = Mine(q)' /\ May(q)'
    <2>1. /\ lock' = [lock EXCEPT ![Target] = None] /\ UNCHANGED dl
          /\ \A q \in Senders \ {p} : sh'[q] = sh[q]
      BY <1>1, <1>7 DEF GiveBack, Release, ReleaseFails, Unlinked, Target, Return, Goto, After, TypeInv, StateType
    <2>2. f = Mine(p) => lock'[f] = None BY <2>1, TargetType DEF Mine, TypeInv, StateType
    <2>. QED BY <1>3, <1>4, <2>1, <2>2, OutboxAssumption DEF May, Has, Run, Mine, Target, TypeInv, StateType
  <1>8. ASSUME NEW p \in Senders, Send(p)
        PROVE  /\ lock'[f] # Stale
               /\ \A q \in Procs : lock'[f] = q => f = Mine(q)' /\ May(q)'
    <2>1. /\ UNCHANGED lock /\ Begin(p, Outbox, Plain) /\ \A q \in Senders \ {p} : sh'[q] = sh[q]
      BY <1>8 DEF Send, Goto, TypeInv, StateType
    <2>2. \A q \in Procs \ {p} : dl'[q] = dl[q]
      BY <2>1, BeginType, OutboxAssumption DEF TypeInv, Plain
    <2>3. ~May(p)
      BY <1>8, OutboxAssumption DEF Send, At, May, Has, Run, Sending, TypeInv, ShellInv
    <2>. QED BY <1>4, <2>1, <2>2, <2>3 DEF May, Has, Run, Mine, Target
  <1>9. ASSUME NEW p \in Senders, Locked(p)
        PROVE  /\ lock'[f] # Stale
               /\ \A q \in Procs : lock'[f] = q => f = Mine(q)' /\ May(q)'
    <2>1. /\ UNCHANGED lock /\ Done(p) /\ At(p, "lock") /\ dl[p].pc \in {"ok", "exist", "error"}
          /\ Run(p, "ok") => sh'[p].pc = "pid"
          /\ \A q \in Senders \ {p} : sh'[q] = sh[q]
          /\ ~(Run(p, "error") /\ Won(p))
      BY <1>9 DEF Locked, Goto, Return, TypeInv, StateType, Shells
    <2>2. dl'[p].pc = "none" /\ \A q \in Procs \ {p} : dl'[q] = dl[q]
      BY <2>1, DoneType, OutboxAssumption DEF TypeInv
    <2>3. CASE Run(p, "ok")
      BY <1>4, <2>1, <2>2, <2>3 DEF May, Has, Run, Mine, Target
    <2>4. CASE ~Run(p, "ok")
      <3>1. Mine(p) = dl[p].file BY <2>1 DEF Mine, TypeInv, ShellInv
      <3>2. lock[f] = p /\ f = Mine(p) => ~May(p)
        BY <2>1, <2>4, <3>1 DEF Won, May, Has, At, Run, Sending
      <3>. QED BY <1>4, <2>1, <2>2, <3>2 DEF May, Has, Run, Mine, Target
    <2>. QED BY <2>3, <2>4
  <1>10. ASSUME NEW p \in Senders, Kill(p) \/ Outlived(p)
         PROVE  /\ lock'[f] # Stale
                /\ \A q \in Procs : lock'[f] = q => f = Mine(q)' /\ May(q)'
    <2>1. /\ UNCHANGED lock /\ \A q \in Senders \ {p} : sh'[q] = sh[q]
      BY <1>10 DEF Kill, Outlived, Return, TypeInv, StateType
    <2>2. \A q \in Procs \ {p} : dl'[q] = dl[q]
      BY <1>10, DoneType, OutboxAssumption DEF Kill, Outlived, TypeInv
    <2>3. Mine(p) = Target BY DEF Mine
    <2>4. CASE lock[Target] # p
      BY <1>4, <2>1, <2>2, <2>3, <2>4 DEF May, Has, Run, Mine, Target
    <2>5. CASE lock[Target] = p
      <3>1. Kill(p) /\ At(p, "lock") /\ UNCHANGED dl
        <4>1. CASE Kill(p)
          <5>1. dl'[p].pc # "none" BY <2>5, <4>1 DEF Kill, Target
          <5>2. ~Done(p) BY <5>1, DoneType, OutboxAssumption DEF TypeInv
          <5>. QED BY <4>1, <5>2 DEF Kill
        <4>2. CASE Outlived(p)
          <5>1. ~Won(p) /\ ~Run(p, "none") BY <4>2 DEF Outlived, Run
          <5>. QED BY <2>5, <5>1 DEF Won, TypeInv, ShellInv
        <4>. QED BY <1>10, <4>1, <4>2
      <3>2. May(p) => May(p)'
        BY <3>1, OutboxAssumption DEF May, Has, Run, At, Sending
      <3>. QED BY <1>4, <2>1, <2>2, <3>1, <3>2 DEF May, Has, Run, Mine, Target
    <2>. QED BY <2>4, <2>5
  <1>11. ASSUME NEW o \in Others, Ask(o) \/ Leave(o)
         PROVE  /\ lock'[f] # Stale
                /\ \A q \in Procs : lock'[f] = q => f = Mine(q)' /\ May(q)'
    <2>1. o \in Procs /\ o \notin Senders /\ Mine(o) = dl[o].file BY OutboxAssumption DEF Mine
    <2>2. UNCHANGED sh BY <1>11 DEF Ask, Leave
    <2>3. CASE Ask(o)
      <3>1. PICK path \in Paths, opt \in [retry : Nat, force : BOOLEAN] : Begin(o, path, opt)
        BY <2>3, OutboxAssumption DEF Ask
      <3>2. \A r \in Procs \ {o} : dl'[r] = dl[r] BY <2>1, <3>1, BeginType DEF TypeInv
      <3>3. ~May(o) /\ UNCHANGED lock BY <2>1, <2>3 DEF Ask, May, Has, Run
      <3>. QED BY <1>4, <2>2, <3>2, <3>3 DEF May, Has, Run, Mine, Target
    <2>4. CASE Leave(o)
      <3>1. \A r \in Procs \ {o} : dl'[r] = dl[r] BY <2>1, <2>4, DoneType DEF Leave, TypeInv
      <3>2. CASE Run(o, "ok")
        <4>1. Dereference(dl[o].file) = dl[o].file /\ dl[o].file \in Paths
          BY <2>1, <3>2, DereferenceType DEF TypeInv, RunInv, Run
        <4>2. lock' = [lock EXCEPT ![dl[o].file] = None] BY <2>4, <3>2, <4>1 DEF Leave, Unlinked
        <4>3. f = Mine(o) => lock'[f] = None BY <2>1, <4>1, <4>2 DEF TypeInv, StateType
        <4>4. lock'[f] = lock[f] \/ lock'[f] = None BY <4>1, <4>2 DEF TypeInv, StateType
        <4>. QED BY <1>3, <1>4, <2>1, <2>2, <3>1, <4>3, <4>4 DEF May, Has, Run, Mine, Target
      <3>3. CASE ~Run(o, "ok")
        <4>1. UNCHANGED lock /\ dl[o].pc \in {"exist", "error"} /\ ~(Run(o, "error") /\ lock[dl[o].file] = o)
          BY <2>4, <3>3 DEF Leave, Run
        <4>2. lock[f] = o /\ f = Mine(o) => ~May(o)
          BY <2>1, <3>3, <4>1 DEF May, Has, Run
        <4>. QED BY <1>4, <2>2, <3>1, <4>1, <4>2 DEF May, Has, Run, Mine, Target
      <3>. QED BY <3>2, <3>3
    <2>. QED BY <1>11, <2>3, <2>4
  <1>12. ASSUME NEW p \in Procs, DotLockStep(p) \/ DotLockFails(p), UNCHANGED sh
         PROVE  /\ lock'[f] # Stale
                /\ \A q \in Procs : lock'[f] = q => f = Mine(q)' /\ May(q)'
    <2>1. Mine(p) = dl[p].file /\ dl[p].file \in Paths /\ (p \in Senders => sh[p].pc \in {"lock", "idle"})
      BY <1>12, OutboxAssumption DEF TypeInv, RunInv, ShellInv, Run, Mine, DotLockStep, Open, Link, Exhausted,
         Stat, ForceUnlink, DotLockFails
    <2>2. ~Has(p)
      BY <1>12, <2>1, OutboxAssumption DEF Has, At, Sending, Run, DotLockStep, Open, Link, Exhausted, Stat,
         ForceUnlink, DotLockFails
    <2>3. \A q \in Procs \ {p} : dl'[q] = dl[q]
      BY <1>12 DEF DotLockStep, Open, Link, Exhausted, Stat, ForceUnlink, DotLockFails, Then, TypeInv, StateType
    <2>4. \A q \in Procs \ {p} : May(q) => May(q)' /\ Mine(q)' = Mine(q)
      BY <1>12, <2>3 DEF May, Has, Run, Mine, Target
    <2>. USE DEF TypeInv, StateType, Runs, Statuses
    <2>5. CASE Open(p)
      <3>1. ~May(p) BY <2>2, <2>5 DEF Open, Run, May
      <3>2. lock'[f] = lock[f] BY <1>2, <2>5, <3>1 DEF Open
      <3>. QED BY <1>4, <2>4, <3>1, <3>2
    <2>6. CASE Link(p)
      <3>1. dl'[p].pc = "stat" /\ dl'[p].file = dl[p].file BY <2>6 DEF Link
      <3>2. May(p)' /\ Mine(p)' = Mine(p) BY <1>12, <3>1 DEF May, Mine, Target
      <3>3. f # dl[p].file => lock'[f] = lock[f] BY <2>6 DEF Link
      <3>4. lock'[f] = lock[f] \/ (lock'[f] = p /\ f = Mine(p)) BY <2>1, <2>6, <3>3 DEF Link, Linked
      <3>. QED BY <1>2, <1>3, <1>4, <2>4, <3>2, <3>4
    <2>7. CASE Exhausted(p)
      <3>1. ~May(p) BY <2>2, <2>7 DEF Exhausted, Run, May
      <3>. QED BY <1>4, <2>4, <2>7, <3>1 DEF Exhausted
    <2>8. CASE Stat(p)
      <3>1. UNCHANGED lock BY <2>8 DEF Stat
      <3>2. CASE Won(p)
        <4>1. dl'[p].pc = "ok" /\ dl'[p].file = dl[p].file BY <2>8, <3>2 DEF Stat, Then
        <4>2. May(p)' /\ Mine(p)' = Mine(p) BY <1>12, <4>1 DEF May, Has, Run, Mine, Target
        <4>. QED BY <1>4, <2>4, <3>1, <4>2
      <3>3. CASE ~Won(p)
        <4>1. ~(lock[f] = p /\ f = Mine(p)) BY <2>1, <3>3 DEF Won
        <4>. QED BY <1>4, <2>4, <3>1, <4>1
      <3>. QED BY <3>2, <3>3
    <2>9. CASE ForceUnlink(p)
      <3>1. lock'[f] = IF f = Mine(p) THEN None ELSE lock[f] BY <2>1, <2>9 DEF ForceUnlink
      <3>. QED BY <1>3, <1>4, <2>4, <3>1
    <2>10. CASE DotLockFails(p)
      <3>1. UNCHANGED lock /\ dl'[p].pc \in {"stat", "error"} /\ dl'[p].file = dl[p].file
        BY <2>10 DEF DotLockFails, Then
      <3>2. May(p)' /\ Mine(p)' = Mine(p) BY <1>12, <3>1 DEF May, Mine, Target
      <3>. QED BY <1>4, <2>4, <3>1, <3>2
    <2>. QED BY <1>12, <2>5, <2>6, <2>7, <2>8, <2>9, <2>10 DEF DotLockStep
  <1>. QED BY <1>5, <1>6, <1>7, <1>8, <1>9, <1>10, <1>11, <1>12, NextCases DEF vars, locking, Enqueue

\* No lock outlives its owner but by a kill, a failure, or a signal before the traps are
\* set: for any number of shells, other users, names and retries, usurped locks included.
THEOREM NoLockLeft == Spec => []LockAccounted
  <1>1. Init => AccountInv
    BY DotLockAssumption DEF Init, DotLockInit, AccountInv
  <1>2. AccountInv => LockAccounted
    BY OutboxAssumption DEF AccountInv, LockAccounted
  <1>. QED BY <1>1, <1>2, InitType, NextType, NextAccounted, PTL DEF Spec
=============================================================================
