----------------------------- MODULE BatchPool -----------------------------
(***************************************************************************)
(* The apply batch of jaro-filter: its coordinator (main, parallel and     *)
(* classify of src/src/jaro-filter.c), the worker threads and the signal   *)
(* thread of its pool (src/src/filter/pool.c), its output and its lock.    *)
(*                                                                         *)
(* A section between pthread_mutex_lock and the matching unlock or wait is *)
(* one action: everything the threads share is touched in such sections    *)
(* only.  A thread in "waiting" sleeps on its condition variable until a   *)
(* signal or broadcast makes it recheck.  One move is one job whose        *)
(* outcome MaildirMove determines; here it starts and ends.                *)
(***************************************************************************)
EXTENDS Naturals, FiniteSets

CONSTANTS
    Workers,     \* JF_POOL_WORKERS threads
    N,           \* number of selected messages
    Window,      \* JF_POOL_WINDOW, messages prepared at a time
    MaxSignals   \* bound on the signals sent to the process

ASSUME BatchAssumption ==
    /\ Workers # {}
    /\ N \in Nat
    /\ Window \in Nat \ {0}
    /\ MaxSignals \in Nat

Items == 1..N

VARIABLES
    \* the coordinator
    cpc, start, count, emit, rc, quarantine, interrupted, exit,
    \* per message: its decision and whether its source descriptor is open
    res, fd,
    \* struct jf_pool, under its mutex
    next, limit, remaining, stop, quit, psignal,
    \* the threads
    wpc, wjob, spc,
    \* the process: signal mask, signals pending for it and (SIGPIPE) for the
    \* coordinator's thread alone, signals sent and raised so far, batch lock
    masked, pending, piped, sent, raised, lock,
    \* output: rows written, rows flushed, outcomes named on stderr
    rows, flushed, named

main == <<cpc, start, count, emit, rc, quarantine, interrupted, exit>>
jobs == <<res, fd>>
queue == <<next, limit, remaining>>
threads == <<wpc, wjob, spc>>
process == <<masked, pending, piped, sent, raised, lock>>
output == <<rows, flushed, named>>
vars == <<main, jobs, queue, stop, quit, psignal, threads, process, output>>

(***************************************************************************)
(* res: "none" not prepared, "ready" classified, "error" refused (rc 7),   *)
(* "fatal" resource failure (rc 3), "alias" a descriptor of the lock's     *)
(* inode (rc 7, quarantine); after the job "moved", "noop", "error",       *)
(* "retained" (rc 7 with recovery paths), "fatal", "broken" (rc 3 with     *)
(* recovery paths), "stopped" (rc 7, E_INTERRUPTED), and "unclosed" for a  *)
(* moved message whose source descriptor failed to close (rc 7).           *)
(***************************************************************************)
Fatal == {"fatal", "broken"}
Kept == {"retained", "broken"}
Durable == Kept \cup {"moved", "unclosed"}
Refused == {"error", "retained", "alias", "stopped", "unclosed"}
Results == {"none", "ready", "noop"} \cup Fatal \cup Durable \cup Refused

\* The descriptors, decisions and jobs of the current window.
InWindow(j) == j \in start + 1 .. start + count

Init ==
    /\ cpc = "pool_start" /\ start = 0 /\ count = 0 /\ emit = 0
    /\ rc = 0 /\ quarantine = FALSE /\ interrupted = FALSE /\ exit = "running"
    /\ res = [j \in Items |-> "none"] /\ fd = [j \in Items |-> "closed"]
    /\ next = 0 /\ limit = 0 /\ remaining = 0
    /\ stop = FALSE /\ quit = FALSE /\ psignal = FALSE
    /\ wpc = [w \in Workers |-> "absent"] /\ wjob = [w \in Workers |-> 0] /\ spc = "absent"
    /\ masked = FALSE /\ pending = FALSE /\ piped = FALSE /\ sent = 0
    /\ raised = FALSE /\ lock = FALSE
    /\ rows = {} /\ flushed = {} /\ named = {}

-----------------------------------------------------------------------------
(* Helpers; a definition marked "Fault" is a slip some property notices. *)

\* pthread_cond_broadcast on ready: every sleeping worker rechecks.
Woken(pcs) == [w \in Workers |-> IF pcs[w] = "waiting" THEN "idle" ELSE pcs[w]]

\* Fault: the flag is read without looking for signals.
ObserveFlagOnly(mine) == UNCHANGED <<pending, piped, stop, psignal>>

\* Fault: a signal consumed once the pool is stopped is not recorded.
ObserveFirst(mine) ==
    LET got == pending \/ (mine /\ piped) IN
    /\ pending' = FALSE
    /\ piped' = (piped /\ ~mine)
    /\ stop' = (stop \/ got)
    /\ psignal' = (psignal \/ (got /\ ~stop))

\* observe_signals: consume what is pending for the process and, with mine, for
\* the coordinator's thread alone, and publish it as stop.
Observe(mine) ==
    LET got == pending \/ (mine /\ piped) IN
    /\ pending' = FALSE
    /\ piped' = (piped /\ ~mine)
    /\ stop' = (stop \/ got)
    /\ psignal' = (psignal \/ got)

\* What observe_signals does to the sleeping workers.
Observed(mine) == IF pending \/ (mine /\ piped) THEN Woken(wpc) ELSE wpc

\* A failed write on a closed pipe raises SIGPIPE for the coordinator's thread.
Sigpipe(sig) == piped' = (piped \/ sig) /\ raised' = (raised \/ sig)

\* The same where the mask may not be set: on_signal runs at once.
WriteFails(sig) ==
    /\ raised' = (raised \/ sig)
    /\ IF masked THEN piped' = (piped \/ sig) /\ UNCHANGED interrupted
                 ELSE interrupted' = (interrupted \/ sig) /\ UNCHANGED piped

\* Fault: the coordinator is not told of the last job.
NoSignal(left) == cpc

\* pthread_cond_signal on settled when the last job is done.
SignalSettled(left) == IF left = 0 /\ cpc = "await_wait" THEN "await" ELSE cpc

-----------------------------------------------------------------------------
(* main up to the first window *)

\* independent said no, or jf_pool_start failed before it created a thread.
NoPool ==
    /\ cpc = "pool_start"
    /\ cpc' = "lock"
    /\ UNCHANGED <<start, count, emit, rc, quarantine, interrupted, exit, jobs, queue, stop,
                   quit, psignal, threads, process, output>>

\* jf_pool_start creates the workers and the signal thread.
StartPool ==
    /\ cpc = "pool_start"
    /\ masked' = TRUE
    /\ wpc' = [w \in Workers |-> "idle"]
    /\ spc' = "run"
    /\ cpc' = "lock"
    /\ UNCHANGED <<start, count, emit, rc, quarantine, interrupted, exit, jobs, queue, stop,
                   quit, psignal, wjob, pending, piped, sent, raised, lock, output>>

\* It fails after some threads: they are told to quit and joined.
StartPoolFails ==
    /\ cpc = "pool_start"
    /\ masked' = TRUE
    /\ \E some \in SUBSET Workers :
         wpc' = [w \in Workers |-> IF w \in some THEN "idle" ELSE "absent"]
    /\ quit' = TRUE
    /\ cpc' = "unstart"
    /\ UNCHANGED <<start, count, emit, rc, quarantine, interrupted, exit, jobs, queue, stop,
                   psignal, wjob, spc, pending, piped, sent, raised, lock, output>>

\* Restoring the mask delivers what is pending to on_signal.
Unmask ==
    /\ masked' = FALSE
    /\ pending' = FALSE
    /\ piped' = FALSE

Unstart ==
    /\ cpc = "unstart"
    /\ \A w \in Workers : wpc[w] \in {"absent", "gone"}
    /\ Unmask
    /\ interrupted' = (interrupted \/ pending)
    /\ quit' = FALSE
    /\ wpc' = [w \in Workers |-> "absent"]
    /\ cpc' = "lock"
    /\ UNCHANGED <<start, count, emit, rc, quarantine, exit, jobs, queue, stop,
                   psignal, wjob, spc, sent, raised, lock, output>>

Pooled == spc # "absent"

\* jf_pool_bind transfers an interruption that preflight observed.
Bind == stop' = (stop \/ (Pooled /\ interrupted))

\* jf_storage_begin, jf_pool_bind and the output header.
Begin ==
    /\ cpc = "lock"
    /\ lock' = TRUE
    /\ Bind
    /\ cpc' = IF Pooled THEN "outer" ELSE "single"
    /\ UNCHANGED <<start, count, emit, rc, quarantine, interrupted, exit, jobs, queue,
                   quit, psignal, threads, masked, pending, piped, sent, raised, output>>

\* The lock is busy or the generation changed (rc 3, 5 or 6, here all 3: not 0 or 7),
\* or the header was not written.
BeginFails ==
    /\ cpc = "lock"
    /\ \/ lock' = FALSE /\ UNCHANGED <<stop, piped, raised, interrupted>>
       \/ /\ lock' = TRUE
          /\ Bind
          /\ \E sig \in BOOLEAN : WriteFails(sig)
    /\ rc' = 3
    /\ cpc' = "done"
    /\ UNCHANGED <<start, count, emit, quarantine, exit, jobs, queue,
                   quit, psignal, threads, masked, pending, sent, output>>

-----------------------------------------------------------------------------
(* parallel *)

\* The outer loop's condition.
Outer ==
    /\ cpc = "outer"
    /\ IF start = N
       THEN UNCHANGED <<pending, piped, stop, psignal, wpc>>
       ELSE Observe(TRUE) /\ wpc' = Observed(TRUE)
    /\ cpc' = IF start = N \/ stop' THEN "done" ELSE "admit"
    /\ UNCHANGED <<start, count, emit, rc, quarantine, interrupted, exit, jobs, queue, quit,
                   wjob, spc, masked, sent, raised, lock, output>>

\* Fault: one message more than the window's arrays hold.
RoomForOneMore == count <= Window /\ start + count < N

\* Another decision fits in the window.
Room == count < Window /\ start + count < N

\* The window is full, the selection exhausted, or stop published.
AdmitEnds ==
    /\ cpc = "admit"
    /\ IF ~Room
       THEN UNCHANGED <<pending, piped, stop, psignal, wpc>>
       ELSE Observe(TRUE) /\ stop' /\ wpc' = Observed(TRUE)
    /\ cpc' = "submit"
    /\ UNCHANGED <<start, count, emit, rc, quarantine, interrupted, exit, jobs, queue, quit,
                   wjob, spc, masked, sent, raised, lock, output>>

\* prepare pins one more message; a resource failure or a lock alias ends the
\* window and stops the pool.
Admit(r) ==
    LET j == start + count + 1 IN
    /\ cpc = "admit"
    /\ Room
    /\ ~stop /\ ~pending /\ ~piped
    /\ res' = [res EXCEPT ![j] = r]
    /\ \E f \in {"open", "closed"} :
         (r \in {"ready", "alias"} => f = "open") /\ fd' = [fd EXCEPT ![j] = f]
    /\ count' = count + 1
    /\ quarantine' = (r = "alias")
    /\ stop' = (r \in {"fatal", "alias"})
    /\ wpc' = IF stop' THEN Woken(wpc) ELSE wpc
    /\ cpc' = IF stop' THEN "submit" ELSE "admit"
    /\ UNCHANGED <<start, emit, rc, interrupted, exit, queue, quit, psignal, wjob, spc,
                   process, output>>

\* jf_pool_window publishes the jobs and wakes the workers.
Submit ==
    /\ cpc = "submit"
    /\ IF count = 0
       THEN cpc' = "close" /\ UNCHANGED <<queue, wpc>>
       ELSE /\ next' = 0 /\ limit' = count /\ remaining' = count
            /\ wpc' = Woken(wpc)
            /\ cpc' = "await"
    /\ UNCHANGED <<start, count, emit, rc, quarantine, interrupted, exit, jobs, stop, quit,
                   psignal, wjob, spc, process, output>>

\* Fault: the window counts as settled once its jobs are taken.
AllTaken == next = limit

AllSettled == remaining = 0

\* The wait loop of jf_pool_window.
Await ==
    /\ cpc = "await"
    /\ cpc' = IF AllSettled THEN "close" ELSE "await_wait"
    /\ UNCHANGED <<start, count, emit, rc, quarantine, interrupted, exit, jobs, queue, stop,
                   quit, psignal, threads, process, output>>

\* Fault: quarantined descriptors are closed with the others.
ClosableAny(j) == InWindow(j)

\* close_decision keeps a quarantined descriptor.
Closable(j) == InWindow(j) /\ res[j] # "alias"

\* Closing any descriptor of the lock's inode drops the process's POSIX lock.
CloseAll ==
    /\ cpc = "close"
    /\ \E bad \in SUBSET {j \in Items : Closable(j) /\ res[j] \in {"moved", "noop"}} :
         res' = [j \in Items |-> IF j \notin bad THEN res[j]
                                 ELSE IF res[j] = "moved" THEN "unclosed" ELSE "error"]
    /\ fd' = [j \in Items |-> IF Closable(j) THEN "closed" ELSE fd[j]]
    /\ lock' = (lock /\ ~\E j \in Items : Closable(j) /\ res[j] = "alias")
    /\ emit' = 0
    /\ rc' = 0
    /\ cpc' = "emit"
    /\ UNCHANGED <<start, count, quarantine, interrupted, exit, queue, stop, quit,
                   psignal, threads, masked, pending, piped, sent, raised, output>>

\* emit_decision names what a failed move retained, whatever becomes of the row.
Named(j) == IF res[j] \in Kept THEN named \cup {j} ELSE named

\* emit_decision writes one row.
Emit ==
    LET j == start + emit + 1 IN
    /\ cpc = "emit"
    /\ emit < count
    /\ res[j] \notin Fatal
    /\ rows' = rows \cup {j}
    /\ named' = Named(j)
    /\ emit' = emit + 1
    /\ UNCHANGED <<cpc, start, count, rc, quarantine, interrupted, exit, jobs, queue, stop,
                   quit, psignal, threads, process, flushed>>

\* A fatal decision has no row, or the write fails, perhaps with SIGPIPE for this
\* thread: the rest of the window is not written.
EmitFails ==
    LET j == start + emit + 1 IN
    /\ cpc = "emit"
    /\ emit < count
    /\ \E sig \in BOOLEAN : Sigpipe(sig) /\ (sig => res[j] \notin Fatal)
    /\ named' = Named(j)
    /\ rc' = 3
    /\ stop' = TRUE
    /\ wpc' = Woken(wpc)
    /\ cpc' = "flush"
    /\ UNCHANGED <<start, count, emit, quarantine, interrupted, exit, jobs, queue, quit,
                   psignal, wjob, spc, masked, pending, sent, lock, rows, flushed>>

EmitEnds ==
    /\ cpc = "emit"
    /\ emit = count
    /\ cpc' = "flush"
    /\ UNCHANGED <<start, count, emit, rc, quarantine, interrupted, exit, jobs, queue, stop,
                   quit, psignal, threads, process, output>>

Flush ==
    /\ cpc = "flush"
    /\ flushed' = rows
    /\ cpc' = "diagnose"
    /\ UNCHANGED <<start, count, emit, rc, quarantine, interrupted, exit, jobs, queue, stop,
                   quit, psignal, threads, process, rows, named>>

\* An unknown part of the rows got out.
FlushFails ==
    /\ cpc = "flush"
    /\ \E sig \in BOOLEAN : Sigpipe(sig)
    /\ rc' = 3
    /\ stop' = TRUE
    /\ wpc' = Woken(wpc)
    /\ cpc' = "diagnose"
    /\ UNCHANGED <<start, count, emit, quarantine, interrupted, exit, jobs, queue, quit,
                   psignal, wjob, spc, masked, pending, sent, lock, output>>

\* Fault: only the rows that were not written are named.
OutcomesUnwritten == {j \in Items : InWindow(j) /\ res[j] \in Durable /\ j \notin rows}

Outcomes == {j \in Items : InWindow(j) /\ res[j] \in Durable}

\* After an output or resource failure stderr names every durable outcome of the
\* window, and the pool is finished; so it is when stop is published.
Diagnose ==
    /\ cpc = "diagnose"
    /\ named' = IF rc = 3 THEN named \cup Outcomes ELSE named
    /\ IF rc = 3 \/ quarantine
       THEN UNCHANGED <<pending, piped, stop, psignal, wpc>>
       ELSE Observe(TRUE) /\ wpc' = Observed(TRUE)
    /\ IF rc = 3 \/ quarantine \/ stop'
       THEN cpc' = "finish" /\ UNCHANGED <<start, count, emit>>
       ELSE cpc' = "outer" /\ start' = start + count /\ count' = 0 /\ emit' = 0
    /\ rc' = IF quarantine THEN 3 ELSE rc
    /\ UNCHANGED <<quarantine, interrupted, exit, jobs, queue, quit, wjob, spc,
                   masked, sent, raised, lock, rows, flushed>>

-----------------------------------------------------------------------------
(* jf_pool_finish and the end of main *)

\* label done: with a pool, finish it first.
Done ==
    /\ cpc = "done"
    /\ cpc' = IF Pooled THEN "finish" ELSE "exit"
    /\ UNCHANGED <<start, count, emit, rc, quarantine, interrupted, exit, jobs, queue, stop,
                   quit, psignal, threads, process, output>>

Finish ==
    /\ cpc = "finish"
    /\ quit' = TRUE
    /\ wpc' = Woken(wpc)
    /\ cpc' = "join"
    /\ UNCHANGED <<start, count, emit, rc, quarantine, interrupted, exit, jobs, queue, stop,
                   psignal, wjob, spc, process, output>>

\* All threads joined; the coordinator drains what only it can see.
Join ==
    /\ cpc = "join"
    /\ \A w \in Workers : wpc[w] = "gone"
    /\ spc = "gone"
    /\ Observe(TRUE)
    /\ cpc' = "unmask"
    /\ UNCHANGED <<start, count, emit, rc, quarantine, interrupted, exit, jobs, queue, quit,
                   threads, masked, sent, raised, lock, output>>

\* The mask is restored, the signal the pool saw recorded, the pool gone; only now
\* is a quarantined descriptor closed.
Finished ==
    /\ cpc = "unmask"
    /\ Unmask
    /\ interrupted' = (interrupted \/ psignal \/ pending \/ piped)
    /\ spc' = "absent"
    /\ wpc' = [w \in Workers |-> "absent"]
    /\ fd' = [j \in Items |-> "closed"]
    /\ lock' = (lock /\ ~\E j \in Items : fd[j] = "open" /\ res[j] = "alias")
    /\ cpc' = "exit"
    /\ UNCHANGED <<start, count, emit, rc, quarantine, exit, res, queue, stop,
                   quit, psignal, wjob, sent, raised, output>>

\* The status is settled and the lock released.
Exit ==
    /\ cpc = "exit"
    /\ exit' = IF interrupted THEN "signalled"
               ELSE IF rc = 3 THEN "failed"
               ELSE IF \E j \in Items : res[j] \in Refused THEN "partial"
               ELSE "complete"
    /\ lock' = FALSE
    /\ cpc' = "ended"
    /\ UNCHANGED <<start, count, emit, rc, quarantine, interrupted, jobs, queue, stop, quit,
                   psignal, threads, masked, pending, piped, sent, raised, output>>

-----------------------------------------------------------------------------
(* The singleton path: classify, one message after the other *)

Single(r) ==
    /\ cpc = "single"
    /\ start < N /\ ~interrupted
    /\ res' = [res EXCEPT ![start + 1] = r]
    /\ cpc' = "single_emit"
    /\ UNCHANGED <<start, count, emit, rc, quarantine, interrupted, exit, fd, queue, stop, quit,
                   psignal, threads, process, output>>

\* A fatal or quarantined message, or a row that cannot be written, ends the batch.
SingleEmit ==
    LET j == start + 1 IN
    /\ cpc = "single_emit"
    /\ \/ /\ res[j] \notin Fatal
          /\ rows' = rows \cup {j}
          /\ rc' = IF res[j] = "alias" THEN 3 ELSE rc
          /\ UNCHANGED <<interrupted, piped, raised>>
       \/ /\ UNCHANGED rows
          /\ rc' = 3
          /\ \E sig \in BOOLEAN : WriteFails(sig) /\ (sig => res[j] \notin Fatal)
    /\ lock' = (lock /\ res[j] # "alias")
    /\ named' = Named(j)
    /\ start' = j
    /\ cpc' = IF rc' = 3 THEN "done" ELSE "single"
    /\ UNCHANGED <<count, emit, quarantine, exit, jobs, queue, stop, quit,
                   psignal, threads, masked, pending, sent, flushed>>

SingleEnds ==
    /\ cpc = "single"
    /\ start = N \/ interrupted
    /\ \/ flushed' = rows /\ UNCHANGED <<rc, interrupted, piped, raised>>
       \/ rc' = 3 /\ (\E sig \in BOOLEAN : WriteFails(sig)) /\ UNCHANGED flushed
    /\ cpc' = "done"
    /\ UNCHANGED <<start, count, emit, quarantine, exit, jobs, queue, stop, quit,
                   psignal, threads, masked, pending, sent, lock, rows, named>>

-----------------------------------------------------------------------------
(* The worker threads *)

\* worker: wait for a job or for the end, and take the next job.
Take(w) ==
    /\ wpc[w] = "idle"
    /\ IF quit THEN wpc' = [wpc EXCEPT ![w] = "gone"] /\ UNCHANGED <<next, wjob>>
       ELSE IF next = limit THEN wpc' = [wpc EXCEPT ![w] = "waiting"] /\ UNCHANGED <<next, wjob>>
       ELSE /\ wpc' = [wpc EXCEPT ![w] = "entry"]
            /\ wjob' = [wjob EXCEPT ![w] = start + next + 1]
            /\ next' = next + 1
    /\ UNCHANGED <<main, jobs, limit, remaining, stop, quit, psignal, spc, process, output>>

\* move_decision on a message that was refused does nothing; a fatal one stops
\* the pool.
Skip(w) ==
    /\ wpc[w] = "entry"
    /\ res[wjob[w]] # "ready"
    /\ stop' = (stop \/ res[wjob[w]] = "fatal")
    /\ wpc' = [IF res[wjob[w]] = "fatal" THEN Woken(wpc) ELSE wpc EXCEPT ![w] = "settle"]
    /\ UNCHANGED <<main, jobs, queue, quit, psignal, wjob, spc, process, output>>

\* The stop boundary before jf_storage_move.
Enter(w) ==
    /\ wpc[w] = "entry"
    /\ res[wjob[w]] = "ready"
    /\ Observe(FALSE)
    /\ wpc' = [Observed(FALSE) EXCEPT ![w] = IF stop' THEN "settle" ELSE "moving"]
    /\ res' = IF stop' THEN [res EXCEPT ![wjob[w]] = "stopped"] ELSE res
    /\ UNCHANGED <<main, fd, queue, quit, wjob, spc, masked, sent, raised, lock, output>>

\* jf_storage_move returns; a resource failure stops the pool.
Move(w, r) ==
    /\ wpc[w] = "moving"
    /\ res' = [res EXCEPT ![wjob[w]] = r]
    /\ stop' = (stop \/ r \in Fatal)
    /\ wpc' = [IF r \in Fatal THEN Woken(wpc) ELSE wpc EXCEPT ![w] = "settle"]
    /\ UNCHANGED <<main, fd, queue, quit, psignal, wjob, spc, process, output>>

\* A boundary inside jf_storage_move observes stop; the move is given up.
Interrupt(w) ==
    /\ wpc[w] = "moving"
    /\ Observe(FALSE)
    /\ stop'
    /\ \E r \in {"stopped", "retained"} : res' = [res EXCEPT ![wjob[w]] = r]
    /\ wpc' = [Observed(FALSE) EXCEPT ![w] = "settle"]
    /\ UNCHANGED <<main, fd, queue, quit, wjob, spc, masked, sent, raised, lock, output>>

Settle(w) ==
    /\ wpc[w] = "settle"
    /\ remaining' = remaining - 1
    /\ cpc' = SignalSettled(remaining')
    /\ wpc' = [wpc EXCEPT ![w] = "idle"]
    /\ wjob' = [wjob EXCEPT ![w] = 0]
    /\ UNCHANGED <<start, count, emit, rc, quarantine, interrupted, exit, jobs, next, limit, stop,
                   quit, psignal, spc, process, output>>

-----------------------------------------------------------------------------
(* The signal thread and the sender of signals *)

Poll ==
    /\ spc = "run"
    /\ Observe(FALSE)
    /\ wpc' = Observed(FALSE)
    /\ spc' = IF quit THEN "gone" ELSE "sleep"
    /\ UNCHANGED <<main, jobs, queue, quit, wjob, masked, sent, raised, lock, output>>

Sleep ==
    /\ spc = "sleep"
    /\ spc' = "run"
    /\ UNCHANGED <<main, jobs, queue, stop, quit, psignal, wpc, wjob, process, output>>

\* INT, TERM or HUP for the process: pending while masked, else on_signal runs.
Send ==
    /\ sent < MaxSignals
    /\ cpc # "ended"
    /\ sent' = sent + 1
    /\ raised' = TRUE
    /\ IF masked THEN pending' = TRUE /\ UNCHANGED interrupted
                 ELSE interrupted' = TRUE /\ UNCHANGED pending
    /\ UNCHANGED <<cpc, start, count, emit, rc, quarantine, exit, jobs, queue, stop, quit,
                   psignal, threads, masked, piped, lock, output>>

-----------------------------------------------------------------------------
Starting == NoPool \/ StartPool \/ StartPoolFails \/ Unstart \/ Begin \/ BeginFails

Parallel ==
    \/ Outer \/ AdmitEnds
    \/ \E r \in {"ready", "error", "fatal", "alias"} : Admit(r)
    \/ Submit \/ Await \/ CloseAll \/ Emit \/ EmitFails \/ EmitEnds
    \/ Flush \/ FlushFails \/ Diagnose

Singleton ==
    \/ \E r \in Fatal \cup Refused \cup {"moved", "noop"} : Single(r)
    \/ SingleEmit \/ SingleEnds

Ending == Done \/ Finish \/ Join \/ Finished \/ Exit

Coordinator == Starting \/ Parallel \/ Singleton \/ Ending

Worker(w) ==
    \/ Take(w) \/ Skip(w) \/ Enter(w)
    \/ \E r \in Fatal \cup {"moved", "noop", "error", "retained"} : Move(w, r)
    \/ Interrupt(w) \/ Settle(w)

SignalThread == Poll \/ Sleep

Terminated == cpc = "ended" /\ UNCHANGED vars

Next ==
    \/ Coordinator
    \/ \E w \in Workers : Worker(w)
    \/ SignalThread
    \/ Send
    \/ Terminated

Spec == Init /\ [][Next]_vars

\* Every thread is scheduled; a move returns (Termination of MaildirMove).
FairSpec ==
    /\ Spec
    /\ WF_vars(Coordinator)
    /\ \A w \in Workers : WF_vars(Worker(w))
    /\ WF_vars(SignalThread)

-----------------------------------------------------------------------------
(* Properties *)

Busy(w) == wpc[w] \in {"entry", "moving", "settle"}

\* Types; and the window arrays of parallel and jf_pool_window are never indexed past
\* their end: at most Window jobs admitted, taken and settled.
TypeOK ==
    /\ cpc \in {"pool_start", "unstart", "lock", "outer", "admit", "submit", "await",
                "await_wait", "close", "emit", "flush", "diagnose", "single", "single_emit",
                "done", "finish", "join", "unmask", "exit", "ended"}
    /\ start \in 0..N /\ count \in 0..Window /\ start + count <= N /\ emit \in 0..count
    /\ rc \in {0, 3} /\ quarantine \in BOOLEAN /\ interrupted \in BOOLEAN
    /\ exit \in {"running", "signalled", "failed", "partial", "complete"}
    /\ res \in [Items -> Results] /\ fd \in [Items -> {"open", "closed"}]
    /\ next \in 0..limit /\ limit \in 0..Window /\ remaining \in 0..limit
    /\ stop \in BOOLEAN /\ quit \in BOOLEAN /\ psignal \in BOOLEAN
    /\ wpc \in [Workers -> {"absent", "idle", "waiting", "entry", "moving", "settle", "gone"}]
    /\ wjob \in [Workers -> 0..N] /\ spc \in {"absent", "run", "sleep", "gone"}
    /\ masked \in BOOLEAN /\ pending \in BOOLEAN /\ piped \in BOOLEAN
    /\ sent \in 0..MaxSignals /\ raised \in BOOLEAN /\ lock \in BOOLEAN
    /\ rows \subseteq Items /\ flushed \subseteq rows /\ named \subseteq Items

\* A worker only touches decisions the coordinator has lent out: while it runs
\* one, the coordinator waits in jf_pool_window, the message's descriptor is
\* open and no other worker has the same job; and when the window is closed
\* every job of it has settled.
LentOut ==
    /\ \A w \in Workers : Busy(w) =>
          /\ cpc \in {"await", "await_wait"}
          /\ InWindow(wjob[w])
          /\ wpc[w] = "moving" => fd[wjob[w]] = "open"
          /\ \A v \in Workers \ {w} : Busy(v) => wjob[v] # wjob[w]
    /\ cpc = "close" => \A j \in Items : InWindow(j) => res[j] # "ready"

\* From the first message to the last row the process holds the batch lock, although
\* closing any descriptor that turns out to be the lock's inode would drop it:
\* other batches stay out until everything this one did is settled and reported.
LockHeld ==
    \/ \E w \in Workers : Busy(w)
    \/ cpc \in {"outer", "admit", "submit", "await", "await_wait", "close", "emit", "flush",
                "diagnose", "single", "single_emit"}
    => lock

\* Before the pool admits another window or ends, every durable outcome (moved,
\* or failed with something retained) is in rows that were flushed, or named
\* on stderr.
OutcomesReported ==
    cpc \in {"outer", "finish", "join", "unmask"} =>
        \A j \in Items : res[j] \in Durable => j \in flushed \cup named

\* A managed signal raised before the status is settled, at whatever moment of
\* the pool's life and for whichever thread, becomes the status.
SignalReported == exit # "running" /\ raised => exit = "signalled"

\* No move of the pool starts past a published stop, an interrupt seen before the
\* pool existed or a signal pending for the process.
StopBoundary ==
    [][\A w \in Workers : wpc[w] # "moving" /\ wpc'[w] = "moving" =>
          ~stop /\ ~interrupted /\ ~pending]_vars

\* The batch ends: no wakeup is lost, every window settles, every thread is
\* joined, whatever stops it.
Ends == <>(cpc = "ended")
============================================================================
