-------------------------- MODULE BatchPoolProofs --------------------------
(***************************************************************************)
(* Proofs about BatchPool, for any number of workers, messages and signals *)
(* and any size of the window.                                             *)
(***************************************************************************)
EXTENDS BatchPool, FiniteSetTheorems, TLAPS

USE BatchAssumption

Lending == {"await", "await_wait"}
Windowed == {"outer", "admit", "submit", "close", "emit", "flush", "diagnose"} \cup Lending
Finishing == {"finish", "join", "unmask"}
Alone == {"single", "single_emit"}
Before == {"pool_start", "unstart", "lock"}

Running == {w \in Workers : Busy(w)}

\* The pool's counters count the jobs that nobody has taken and the workers that have one.
CountInv ==
    /\ cpc \in Lending =>
         /\ limit = count
         /\ IsFiniteSet(Running)
         /\ remaining = (limit - next) + Cardinality(Running)
    /\ cpc \notin Lending => Running = {} /\ next = limit /\ remaining = 0
    /\ cpc \in Before \cup Alone \cup {"outer"} => count = 0
    /\ cpc = "single_emit" => start < N

\* TypeOK in two parts, what is Boolean apart.
BooleanOK ==
    /\ quarantine \in BOOLEAN /\ interrupted \in BOOLEAN
    /\ stop \in BOOLEAN /\ quit \in BOOLEAN /\ psignal \in BOOLEAN
    /\ masked \in BOOLEAN /\ pending \in BOOLEAN /\ piped \in BOOLEAN
    /\ raised \in BOOLEAN /\ lock \in BOOLEAN

Labels == {"pool_start", "unstart", "lock", "outer", "admit", "submit", "await",
           "await_wait", "close", "emit", "flush", "diagnose", "single", "single_emit",
           "done", "finish", "join", "unmask", "exit", "ended"}

CoordinatorOK ==
    /\ cpc \in Labels
    /\ start \in 0..N /\ count \in 0..Window /\ start + count <= N /\ emit \in 0..count
    /\ rc \in {0, 3}
    /\ exit \in {"running", "signalled", "failed", "partial", "complete"}

ThreadsOK ==
    /\ next \in 0..limit /\ limit \in 0..Window /\ remaining \in 0..limit
    /\ wpc \in [Workers -> {"absent", "idle", "waiting", "entry", "moving", "settle", "gone"}]
    /\ wjob \in [Workers -> 0..N] /\ spc \in {"absent", "run", "sleep", "gone"}
    /\ sent \in 0..MaxSignals

OutputOK ==
    /\ res \in [Items -> Results] /\ fd \in [Items -> {"open", "closed"}]
    /\ rows \subseteq Items /\ flushed \subseteq rows /\ named \subseteq Items

TypeInv == BooleanOK /\ CoordinatorOK /\ ThreadsOK /\ OutputOK /\ CountInv

LEMMA TypeParts == TypeInv => TypeOK
  BY DEF TypeInv, TypeOK, BooleanOK, CoordinatorOK, ThreadsOK, OutputOK, Labels

LEMMA InitType == Init => TypeInv
  <1>. SUFFICES ASSUME Init PROVE TypeInv
    OBVIOUS
  <1>1. Running = {} BY DEF Init, Running, Busy
  <1>2. BooleanOK BY DEF Init, BooleanOK
  <1>3. CoordinatorOK BY DEF Init, CoordinatorOK, Labels
  <1>4. ThreadsOK BY DEF Init, ThreadsOK
  <1>5. OutputOK BY DEF Init, OutputOK, Results
  <1>6. CountInv BY <1>1 DEF Init, CountInv, Lending, Alone
  <1>. QED BY <1>2, <1>3, <1>4, <1>5, <1>6 DEF TypeInv

LEMMA Booleans == \A a, b : (a \/ b) \in BOOLEAN /\ (a /\ b) \in BOOLEAN /\ (~a) \in BOOLEAN
  OBVIOUS

\* Steps of the coordinator before the first window.
LEMMA StartingBoolean ==
    ASSUME BooleanOK, Starting
    PROVE  BooleanOK'
  <1>. USE DEF BooleanOK, main, jobs, queue, threads, process, output
  <1>1. CASE NoPool BY <1>1 DEF NoPool
  <1>2. CASE StartPool BY <1>2 DEF StartPool
  <1>3. CASE StartPoolFails BY <1>3 DEF StartPoolFails
  <1>4. CASE Unstart BY <1>4, Booleans DEF Unstart, Unmask
  <1>5. CASE Begin BY <1>5, Booleans DEF Begin, Bind
  <1>6. CASE BeginFails BY <1>6, Booleans DEF BeginFails, Bind, WriteFails
  <1>. QED BY <1>1, <1>2, <1>3, <1>4, <1>5, <1>6 DEF Starting

LEMMA ParallelBoolean ==
    ASSUME BooleanOK, Parallel
    PROVE  BooleanOK'
  <1>. USE DEF BooleanOK, main, jobs, queue, threads, process, output
  <1>1. CASE Outer BY <1>1, Booleans DEF Outer, Observe
  <1>2. CASE AdmitEnds BY <1>2, Booleans DEF AdmitEnds, Observe
  <1>3. ASSUME NEW r, Admit(r) PROVE BooleanOK' BY <1>3 DEF Admit
  <1>4. CASE Submit BY <1>4 DEF Submit
  <1>5. CASE Await BY <1>5 DEF Await
  <1>6. CASE CloseAll BY <1>6, Booleans DEF CloseAll
  <1>7. CASE Emit BY <1>7 DEF Emit
  <1>8. CASE EmitFails BY <1>8, Booleans DEF EmitFails, Sigpipe
  <1>9. CASE EmitEnds BY <1>9 DEF EmitEnds
  <1>10. CASE Flush BY <1>10 DEF Flush
  <1>11. CASE FlushFails BY <1>11, Booleans DEF FlushFails, Sigpipe
  <1>12. CASE Diagnose BY <1>12, Booleans DEF Diagnose, Observe
  <1>. QED BY <1>1, <1>2, <1>3, <1>4, <1>5, <1>6, <1>7, <1>8, <1>9, <1>10, <1>11, <1>12 DEF Parallel

LEMMA OtherBoolean ==
    ASSUME BooleanOK, Singleton \/ Ending \/ SignalThread \/ Send
    PROVE  BooleanOK'
  <1>. USE DEF BooleanOK, main, jobs, queue, threads, process, output
  <1>1. ASSUME NEW r, Single(r) PROVE BooleanOK' BY <1>1 DEF Single
  <1>2. CASE SingleEmit BY <1>2, Booleans DEF SingleEmit, WriteFails
  <1>3. CASE SingleEnds BY <1>3, Booleans DEF SingleEnds, WriteFails
  <1>4. CASE Done BY <1>4 DEF Done
  <1>5. CASE Finish BY <1>5 DEF Finish
  <1>6. CASE Join BY <1>6, Booleans DEF Join, Observe
  <1>7. CASE Finished BY <1>7, Booleans DEF Finished, Unmask
  <1>8. CASE Exit BY <1>8 DEF Exit
  <1>9. CASE Poll BY <1>9, Booleans DEF Poll, Observe
  <1>10. CASE Sleep BY <1>10 DEF Sleep
  <1>11. CASE Send BY <1>11 DEF Send
  <1>. QED BY <1>1, <1>2, <1>3, <1>4, <1>5, <1>6, <1>7, <1>8, <1>9, <1>10, <1>11
           DEF Singleton, Ending, SignalThread

LEMMA WorkerBoolean ==
    ASSUME BooleanOK, NEW w \in Workers, Worker(w)
    PROVE  BooleanOK'
  <1>. USE DEF BooleanOK, main, jobs, queue, threads, process, output
  <1>1. CASE Take(w) BY <1>1 DEF Take
  <1>2. CASE Skip(w) BY <1>2, Booleans DEF Skip
  <1>3. CASE Enter(w) BY <1>3, Booleans DEF Enter, Observe
  <1>4. ASSUME NEW r, Move(w, r) PROVE BooleanOK' BY <1>4, Booleans DEF Move
  <1>5. CASE Interrupt(w) BY <1>5, Booleans DEF Interrupt, Observe
  <1>6. CASE Settle(w) BY <1>6 DEF Settle
  <1>. QED BY <1>1, <1>2, <1>3, <1>4, <1>5, <1>6 DEF Worker

LEMMA WokenKeeps ==
    ASSUME ThreadsOK
    PROVE  /\ Woken(wpc) \in [Workers -> {"absent", "idle", "waiting", "entry", "moving", "settle", "gone"}]
           /\ \A w \in Workers : wpc[w] # "waiting" => Woken(wpc)[w] = wpc[w]
           /\ \A w \in Workers : wpc[w] = "waiting" => Woken(wpc)[w] = "idle"
  BY DEF ThreadsOK, Woken

\* What the coordinator, the signal thread and senders of signals leave alone.
Apart ==
    /\ wpc' \in [Workers -> {"absent", "idle", "waiting", "entry", "moving", "settle", "gone"}]
    /\ \A w \in Workers : Busy(w) \/ Busy(w)' => wpc'[w] = wpc[w]
    /\ UNCHANGED wjob

LEMMA CoordinatorApart ==
    ASSUME TypeInv, Coordinator \/ SignalThread \/ Send
    PROVE  Apart
  <1>. USE DEF TypeInv, ThreadsOK, Apart, Busy, main, jobs, queue, threads, process, output
  <1>1. CASE UNCHANGED wpc /\ UNCHANGED wjob BY <1>1
  <1>2. CASE wpc' = Woken(wpc) /\ UNCHANGED wjob BY <1>2, WokenKeeps
  <1>3. CASE StartPool
    BY <1>3 DEF StartPool, CountInv, Running, Lending
  <1>4. CASE StartPoolFails
    BY <1>4 DEF StartPoolFails, CountInv, Running, Lending
  <1>5. CASE Unstart \/ Finished
    BY <1>5 DEF Unstart, Finished, CountInv, Running, Lending
  <1>6. (wpc' \in {wpc, Woken(wpc)} /\ UNCHANGED wjob) \/ StartPool \/ StartPoolFails \/ Unstart \/ Finished
    <2>1. CASE Starting BY <2>1 DEF Starting, NoPool, Begin, BeginFails
    <2>2. CASE Parallel
      BY <2>2 DEF Parallel, Outer, AdmitEnds, Admit, Submit, Await, CloseAll, Emit, EmitFails, EmitEnds,
           Flush, FlushFails, Diagnose, Observed
    <2>3. CASE Singleton BY <2>3 DEF Singleton, Single, SingleEmit, SingleEnds
    <2>4. CASE Ending BY <2>4 DEF Ending, Done, Finish, Join, Exit
    <2>5. CASE SignalThread \/ Send BY <2>5 DEF SignalThread, Poll, Sleep, Send, Observed
    <2>. QED BY <2>1, <2>2, <2>3, <2>4, <2>5 DEF Coordinator
  <1>. QED BY <1>1, <1>2, <1>3, <1>4, <1>5, <1>6

LEMMA ApartRunning ==
    ASSUME Apart
    PROVE  Running' = Running
  <1>1. \A w \in Workers : Busy(w)' <=> Busy(w) BY DEF Apart, Busy
  <1>. QED BY <1>1 DEF Running

LEMMA StartingType ==
    ASSUME TypeInv, Starting
    PROVE  TypeInv'
  <1>. USE DEF TypeInv, main, jobs, queue, threads, process, output
  <1>1. BooleanOK' BY StartingBoolean
  <1>2. Apart /\ Running' = Running BY CoordinatorApart, ApartRunning DEF Coordinator
  <1>3. CoordinatorOK' /\ ThreadsOK' /\ OutputOK' /\ CountInv'
    <2>. USE <1>2 DEF CoordinatorOK, ThreadsOK, OutputOK, CountInv, Apart, Labels, Lending, Before, Alone
    <2>1. CASE NoPool BY <2>1 DEF NoPool
    <2>2. CASE StartPool BY <2>2 DEF StartPool
    <2>3. CASE StartPoolFails BY <2>3 DEF StartPoolFails
    <2>4. CASE Unstart BY <2>4 DEF Unstart
    <2>5. CASE Begin BY <2>5 DEF Begin
    <2>6. CASE BeginFails BY <2>6 DEF BeginFails
    <2>. QED BY <2>1, <2>2, <2>3, <2>4, <2>5, <2>6 DEF Starting
  <1>. QED BY <1>1, <1>3

LEMMA ParallelType ==
    ASSUME TypeInv, Parallel
    PROVE  TypeInv'
  <1>. USE DEF TypeInv, main, jobs, queue, threads, process, output
  <1>1. BooleanOK' BY ParallelBoolean
  <1>2. Apart /\ Running' = Running BY CoordinatorApart, ApartRunning DEF Coordinator
  <1>3. CoordinatorOK' /\ ThreadsOK' /\ OutputOK' /\ CountInv'
    <2>. USE <1>2 DEF CoordinatorOK, ThreadsOK, OutputOK, CountInv, Apart, Labels, Lending, Before, Alone
    <2>1. CASE Outer
      <3>1. PICK l \in {"done", "admit"} : cpc' = l BY <2>1 DEF Outer
      <3>. QED BY <2>1, <3>1 DEF Outer
    <2>2. CASE AdmitEnds BY <2>2 DEF AdmitEnds
    <2>3. ASSUME NEW r \in {"ready", "error", "fatal", "alias"}, Admit(r)
          PROVE  CoordinatorOK' /\ ThreadsOK' /\ OutputOK' /\ CountInv'
      <3>1. PICK l \in {"submit", "admit"} : cpc' = l BY <2>3 DEF Admit
      <3>2. count' = count + 1 /\ count < Window /\ start + count < N BY <2>3 DEF Admit, Room
      <3>3. OutputOK' BY <2>3, ZenonT(60) DEF Admit, Results, Fatal, Refused, Items
      <3>. QED BY <2>3, <3>1, <3>2, <3>3 DEF Admit
    <2>4. CASE Submit
      <3>1. CASE count = 0 BY <2>4, <3>1 DEF Submit
      <3>2. CASE count # 0
        <4>1. cpc' = "await" /\ next' = 0 /\ limit' = count /\ remaining' = count BY <2>4, <3>2 DEF Submit
        <4>2. IsFiniteSet({}) /\ Cardinality({}) = 0 BY FS_EmptySet
        <4>3. Running' = {} BY <2>4 DEF Submit
        <4>. QED BY <2>4, <4>1, <4>2, <4>3 DEF Submit
      <3>. QED BY <3>1, <3>2
    <2>5. CASE Await
      <3>1. CASE remaining # 0
        <4>1. cpc' = "await_wait" BY <2>5, <3>1 DEF Await, AllSettled
        <4>. QED BY <2>5, <4>1 DEF Await
      <3>2. CASE remaining = 0
        <4>1. cpc' = "close" BY <2>5, <3>2 DEF Await, AllSettled
        <4>2. IsFiniteSet(Running) /\ Cardinality(Running) \in Nat
          BY <2>5, FS_CardinalityType DEF Await
        <4>3. next = limit /\ Cardinality(Running) = 0 BY <2>5, <3>2, <4>2 DEF Await
        <4>4. Running = {} BY <4>2, <4>3, FS_EmptySet
        <4>. QED BY <2>5, <3>2, <4>1, <4>3, <4>4 DEF Await
      <3>. QED BY <3>1, <3>2
    <2>6. CASE CloseAll
      <3>1. OutputOK' BY <2>6 DEF CloseAll, Results, Fatal, Refused, Durable, Kept
      <3>. QED BY <2>6, <3>1 DEF CloseAll
    <2>7. CASE Emit BY <2>7 DEF Emit, Named, Items
    <2>8. CASE EmitFails BY <2>8 DEF EmitFails, Named, Items
    <2>9. CASE EmitEnds BY <2>9 DEF EmitEnds
    <2>10. CASE Flush BY <2>10 DEF Flush
    <2>11. CASE FlushFails BY <2>11 DEF FlushFails
    <2>12. CASE Diagnose
      <3>1. CASE cpc' = "finish" /\ UNCHANGED <<start, count, emit>>
        BY <2>12, <3>1 DEF Diagnose, Outcomes
      <3>2. CASE cpc' = "outer" /\ start' = start + count /\ count' = 0 /\ emit' = 0
        <4>1. start + count \in 0..N OBVIOUS
        <4>. QED BY <2>12, <3>2, <4>1 DEF Diagnose, Outcomes
      <3>. QED BY <2>12, <3>1, <3>2 DEF Diagnose
    <2>. HIDE DEF CoordinatorOK, ThreadsOK, OutputOK, CountInv
    <2>. QED BY <2>1, <2>2, <2>3, <2>4, <2>5, <2>6, <2>7, <2>8, <2>9, <2>10, <2>11, <2>12 DEF Parallel
  <1>. QED BY <1>1, <1>3

LEMMA OtherType ==
    ASSUME TypeInv, Singleton \/ Ending \/ SignalThread \/ Send
    PROVE  TypeInv'
  <1>. USE DEF TypeInv, main, jobs, queue, threads, process, output
  <1>1. BooleanOK' BY OtherBoolean
  <1>2. Apart /\ Running' = Running BY CoordinatorApart, ApartRunning DEF Coordinator
  <1>3. CoordinatorOK' /\ ThreadsOK' /\ OutputOK' /\ CountInv'
    <2>. USE <1>2 DEF CoordinatorOK, ThreadsOK, OutputOK, CountInv, Apart, Labels, Lending, Before, Alone
    <2>1. ASSUME NEW r \in Fatal \cup Refused \cup {"moved", "noop"}, Single(r)
          PROVE  CoordinatorOK' /\ ThreadsOK' /\ OutputOK' /\ CountInv'
      BY <2>1 DEF Single, Results, Durable
    <2>2. CASE SingleEmit
      <3>1. start + 1 \in 0..N /\ start + 1 \in Items BY <2>2 DEF SingleEmit, Items
      <3>2. PICK l \in {"done", "single"} : cpc' = l BY <2>2 DEF SingleEmit
      <3>3. rc' \in {0, 3} BY <2>2 DEF SingleEmit
      <3>4. OutputOK' BY <2>2, <3>1 DEF SingleEmit, Named
      <3>. QED BY <2>2, <3>1, <3>2, <3>3, <3>4 DEF SingleEmit
    <2>3. CASE SingleEnds BY <2>3 DEF SingleEnds
    <2>4. CASE Done
      <3>1. PICK l \in {"finish", "exit"} : cpc' = l BY <2>4 DEF Done
      <3>. QED BY <2>4, <3>1 DEF Done
    <2>5. CASE Finish BY <2>5 DEF Finish
    <2>6. CASE Join BY <2>6 DEF Join
    <2>7. CASE Finished BY <2>7 DEF Finished
    <2>8. CASE Exit BY <2>8 DEF Exit
    <2>9. CASE Poll BY <2>9, ZenonT(60) DEF Poll
    <2>10. CASE Sleep BY <2>10 DEF Sleep
    <2>11. CASE Send BY <2>11 DEF Send
    <2>. HIDE DEF CoordinatorOK, ThreadsOK, OutputOK, CountInv
    <2>. QED BY <2>1, <2>2, <2>3, <2>4, <2>5, <2>6, <2>7, <2>8, <2>9, <2>10, <2>11
             DEF Singleton, Ending, SignalThread
  <1>. QED BY <1>1, <1>3

\* A worker that rings the bell for others changes nothing of what they run.
Besides(w) ==
    /\ wpc' \in [Workers -> {"absent", "idle", "waiting", "entry", "moving", "settle", "gone"}]
    /\ \A v \in Workers \ {w} : Busy(v) \/ Busy(v)' => wpc'[v] = wpc[v]
    /\ \A v \in Workers \ {w} : wjob'[v] = wjob[v]

LEMMA WorkerBesides ==
    ASSUME TypeInv, NEW w \in Workers, Worker(w)
    PROVE  Besides(w)
  <1>. USE DEF TypeInv, ThreadsOK, Besides, Busy
  <1>1. ASSUME NEW f \in {wpc, Woken(wpc)}, NEW l \in {"idle", "waiting", "entry", "moving", "settle", "gone"},
               wpc' = [f EXCEPT ![w] = l], \A v \in Workers \ {w} : wjob'[v] = wjob[v]
        PROVE  Besides(w)
    BY <1>1, WokenKeeps
  <1>2. CASE Take(w) BY <1>1, <1>2 DEF Take
  <1>3. CASE Skip(w)
    <2>1. PICK f \in {wpc, Woken(wpc)} : wpc' = [f EXCEPT ![w] = "settle"] BY <1>3 DEF Skip
    <2>. QED BY <1>1, <1>3, <2>1 DEF Skip
  <1>4. CASE Enter(w)
    <2>1. PICK f \in {wpc, Woken(wpc)} : f = Observed(FALSE) BY DEF Observed
    <2>2. PICK l \in {"settle", "moving"} : wpc' = [f EXCEPT ![w] = l] BY <1>4, <2>1 DEF Enter
    <2>. QED BY <1>1, <1>4, <2>1, <2>2 DEF Enter
  <1>5. ASSUME NEW r, Move(w, r) PROVE Besides(w)
    <2>1. PICK f \in {wpc, Woken(wpc)} : wpc' = [f EXCEPT ![w] = "settle"] BY <1>5 DEF Move
    <2>. QED BY <1>1, <1>5, <2>1 DEF Move
  <1>6. CASE Interrupt(w)
    <2>1. PICK f \in {wpc, Woken(wpc)} : f = Observed(FALSE) BY DEF Observed
    <2>. QED BY <1>1, <1>6, <2>1 DEF Interrupt
  <1>7. CASE Settle(w) BY <1>1, <1>7 DEF Settle
  <1>. HIDE DEF TypeInv, ThreadsOK, Besides
  <1>. QED BY <1>2, <1>3, <1>4, <1>5, <1>6, <1>7 DEF Worker

LEMMA BesidesRunning ==
    ASSUME NEW w \in Workers, Besides(w)
    PROVE  /\ Busy(w) /\ Busy(w)' => Running' = Running
           /\ ~Busy(w) /\ Busy(w)' => Running' = Running \cup {w} /\ w \notin Running
           /\ Busy(w) /\ ~Busy(w)' => Running' = Running \ {w} /\ w \in Running
           /\ ~Busy(w) /\ ~Busy(w)' => Running' = Running
  <1>1. \A v \in Workers \ {w} : Busy(v)' <=> Busy(v) BY DEF Besides, Busy
  <1>. QED BY <1>1 DEF Running

\* What a step of worker w may do: sleep or quit, take a job, run it, and settle it.
LEMMA WorkerKinds ==
    ASSUME TypeInv, NEW w \in Workers, Worker(w)
    PROVE  \/ /\ ~Busy(w) /\ ~Busy(w)'
              /\ UNCHANGED <<cpc, next, remaining, wjob, res>>
           \/ /\ wpc[w] = "idle" /\ wpc'[w] = "entry"
              /\ next < limit /\ next' = next + 1
              /\ wjob' = [wjob EXCEPT ![w] = start + next + 1]
              /\ UNCHANGED <<cpc, remaining, res>>
           \/ /\ Busy(w) /\ Busy(w)'
              /\ UNCHANGED <<cpc, next, remaining, wjob>>
              /\ \E r \in Results : res' \in {res, [res EXCEPT ![wjob[w]] = r]}
           \/ /\ wpc[w] = "settle" /\ wpc'[w] = "idle"
              /\ remaining' = remaining - 1
              /\ cpc' \in {cpc, "await"} /\ (cpc' # cpc => cpc = "await_wait")
              /\ UNCHANGED <<next, res>>
              /\ wjob' = [wjob EXCEPT ![w] = 0]
  <1>. USE DEF TypeInv, ThreadsOK, Busy, main, jobs, queue
  <1>0. \A l : [wpc EXCEPT ![w] = l][w] = l /\ [Woken(wpc) EXCEPT ![w] = l][w] = l
    BY WokenKeeps
  <1>1. CASE Take(w) BY <1>0, <1>1 DEF Take
  <1>2. CASE Skip(w)
    <2>1. wpc'[w] = "settle" BY <1>0, <1>2 DEF Skip
    <2>2. "none" \in Results BY DEF Results
    <2>. QED BY <1>2, <2>1, <2>2 DEF Skip
  <1>3. CASE Enter(w)
    <2>1. wpc'[w] \in {"settle", "moving"} BY <1>0, <1>3 DEF Enter, Observed
    <2>2. "stopped" \in Results BY DEF Results, Refused
    <2>. QED BY <1>3, <2>1, <2>2 DEF Enter
  <1>4. ASSUME NEW r \in Fatal \cup {"moved", "noop", "error", "retained"}, Move(w, r)
        PROVE  /\ Busy(w) /\ Busy(w)'
               /\ UNCHANGED <<cpc, next, remaining, wjob>>
               /\ \E q \in Results : res' \in {res, [res EXCEPT ![wjob[w]] = q]}
    <2>1. wpc'[w] = "settle" BY <1>0, <1>4 DEF Move
    <2>2. r \in Results BY DEF Results, Durable, Kept, Refused, Fatal
    <2>. QED BY <1>4, <2>1, <2>2 DEF Move
  <1>5. CASE Interrupt(w)
    <2>1. wpc'[w] = "settle" BY <1>0, <1>5 DEF Interrupt, Observed
    <2>2. "stopped" \in Results /\ "retained" \in Results BY DEF Results, Refused
    <2>. QED BY <1>5, <2>1, <2>2 DEF Interrupt
  <1>6. CASE Settle(w)
    BY <1>6 DEF Settle, SignalSettled
  <1>. HIDE DEF TypeInv, ThreadsOK, Busy
  <1>. QED BY <1>1, <1>2, <1>3, <1>4, <1>5, <1>6 DEF Worker

LEMMA WorkerType ==
    ASSUME TypeInv, NEW w \in Workers, Worker(w)
    PROVE  TypeInv'
  <1>1. BooleanOK' BY WorkerBoolean DEF TypeInv
  <1>2. Besides(w) BY WorkerBesides
  <1>3. UNCHANGED <<start, count, emit, rc, exit, fd, limit, spc, sent, rows, flushed, named>>
    BY DEF Worker, Take, Skip, Enter, Move, Interrupt, Settle, main, jobs, queue, process, output
  <1>. USE DEF TypeInv, CoordinatorOK, ThreadsOK, OutputOK, CountInv, Lending, Before, Alone
  <1>4. ~Busy(w) => w \notin Running BY DEF Running
  <1>5. CASE ~Busy(w) /\ ~Busy(w)' /\ UNCHANGED <<cpc, next, remaining, wjob, res>>
    <2>1. Running' = Running BY <1>2, <1>5, BesidesRunning
    <2>. QED BY <1>1, <1>2, <1>3, <1>5, <2>1 DEF Besides
  <1>6. CASE /\ wpc[w] = "idle" /\ wpc'[w] = "entry"
             /\ next < limit /\ next' = next + 1
             /\ wjob' = [wjob EXCEPT ![w] = start + next + 1]
             /\ UNCHANGED <<cpc, remaining, res>>
    <2>1. Running' = Running \cup {w} /\ w \notin Running BY <1>2, <1>6, BesidesRunning DEF Busy
    <2>2. cpc \in Lending BY <1>6
    <2>3. IsFiniteSet(Running') /\ Cardinality(Running') = Cardinality(Running) + 1
      BY <2>1, <2>2, FS_AddElement
    <2>4. Cardinality(Running) \in Nat BY <2>2, FS_CardinalityType
    <2>5. start + next + 1 \in 0..N BY <1>6, <2>2
    <2>. QED BY <1>1, <1>2, <1>3, <1>6, <2>2, <2>3, <2>4, <2>5 DEF Besides
  <1>7. CASE /\ Busy(w) /\ Busy(w)'
             /\ UNCHANGED <<cpc, next, remaining, wjob>>
             /\ \E r \in Results : res' \in {res, [res EXCEPT ![wjob[w]] = r]}
    <2>1. Running' = Running BY <1>2, <1>7, BesidesRunning
    <2>2. res' \in [Items -> Results] BY <1>7
    <2>. QED BY <1>1, <1>2, <1>3, <1>7, <2>1, <2>2 DEF Besides
  <1>8. CASE /\ wpc[w] = "settle" /\ wpc'[w] = "idle"
             /\ remaining' = remaining - 1
             /\ cpc' \in {cpc, "await"} /\ (cpc' # cpc => cpc = "await_wait")
             /\ UNCHANGED <<next, res>>
             /\ wjob' = [wjob EXCEPT ![w] = 0]
    <2>1. Running' = Running \ {w} /\ w \in Running BY <1>2, <1>8, BesidesRunning DEF Busy
    <2>2. cpc \in Lending /\ cpc' \in Lending BY <1>8, <2>1
    <2>3. IsFiniteSet(Running') /\ Cardinality(Running') = Cardinality(Running) - 1
      BY <2>1, <2>2, FS_RemoveElement
    <2>4. Cardinality(Running) \in Nat /\ Cardinality(Running') \in Nat BY <2>2, <2>3, FS_CardinalityType
    <2>5. remaining - 1 \in 0..limit BY <1>8, <2>2, <2>3, <2>4
    <2>6. cpc' \in Labels BY <1>8 DEF Labels
    <2>. QED BY <1>1, <1>2, <1>3, <1>8, <2>2, <2>3, <2>4, <2>5, <2>6, SMTT(40) DEF Besides
  <1>. HIDE DEF TypeInv
  <1>. QED BY <1>5, <1>6, <1>7, <1>8, WorkerKinds

LEMMA NextType == TypeInv /\ [Next]_vars => TypeInv'
  <1>. SUFFICES ASSUME TypeInv, [Next]_vars PROVE TypeInv'
    OBVIOUS
  <1>1. CASE UNCHANGED vars
    <2>1. Running' = Running BY <1>1 DEF vars, threads, Running, Busy
    <2>. QED BY <1>1, <2>1 DEF vars, main, jobs, queue, threads, process, output, TypeInv, BooleanOK,
              CoordinatorOK, ThreadsOK, OutputOK, CountInv
  <1>. QED BY <1>1, StartingType, ParallelType, OtherType, WorkerType DEF Next, Coordinator, Terminated

\* Whatever stops the batch, no index of the window arrays of parallel and jf_pool_window runs
\* past their end, and the count of unsettled jobs neither wraps nor misses one.
THEOREM TypeCorrect == Spec => []TypeOK
  BY TypeParts, InitType, NextType, PTL DEF Spec

-----------------------------------------------------------------------------
\* A job that was taken is one worker's until its outcome is known, and a message that is
\* still to be moved is in the window with its descriptor open.
JobInv ==
    /\ \A w \in Workers : Busy(w) => wjob[w] \in start + 1 .. start + next
    /\ \A w, v \in Workers : Busy(w) /\ Busy(v) /\ wjob[w] = wjob[v] => w = v
    /\ \A w \in Workers : wpc[w] = "moving" => res[wjob[w]] = "ready"
    /\ \A w \in Workers : wpc[w] = "settle" => res[wjob[w]] # "ready"
    /\ cpc \in Lending => \A j \in start + 1 .. start + next : res[j] = "ready" =>
         \E w \in Workers : wpc[w] \in {"entry", "moving"} /\ wjob[w] = j

ReadyInv ==
    \A j \in Items : InWindow(j) /\ res[j] = "ready" =>
        fd[j] = "open" /\ cpc \in Lending \cup {"admit", "submit"}

LEMMA InitJob == Init => JobInv /\ ReadyInv
  BY DEF Init, JobInv, ReadyInv, Busy, Lending, Items

LEMMA ApartJob ==
    ASSUME TypeInv, JobInv, ReadyInv, Apart, UNCHANGED <<start, count, next, res, fd, cpc>>
    PROVE  JobInv' /\ ReadyInv'
  BY DEF Apart, JobInv, ReadyInv, Busy, InWindow, TypeInv, ThreadsOK

\* While no job is lent the workers have none.
LEMMA UnlentJob ==
    ASSUME TypeInv', cpc' \notin Lending
    PROVE  JobInv'
  BY DEF TypeInv, CountInv, JobInv, Running, Busy

LEMMA EmptyWindow ==
    ASSUME start' \in Nat, count' = 0
    PROVE  \A j \in Items : ~InWindow(j)'
  <1>1. \A j \in Items, k, c \in Nat : c = 0 => j \notin k + 1 .. k + c BY DEF Items
  <1>2. count' \in Nat OBVIOUS
  <1>. QED BY <1>1, <1>2 DEF InWindow

LEMMA CoordinatorJob ==
    ASSUME TypeInv, TypeInv', JobInv, ReadyInv, Coordinator
    PROVE  JobInv' /\ ReadyInv'
  <1>. USE DEF main, jobs, queue, threads, process, output
  <1>1. Apart BY CoordinatorApart
  <1>2. CASE Starting
    <2>1. cpc' \notin Lending /\ count = 0 /\ UNCHANGED <<start, count, res, fd>>
      BY <1>2 DEF Starting, NoPool, StartPool, StartPoolFails, Unstart, Begin, BeginFails, Lending,
           TypeInv, CountInv, Before
    <2>. QED BY <2>1, UnlentJob DEF ReadyInv, InWindow, TypeInv, CoordinatorOK, Items
  <1>3. CASE Singleton
    <2>1. /\ cpc' \notin Lending /\ count = 0 /\ UNCHANGED count
          /\ start' \in Nat
      BY <1>3 DEF Singleton, Single, SingleEmit, SingleEnds, Lending, TypeInv, CountInv, CoordinatorOK, Alone
    <2>2. \A j \in Items : ~InWindow(j)' BY <2>1, EmptyWindow
    <2>. QED BY <2>1, <2>2, UnlentJob DEF ReadyInv
  <1>4. CASE Ending
    <2>1. /\ cpc \notin Lending \cup {"admit", "submit"} /\ cpc' \notin Lending
          /\ UNCHANGED <<start, count, res>>
      BY <1>4 DEF Ending, Done, Finish, Join, Finished, Exit, Lending
    <2>. QED BY <2>1, UnlentJob DEF ReadyInv, InWindow
  <1>5. CASE Outer \/ AdmitEnds
    <2>1. /\ cpc' \notin Lending
          /\ cpc = "admit" => cpc' = "submit"
          /\ cpc \in {"outer", "admit"}
          /\ UNCHANGED <<start, count, res, fd>>
      BY <1>5 DEF Outer, AdmitEnds, Lending
    <2>. QED BY <2>1, UnlentJob DEF ReadyInv, InWindow, Lending
  <1>6. ASSUME NEW r \in {"ready", "error", "fatal", "alias"}, Admit(r) PROVE JobInv' /\ ReadyInv'
    <2>1. /\ cpc' \in {"admit", "submit"} /\ cpc = "admit"
          /\ UNCHANGED start /\ count' = count + 1
          /\ res' = [res EXCEPT ![start + count + 1] = r]
          /\ r = "ready" => fd' = [fd EXCEPT ![start + count + 1] = "open"]
          /\ r # "ready" => \E f \in {"open", "closed"} : fd' = [fd EXCEPT ![start + count + 1] = f]
      BY <1>6 DEF Admit
    <2>2. ReadyInv'
      <3>. SUFFICES ASSUME NEW j \in Items, InWindow(j)', res'[j] = "ready"
                    PROVE  fd'[j] = "open"
        BY <2>1 DEF ReadyInv
      <3>1. CASE j = start + count + 1
        BY <2>1, <3>1 DEF TypeInv, OutputOK, Items
      <3>2. CASE j # start + count + 1
        <4>1. InWindow(j) /\ res[j] = "ready" /\ fd'[j] = fd[j]
          BY <2>1, <3>2, SMTT(40) DEF InWindow, Items, TypeInv, OutputOK, CoordinatorOK
        <4>. QED BY <4>1 DEF ReadyInv
      <3>. QED BY <3>1, <3>2
    <2>. QED BY <2>1, <2>2, UnlentJob DEF Lending
  <1>7. CASE Submit
    <2>1. CASE count = 0
      <3>1. cpc' = "close" /\ UNCHANGED <<start, count, res, fd>> BY <1>7, <2>1 DEF Submit
      <3>. QED BY <2>1, <3>1, UnlentJob DEF ReadyInv, InWindow, Lending, TypeInv, CoordinatorOK, Items
    <2>2. CASE count # 0
      <3>1. cpc = "submit" /\ cpc' = "await" /\ next' = 0 /\ UNCHANGED <<start, count, res, fd>>
        BY <1>7, <2>2 DEF Submit
      <3>2. ReadyInv' BY <3>1 DEF ReadyInv, InWindow, Lending
      <3>3. Running' = {} BY <1>1, <3>1, ApartRunning DEF TypeInv, CountInv, Lending
      <3>4. JobInv' BY <3>1, <3>3 DEF JobInv, Running, Busy, TypeInv, CoordinatorOK
      <3>. QED BY <3>2, <3>4
    <2>. QED BY <2>1, <2>2
  <1>8. CASE Await
    <2>1. CASE cpc' = "await_wait"
      <3>1. cpc = "await" /\ UNCHANGED <<start, count, next, res, fd>> BY <1>8 DEF Await
      <3>2. ReadyInv' BY <2>1, <3>1 DEF ReadyInv, InWindow, Lending
      <3>3. JobInv' BY <1>8, <2>1, <3>1 DEF JobInv, Lending, Await, Busy
      <3>. QED BY <3>2, <3>3
    <2>2. CASE cpc' # "await_wait"
      <3>1. /\ cpc = "await" /\ cpc' = "close"
            /\ UNCHANGED <<start, count, next, limit, res, fd, wpc, wjob>>
        BY <1>8, <2>2 DEF Await
      <3>2. next = count /\ \A w \in Workers : ~Busy(w)
        BY <3>1 DEF TypeInv, CountInv, Lending, Running, Busy
      <3>3. \A j \in Items : InWindow(j) => res[j] # "ready"
        BY <3>1, <3>2 DEF JobInv, InWindow, Busy, Lending
      <3>. QED BY <3>1, <3>3, UnlentJob DEF ReadyInv, InWindow, Lending
    <2>. QED BY <2>1, <2>2
  <1>9. CASE CloseAll
    <2>1. cpc = "close" /\ cpc' = "emit" /\ UNCHANGED <<start, count>> BY <1>9 DEF CloseAll
    <2>2. \A j \in Items : res[j] # "ready" => res'[j] # "ready" BY <1>9 DEF CloseAll
    <2>. QED BY <2>1, <2>2, UnlentJob DEF ReadyInv, InWindow, Lending
  <1>10. CASE Emit \/ EmitFails \/ EmitEnds \/ Flush \/ FlushFails
    <2>1. /\ cpc \in {"emit", "flush"} /\ cpc' \in {"emit", "flush", "diagnose"}
          /\ UNCHANGED <<start, count, res, fd>>
      BY <1>10 DEF Emit, EmitFails, EmitEnds, Flush, FlushFails
    <2>. QED BY <2>1, UnlentJob DEF ReadyInv, InWindow, Lending
  <1>11. CASE Diagnose
    <2>1. /\ cpc = "diagnose" /\ cpc' \in {"finish", "outer"} /\ UNCHANGED <<res, fd>>
          /\ \/ UNCHANGED <<start, count>>
             \/ start' = start + count /\ count' = 0
      BY <1>11 DEF Diagnose
    <2>2. \A j \in Items : InWindow(j)' => InWindow(j)
      <3>1. CASE UNCHANGED <<start, count>> BY <3>1 DEF InWindow
      <3>2. CASE start' \in Nat /\ count' = 0 BY <3>2, EmptyWindow
      <3>. QED BY <2>1, <3>1, <3>2 DEF TypeInv, CoordinatorOK
    <2>. QED BY <2>1, <2>2, UnlentJob DEF ReadyInv, Lending
  <1>. QED BY <1>2, <1>3, <1>4, <1>5, <1>6, <1>7, <1>8, <1>9, <1>10, <1>11 DEF Coordinator, Parallel

LEMMA WorkerJob ==
    ASSUME TypeInv, TypeInv', JobInv, ReadyInv, NEW w \in Workers, Worker(w)
    PROVE  JobInv' /\ ReadyInv'
  <1>1. Besides(w) BY WorkerBesides
  <1>2. UNCHANGED <<start, count, fd>>
    BY DEF Worker, Take, Skip, Enter, Move, Interrupt, Settle, main, jobs
  <1>3. ASSUME NEW v \in Workers \ {w} PROVE (Busy(v)' <=> Busy(v)) /\ (Busy(v) => wpc'[v] = wpc[v]) /\ wjob'[v] = wjob[v]
    BY <1>1 DEF Besides, Busy
  <1>4. Busy(w) => wjob[w] \in Items /\ cpc \in Lending
    BY DEF TypeInv, CoordinatorOK, ThreadsOK, CountInv, JobInv, Running, Items
  <1>5. CASE ~Busy(w) /\ ~Busy(w)' /\ UNCHANGED <<cpc, next, remaining, wjob, res>>
    <2>1. \A v \in Workers : (Busy(v)' <=> Busy(v)) /\ (Busy(v) => wpc'[v] = wpc[v])
      BY <1>3, <1>5
    <2>. QED BY <1>2, <1>5, <2>1 DEF JobInv, ReadyInv, InWindow, Busy
  <1>6. CASE /\ wpc[w] = "idle" /\ wpc'[w] = "entry"
             /\ next < limit /\ next' = next + 1
             /\ wjob' = [wjob EXCEPT ![w] = start + next + 1]
             /\ UNCHANGED <<cpc, remaining, res>>
    <2>1. wjob'[w] = start + next + 1 BY <1>6 DEF TypeInv, ThreadsOK
    <2>2. start \in Nat /\ next \in Nat BY DEF TypeInv, ThreadsOK, CoordinatorOK
    <2>3. \A v \in Workers : Busy(v)' => wjob'[v] \in start' + 1 .. start' + next'
      BY <1>2, <1>3, <1>6, <2>1, <2>2 DEF JobInv
    <2>4. \A v \in Workers \ {w} : Busy(v)' => wjob'[v] # wjob'[w]
      BY <1>3, <2>1, <2>2 DEF JobInv
    <2>5. \A v, u \in Workers : Busy(v)' /\ Busy(u)' /\ wjob'[v] = wjob'[u] => v = u
      BY <1>3, <2>4 DEF JobInv
    <2>6. \A v \in Workers : (wpc'[v] = "moving" => res'[wjob'[v]] = "ready") /\ (wpc'[v] = "settle" => res'[wjob'[v]] # "ready")
      BY <1>3, <1>6 DEF JobInv, Busy
    <2>7. ASSUME cpc' \in Lending, NEW j \in start' + 1 .. start' + next', res'[j] = "ready"
          PROVE  \E v \in Workers : wpc'[v] \in {"entry", "moving"} /\ wjob'[v] = j
      <3>1. CASE j = start + next + 1 BY <1>6, <2>1, <3>1
      <3>2. CASE j # start + next + 1
        <4>1. j \in start + 1 .. start + next BY <1>2, <1>6, <2>2, <2>7, <3>2
        <4>2. PICK v \in Workers : wpc[v] \in {"entry", "moving"} /\ wjob[v] = j
          BY <1>6, <2>7, <4>1 DEF JobInv
        <4>3. v # w BY <1>6, <4>2
        <4>. QED BY <1>3, <4>2, <4>3 DEF Busy
      <3>. QED BY <3>1, <3>2
    <2>8. ReadyInv' BY <1>2, <1>6 DEF ReadyInv, InWindow
    <2>. QED BY <2>3, <2>5, <2>6, <2>7, <2>8 DEF JobInv
  <1>7. CASE Skip(w) \/ Enter(w) \/ (\E r \in Fatal \cup {"moved", "noop", "error", "retained"} : Move(w, r)) \/ Interrupt(w)
    <2>0. \A l : [wpc EXCEPT ![w] = l][w] = l /\ [Woken(wpc) EXCEPT ![w] = l][w] = l
      BY WokenKeeps DEF TypeInv, ThreadsOK
    <2>1. /\ wpc[w] \in {"entry", "moving"} /\ wpc'[w] \in {"moving", "settle"}
          /\ UNCHANGED <<cpc, next, wjob>>
          /\ wpc'[w] = "moving" => UNCHANGED res /\ res[wjob[w]] = "ready"
      BY <1>7, <2>0 DEF Skip, Enter, Move, Interrupt, Observed, main, jobs, queue
    <2>2. /\ \A j \in Items \ {wjob[w]} : res'[j] = res[j]
          /\ wpc'[w] = "settle" => res'[wjob[w]] # "ready"
          /\ res'[wjob[w]] = "ready" => res[wjob[w]] = "ready"
      <3>1. CASE Skip(w) BY <3>1 DEF Skip, jobs
      <3>2. CASE Enter(w) BY <1>4, <2>0, <2>1, <3>2 DEF Enter, Observed, TypeInv, OutputOK, Busy
      <3>3. ASSUME NEW r \in Fatal \cup {"moved", "noop", "error", "retained"}, Move(w, r)
            PROVE  res'[wjob[w]] # "ready" /\ \A j \in Items \ {wjob[w]} : res'[j] = res[j]
        BY <1>4, <2>1, <3>3 DEF Move, TypeInv, OutputOK, Busy, Fatal
      <3>4. CASE Interrupt(w) BY <1>4, <2>1, <3>4 DEF Interrupt, TypeInv, OutputOK, Busy
      <3>. QED BY <1>7, <3>1, <3>2, <3>3, <3>4
    <2>3. Busy(w) /\ Busy(w)' BY <2>1 DEF Busy
    <2>4. \A v \in Workers : Busy(v)' <=> Busy(v) BY <1>3, <2>3
    <2>5. \A v \in Workers \ {w} : Busy(v) => wjob[v] \in Items \ {wjob[w]}
      BY <2>3 DEF JobInv, TypeInv, CoordinatorOK, ThreadsOK, CountInv, Running, Items
    <2>6. \A v \in Workers : (wpc'[v] = "moving" => res'[wjob'[v]] = "ready") /\ (wpc'[v] = "settle" => res'[wjob'[v]] # "ready")
      BY <1>3, <2>1, <2>2, <2>5 DEF JobInv, Busy
    <2>7. ASSUME cpc' \in Lending, NEW j \in start' + 1 .. start' + next', res'[j] = "ready"
          PROVE  \E v \in Workers : wpc'[v] \in {"entry", "moving"} /\ wjob'[v] = j
      <3>1. CASE j = wjob[w] BY <2>1, <2>2, <2>7, <3>1
      <3>2. CASE j # wjob[w]
        <4>0. j \in Items BY <1>2, <2>1, <2>7 DEF TypeInv, CoordinatorOK, ThreadsOK, CountInv, Items
        <4>1. res[j] = "ready" BY <2>2, <2>7, <3>2, <4>0
        <4>2. PICK v \in Workers : wpc[v] \in {"entry", "moving"} /\ wjob[v] = j
          BY <1>2, <2>1, <2>7, <4>1 DEF JobInv
        <4>3. v # w BY <3>2, <4>2
        <4>. QED BY <1>3, <4>2, <4>3 DEF Busy
      <3>. QED BY <3>1, <3>2
    <2>8. ReadyInv' BY <1>2, <2>1, <2>2 DEF ReadyInv, InWindow
    <2>9. \A v \in Workers : Busy(v)' => wjob'[v] \in start' + 1 .. start' + next'
      BY <1>2, <2>1, <2>4 DEF JobInv
    <2>10. \A v, u \in Workers : Busy(v)' /\ Busy(u)' /\ wjob'[v] = wjob'[u] => v = u
      BY <2>1, <2>4 DEF JobInv
    <2>. QED BY <2>6, <2>7, <2>8, <2>9, <2>10 DEF JobInv
  <1>8. CASE Settle(w)
    <2>1. /\ wpc[w] = "settle" /\ wpc' = [wpc EXCEPT ![w] = "idle"]
          /\ UNCHANGED <<next, res>> /\ cpc \in Lending /\ cpc' \in Lending
      BY <1>4, <1>8 DEF Settle, SignalSettled, Busy, jobs, Lending
    <2>2. wpc'[w] = "idle" /\ ~Busy(w)' BY <2>1 DEF TypeInv, ThreadsOK, Busy
    <2>3. ReadyInv' BY <1>2, <2>1 DEF ReadyInv, InWindow
    <2>4. \A v \in Workers : wpc'[v] \in {"entry", "moving", "settle"} =>
            v # w /\ Busy(v) /\ wpc'[v] = wpc[v] /\ wjob'[v] = wjob[v]
      BY <1>3, <2>2 DEF Busy
    <2>5. \A v \in Workers : wpc[v] \in {"entry", "moving"} => wpc'[v] = wpc[v] /\ wjob'[v] = wjob[v]
      BY <1>3, <2>1 DEF Busy
    <2>. QED BY <1>2, <2>1, <2>3, <2>4, <2>5 DEF JobInv, Busy
  <1>9. CASE Take(w)
    BY <1>5, <1>6, <1>9, WorkerKinds DEF Take, Busy, TypeInv, ThreadsOK, main, jobs
  <1>. QED BY <1>7, <1>8, <1>9 DEF Worker

LEMMA NextJob == TypeInv /\ TypeInv' /\ JobInv /\ ReadyInv /\ [Next]_vars => JobInv' /\ ReadyInv'
  <1>. SUFFICES ASSUME TypeInv, TypeInv', JobInv, ReadyInv, [Next]_vars PROVE JobInv' /\ ReadyInv'
    OBVIOUS
  <1>1. CASE UNCHANGED vars
    BY <1>1 DEF vars, main, jobs, queue, threads, JobInv, ReadyInv, Busy, InWindow
  <1>2. CASE SignalThread \/ Send
    <2>1. UNCHANGED <<start, count, next, res, fd, cpc>>
      BY <1>2 DEF SignalThread, Poll, Sleep, Send, main, jobs, queue
    <2>. QED BY <1>2, <2>1, CoordinatorApart, ApartJob
  <1>. QED BY <1>1, <1>2, CoordinatorJob, WorkerJob DEF Next, Terminated

\* No worker touches a decision that parallel has not lent to it through jf_pool_window, no
\* two workers have the same one, its descriptor is open while it moves, and jf_pool_window
\* returns only when every job of the window has an outcome.
THEOREM DecisionsLent == Spec => []LentOut
  <1>1. ASSUME TypeInv, JobInv, ReadyInv PROVE LentOut
    <2>1. ASSUME NEW w \in Workers, Busy(w)
          PROVE  /\ cpc \in Lending /\ InWindow(wjob[w]) /\ wjob[w] \in Items
                 /\ \A v \in Workers \ {w} : Busy(v) => wjob[v] # wjob[w]
      <3>1. cpc \in Lending BY <1>1, <2>1 DEF TypeInv, CountInv, Running
      <3>2. wjob[w] \in start + 1 .. start + next BY <1>1, <2>1 DEF JobInv
      <3>. QED BY <1>1, <2>1, <3>1, <3>2 DEF TypeInv, CountInv, JobInv, InWindow, CoordinatorOK, ThreadsOK, Items
    <2>2. ASSUME NEW w \in Workers, wpc[w] = "moving" PROVE fd[wjob[w]] = "open"
      BY <1>1, <2>1, <2>2 DEF JobInv, ReadyInv, Busy
    <2>3. cpc = "close" => \A j \in Items : InWindow(j) => res[j] # "ready"
      BY <1>1 DEF ReadyInv, Lending
    <2>. QED BY <2>1, <2>2, <2>3 DEF LentOut, Lending
  <1>. QED BY <1>1, InitType, InitJob, NextType, NextJob, PTL DEF Spec

-----------------------------------------------------------------------------
LockInv == cpc \in Windowed \cup Alone => lock

LEMMA NextLock == TypeInv /\ LockInv /\ [Next]_vars => LockInv'
  <1>. SUFFICES ASSUME TypeInv, LockInv, [Next]_vars PROVE LockInv'
    OBVIOUS
  <1>. USE DEF LockInv, Windowed, Alone, Lending, main, jobs, queue, threads, process, output
  <1>1. CASE Starting
    BY <1>1 DEF Starting, NoPool, StartPool, StartPoolFails, Unstart, Begin, BeginFails
  <1>2. CASE Parallel
    <2>1. CASE CloseAll BY <2>1 DEF CloseAll, Closable
    <2>2. CASE ~CloseAll
      BY <1>2, <2>2 DEF Parallel, Outer, AdmitEnds, Admit, Submit, Await, Emit, EmitFails, EmitEnds,
           Flush, FlushFails, Diagnose
    <2>. QED BY <2>1, <2>2
  <1>3. CASE Singleton
    <2>1. CASE SingleEmit
      BY <2>1 DEF SingleEmit
    <2>2. CASE ~SingleEmit
      BY <1>3, <2>2 DEF Singleton, Single, SingleEnds
    <2>. QED BY <2>1, <2>2
  <1>4. CASE Ending BY <1>4 DEF Ending, Done, Finish, Join, Finished, Exit
  <1>5. ASSUME NEW w \in Workers, Worker(w) PROVE LockInv'
    <2>1. UNCHANGED lock /\ (cpc' = cpc \/ (cpc' = "await" /\ cpc = "await_wait"))
      BY <1>5 DEF Worker, Take, Skip, Enter, Move, Interrupt, Settle, SignalSettled
    <2>. QED BY <2>1
  <1>6. CASE SignalThread \/ Send
    BY <1>6 DEF SignalThread, Poll, Sleep, Send
  <1>7. CASE UNCHANGED vars BY <1>7 DEF vars
  <1>. HIDE DEF LockInv
  <1>. QED BY <1>1, <1>2, <1>3, <1>4, <1>5, <1>6, <1>7 DEF Next, Coordinator, Terminated

\* The batch lock is held from the first message to the last row: no descriptor of the
\* lock's own inode that classification meets is closed in between.
THEOREM LockKept == Spec => []LockHeld
  <1>1. Init => LockInv BY DEF Init, LockInv, Windowed, Alone, Lending
  <1>2. TypeInv /\ LockInv => LockHeld
    BY DEF TypeInv, CountInv, Running, LockInv, LockHeld, Windowed, Alone, Lending
  <1>. QED BY <1>1, <1>2, InitType, NextType, NextLock, PTL DEF Spec

-----------------------------------------------------------------------------
(***************************************************************************)
(* Signals.  Where the pool's threads exist signals are blocked, and one   *)
(* that was raised is pending, was noted by the pool, or reached the       *)
(* handler; past the pool only the handler's flag counts.                  *)
(***************************************************************************)
SignalInv ==
    /\ cpc \in Windowed \cup Finishing => Pooled
    /\ cpc \in {"pool_start", "unstart", "exit", "ended"} \cup Alone => ~Pooled
    /\ Pooled \/ cpc = "unstart" => masked
    /\ masked => Pooled \/ cpc = "unstart"
    /\ pending => masked
    /\ piped => Pooled
    /\ psignal => Pooled \/ interrupted
    /\ raised => interrupted \/ psignal \/ pending \/ piped \/ exit = "signalled"
    /\ cpc # "ended" => exit = "running"
    /\ exit = "running" \/ exit = "signalled" \/ ~raised
    /\ cpc \in Windowed /\ interrupted => stop

LEMMA InitSignal == Init => SignalInv
  BY DEF Init, SignalInv, Pooled, Windowed, Finishing, Lending, Alone

LEMMA CoordinatorSignal ==
    ASSUME TypeInv, SignalInv, Coordinator
    PROVE  SignalInv'
  <1>. USE DEF SignalInv, Pooled, Windowed, Finishing, Lending, Alone, main, jobs, queue, threads, process, output
  <1>1. CASE NoPool BY <1>1 DEF NoPool
  <1>2. CASE StartPool BY <1>2 DEF StartPool
  <1>3. CASE StartPoolFails BY <1>3 DEF StartPoolFails
  <1>4. CASE Unstart BY <1>4 DEF Unstart, Unmask
  <1>5. CASE Begin BY <1>5 DEF Begin, Bind
  <1>6. CASE BeginFails
    <2>1. /\ cpc = "lock" /\ cpc' = "done"
          /\ UNCHANGED <<spc, masked, pending, psignal, exit>>
      BY <1>6 DEF BeginFails
    <2>2. CASE UNCHANGED <<piped, raised, interrupted>> BY <2>1, <2>2
    <2>3. ASSUME NEW sig \in BOOLEAN, WriteFails(sig) PROVE SignalInv'
      BY <2>1, <2>3 DEF WriteFails
    <2>. QED BY <1>6, <2>2, <2>3 DEF BeginFails
  <1>7. CASE Outer BY <1>7 DEF Outer, Observe
  <1>8. CASE AdmitEnds BY <1>8 DEF AdmitEnds, Observe
  <1>9. ASSUME NEW r \in {"ready", "error", "fatal", "alias"}, Admit(r) PROVE SignalInv'
    <2>1. /\ cpc = "admit" /\ cpc' \in {"admit", "submit"} /\ ~stop
          /\ UNCHANGED <<spc, process, psignal, exit, interrupted>>
      BY <1>9 DEF Admit
    <2>. QED BY <2>1
  <1>10. CASE Submit BY <1>10 DEF Submit
  <1>11. CASE Await BY <1>11 DEF Await
  <1>12. CASE CloseAll BY <1>12 DEF CloseAll
  <1>13. CASE Emit BY <1>13 DEF Emit
  <1>14. CASE EmitFails BY <1>14 DEF EmitFails, Sigpipe
  <1>15. CASE EmitEnds BY <1>15 DEF EmitEnds
  <1>16. CASE Flush BY <1>16 DEF Flush
  <1>17. CASE FlushFails BY <1>17 DEF FlushFails, Sigpipe
  <1>18. CASE Diagnose BY <1>18 DEF Diagnose, Observe
  <1>19. ASSUME NEW r, Single(r) PROVE SignalInv' BY <1>19 DEF Single
  <1>20. CASE SingleEmit
    <2>1. /\ cpc = "single_emit" /\ cpc' \in {"done", "single"}
          /\ UNCHANGED <<spc, masked, pending, psignal, exit>>
      BY <1>20 DEF SingleEmit
    <2>2. CASE UNCHANGED <<piped, raised, interrupted>> BY <2>1, <2>2
    <2>3. ASSUME NEW sig \in BOOLEAN, WriteFails(sig) PROVE SignalInv'
      BY <2>1, <2>3 DEF WriteFails
    <2>. QED BY <1>20, <2>2, <2>3 DEF SingleEmit
  <1>21. CASE SingleEnds
    <2>1. /\ cpc = "single" /\ cpc' = "done"
          /\ UNCHANGED <<spc, masked, pending, psignal, exit>>
      BY <1>21 DEF SingleEnds
    <2>2. CASE UNCHANGED <<piped, raised, interrupted>> BY <2>1, <2>2
    <2>3. ASSUME NEW sig \in BOOLEAN, WriteFails(sig) PROVE SignalInv'
      BY <2>1, <2>3 DEF WriteFails
    <2>. QED BY <1>21, <2>2, <2>3 DEF SingleEnds
  <1>22. CASE Done BY <1>22 DEF Done
  <1>23. CASE Finish BY <1>23 DEF Finish
  <1>24. CASE Join BY <1>24 DEF Join, Observe
  <1>25. CASE Finished BY <1>25 DEF Finished, Unmask
  <1>26. CASE Exit BY <1>26 DEF Exit
  <1>. HIDE DEF SignalInv
  <1>27. CASE Starting BY <1>27, <1>1, <1>2, <1>3, <1>4, <1>5, <1>6 DEF Starting
  <1>28. CASE Parallel
    BY <1>28, <1>7, <1>8, <1>9, <1>10, <1>11, <1>12, <1>13, <1>14, <1>15, <1>16, <1>17, <1>18 DEF Parallel
  <1>. QED BY <1>19, <1>20, <1>21, <1>22, <1>23, <1>24, <1>25, <1>26, <1>27, <1>28
           DEF Coordinator, Singleton, Ending

LEMMA NextSignal == TypeInv /\ SignalInv /\ [Next]_vars => SignalInv'
  <1>. SUFFICES ASSUME TypeInv, SignalInv, [Next]_vars PROVE SignalInv'
    OBVIOUS
  <1>1. ASSUME NEW w \in Workers, Worker(w) PROVE SignalInv'
    <2>1. /\ UNCHANGED <<interrupted, exit, masked, raised, spc>>
          /\ \/ UNCHANGED <<pending, piped, psignal>> /\ (stop => stop')
             \/ Observe(FALSE) /\ cpc \in Lending
          /\ cpc' = cpc \/ (cpc' = "await" /\ cpc = "await_wait")
      <3>1. CASE Take(w) BY <3>1 DEF Take, main, process
      <3>2. CASE Skip(w) BY <3>2 DEF Skip, main, process
      <3>3. ASSUME wpc[w] \in {"entry", "moving"} PROVE cpc \in Lending
        BY <3>3 DEF TypeInv, CountInv, Running, Busy
      <3>4. CASE Enter(w) BY <3>3, <3>4 DEF Enter, main, process
      <3>5. ASSUME NEW r, Move(w, r) PROVE /\ UNCHANGED <<main, process, psignal, spc>> /\ (stop => stop')
        BY <3>5 DEF Move
      <3>6. CASE Interrupt(w) BY <3>3, <3>6 DEF Interrupt, main, process
      <3>7. CASE Settle(w) BY <3>7 DEF Settle, SignalSettled, process
      <3>. QED BY <1>1, <3>1, <3>2, <3>4, <3>5, <3>6, <3>7 DEF Worker, main, process
    <2>. USE DEF SignalInv, Pooled, Windowed, Finishing, Lending, Alone
    <2>2. CASE UNCHANGED <<pending, piped, psignal>> /\ (stop => stop')
      <3>1. CASE cpc' = cpc BY <2>1, <2>2, <3>1
      <3>2. CASE cpc' = "await" /\ cpc = "await_wait" BY <2>1, <2>2, <3>2
      <3>. QED BY <2>1, <3>1, <3>2
    <2>3. CASE Observe(FALSE) /\ cpc \in Lending
      <3>1. cpc' \in Lending BY <2>1, <2>3
      <3>. QED BY <2>1, <2>3, <3>1 DEF Observe
    <2>. QED BY <2>1, <2>2, <2>3
  <1>2. CASE Poll
    BY <1>2 DEF Poll, Observe, main, process, SignalInv, Pooled, Windowed, Finishing, Lending, Alone
  <1>3. CASE Sleep
    BY <1>3 DEF Sleep, main, process, SignalInv, Pooled, Windowed, Finishing, Lending, Alone
  <1>4. CASE Send
    BY <1>4 DEF Send, threads, SignalInv, Pooled, Windowed, Finishing, Lending, Alone
  <1>5. CASE UNCHANGED vars
    BY <1>5 DEF vars, main, process, threads, SignalInv, Pooled
  <1>. QED BY <1>1, <1>2, <1>3, <1>4, <1>5, CoordinatorSignal DEF Next, SignalThread, Terminated

\* A signal raised at any moment before the status is settled, in the pool's life or outside
\* it, pending for the process or for the coordinator alone, becomes the exit status.
THEOREM SignalNotLost == Spec => []SignalReported
  <1>1. SignalInv => SignalReported
    BY DEF SignalInv, SignalReported
  <1>. QED BY <1>1, InitType, InitSignal, NextType, NextSignal, PTL DEF Spec

\* No worker starts a move past a published stop, an interrupt seen before the pool existed
\* or a signal that is pending for the process.
THEOREM StopRespected == Spec => StopBoundary
  <1>. DEFINE Stops == \A w \in Workers : wpc[w] # "moving" /\ wpc'[w] = "moving" => ~stop /\ ~interrupted /\ ~pending
  <1>1. TypeInv /\ SignalInv /\ [Next]_vars => [Stops]_vars
    <2>. SUFFICES ASSUME TypeInv, SignalInv, Next, NEW v \in Workers, wpc[v] # "moving", wpc'[v] = "moving"
                  PROVE  ~stop /\ ~interrupted /\ ~pending
      OBVIOUS
    <2>1. ~(Coordinator \/ SignalThread \/ Send)
      BY CoordinatorApart DEF Apart, Busy
    <2>2. ~(UNCHANGED vars) BY DEF vars, threads
    <2>3. PICK w \in Workers : Worker(w) BY <2>1, <2>2 DEF Next, Terminated
    <2>4. v = w BY <2>3, WorkerBesides DEF Besides, Busy
    <2>5. \A l : [wpc EXCEPT ![w] = l][w] = l /\ [Woken(wpc) EXCEPT ![w] = l][w] = l
      BY WokenKeeps DEF TypeInv, ThreadsOK
    <2>6. Enter(w)
      BY <2>3, <2>4, <2>5 DEF Worker, Take, Skip, Move, Interrupt, Settle, Observed
    <2>7. ~stop' BY <2>4, <2>5, <2>6 DEF Enter, Observed
    <2>8. cpc \in Lending BY <2>6 DEF Enter, TypeInv, CountInv, Running, Busy
    <2>. QED BY <2>6, <2>7, <2>8 DEF Enter, Observe, SignalInv, Windowed
  <1>. QED BY <1>1, InitType, InitSignal, NextType, NextSignal, PTL DEF Spec, StopBoundary

-----------------------------------------------------------------------------
(***************************************************************************)
(* Reports.  Of the windows behind it the batch has reported everything,   *)
(* ahead of it there is no outcome, and of the current window the rows     *)
(* written so far, unless a failure leads to the diagnostics.              *)
(***************************************************************************)
Reported(j) == res[j] \in Durable => j \in flushed \cup named

ReportInv ==
    /\ cpc \in Before => \A j \in Items : res[j] = "none"
    /\ cpc \in Windowed => \A j \in Items : /\ j <= start => Reported(j)
                                            /\ j > start + count => res[j] = "none"
    /\ cpc = "emit" => rc = 0 /\ \A j \in Items : j > start /\ j <= start + emit => j \in rows
    /\ cpc = "flush" /\ rc = 0 => \A j \in Items : InWindow(j) => j \in rows
    /\ cpc = "diagnose" /\ rc = 0 => \A j \in Items : InWindow(j) => j \in flushed
    /\ cpc \in Finishing \/ (cpc = "done" /\ Pooled) => \A j \in Items : Reported(j)

LEMMA InitReport == Init => ReportInv
  BY DEF Init, ReportInv, Before, Windowed, Lending, Finishing

\* Where nothing of the window is known to be reported yet.
Early == {"outer", "admit", "submit", "close"} \cup Lending

\* A step within a window that neither reports nor ends it.
LEMMA EarlyReport ==
    ASSUME TypeInv, ReportInv, cpc \in Early, cpc' \in Early, start' = start,
           UNCHANGED <<flushed, named>>,
           \A j \in Items : j <= start => res'[j] = res[j],
           \A j \in Items : j > start + count' => res'[j] = "none"
    PROVE  ReportInv'
  <1>1. \A j \in Items : j <= start => Reported(j)' BY DEF ReportInv, Early, Windowed, Reported
  <1>. QED BY <1>1 DEF ReportInv, Early, Windowed, Lending, Before, Finishing

LEMMA ParallelReport ==
    ASSUME TypeInv, SignalInv, ReportInv, Parallel
    PROVE  ReportInv'
  <1>. USE DEF main, jobs, queue, threads, process, output, TypeInv, CoordinatorOK, OutputOK
  <1>0. N \in Nat /\ start \in Nat /\ count \in Nat /\ emit \in Nat /\ \A j \in Items : j \in Nat
    BY DEF Items
  <1>1. CASE Outer
    <2>1. CASE cpc' = "admit"
      BY <1>0, <1>1, <2>1, EarlyReport DEF Outer, Early, ReportInv, Windowed
    <2>2. CASE cpc' # "admit"
      <3>1. cpc' = "done" /\ cpc = "outer" /\ UNCHANGED <<res, flushed, named>>
        BY <1>1, <2>2 DEF Outer
      <3>2. count = 0 BY <3>1 DEF CountInv
      <3>3. \A j \in Items : Reported(j)
        BY <1>0, <3>1, <3>2 DEF ReportInv, Windowed, Reported, Durable, Kept
      <3>. QED BY <3>1, <3>3 DEF ReportInv, Before, Windowed, Lending, Finishing, Reported
    <2>. QED BY <2>1, <2>2
  <1>2. CASE AdmitEnds \/ Submit \/ Await
    <2>1. /\ cpc \in Early /\ cpc' \in Early
          /\ UNCHANGED <<start, count, res, flushed, named>>
      BY <1>2 DEF AdmitEnds, Submit, Await, Early, Lending
    <2>. QED BY <2>1, EarlyReport DEF ReportInv, Early, Windowed
  <1>3. ASSUME NEW r \in {"ready", "error", "fatal", "alias"}, Admit(r) PROVE ReportInv'
    <2>1. /\ cpc = "admit" /\ cpc' \in {"admit", "submit"} /\ count' = count + 1
          /\ res' = [res EXCEPT ![start + count + 1] = r]
          /\ UNCHANGED <<start, flushed, named>>
      BY <1>3 DEF Admit
    <2>2. \A j \in Items : j # start + count + 1 => res'[j] = res[j] BY <2>1
    <2>3. \A j \in Items : j <= start => res'[j] = res[j] BY <1>0, <2>2
    <2>4. \A j \in Items : j > start + count' => res'[j] = "none"
      BY <1>0, <2>1, <2>2 DEF ReportInv, Windowed
    <2>. QED BY <2>1, <2>3, <2>4, EarlyReport DEF Early
  <1>4. CASE CloseAll
    <2>1. /\ cpc = "close" /\ cpc' = "emit" /\ rc' = 0 /\ emit' = 0
          /\ UNCHANGED <<start, count, flushed, named>>
      BY <1>4 DEF CloseAll
    <2>2. \A j \in Items : ~InWindow(j) => res'[j] = res[j]
      BY <1>4 DEF CloseAll, Closable
    <2>3. \A j \in Items : (j <= start => Reported(j)') /\ (j > start + count => res'[j] = "none")
      BY <1>0, <2>1, <2>2 DEF ReportInv, Windowed, Reported, InWindow
    <2>4. \A j \in Items : ~(j > start /\ j <= start + 0) BY <1>0
    <2>. QED BY <2>1, <2>3, <2>4 DEF ReportInv, Before, Windowed, Lending, Finishing
  <1>5. CASE Emit
    <2>1. /\ cpc = "emit" /\ cpc' = "emit" /\ emit' = emit + 1
          /\ rows' = rows \cup {start + emit + 1} /\ named \subseteq named'
          /\ UNCHANGED <<start, count, rc, res, flushed>>
      BY <1>5 DEF Emit, Named
    <2>2. \A j \in Items : (j <= start => Reported(j)') /\ (j > start + count => res'[j] = "none")
      BY <2>1 DEF ReportInv, Windowed, Reported
    <2>3. \A j \in Items : j > start /\ j <= start + emit' => j \in rows'
      BY <1>0, <2>1 DEF ReportInv
    <2>. QED BY <2>1, <2>2, <2>3 DEF ReportInv, Before, Windowed, Lending, Finishing
  <1>6. CASE EmitFails
    <2>1. /\ cpc = "emit" /\ cpc' = "flush" /\ rc' = 3 /\ named \subseteq named'
          /\ UNCHANGED <<start, count, res, rows, flushed>>
      BY <1>6 DEF EmitFails, Named
    <2>. QED BY <2>1 DEF ReportInv, Before, Windowed, Lending, Finishing, Reported
  <1>7. CASE EmitEnds
    <2>1. /\ cpc = "emit" /\ cpc' = "flush" /\ emit = count
          /\ UNCHANGED <<start, count, emit, rc, res, rows, flushed, named>>
      BY <1>7 DEF EmitEnds
    <2>2. \A j \in Items : InWindow(j) => j \in rows
      BY <1>0, <2>1 DEF ReportInv, InWindow
    <2>. QED BY <2>1, <2>2 DEF ReportInv, Before, Windowed, Lending, Finishing, Reported, InWindow
  <1>8. CASE Flush
    <2>1. /\ cpc = "flush" /\ cpc' = "diagnose" /\ flushed' = rows
          /\ UNCHANGED <<start, count, rc, res, rows, named>>
      BY <1>8 DEF Flush
    <2>2. \A j \in Items : Reported(j) => Reported(j)' BY <2>1 DEF Reported
    <2>. QED BY <2>1, <2>2 DEF ReportInv, Before, Windowed, Lending, Finishing, InWindow
  <1>9. CASE FlushFails
    <2>1. /\ cpc = "flush" /\ cpc' = "diagnose" /\ rc' = 3
          /\ UNCHANGED <<start, count, res, rows, flushed, named>>
      BY <1>9 DEF FlushFails
    <2>. QED BY <2>1 DEF ReportInv, Before, Windowed, Lending, Finishing, Reported
  <1>10. CASE Diagnose
    <2>1. /\ cpc = "diagnose"
          /\ named' = IF rc = 3 THEN named \cup Outcomes ELSE named
          /\ UNCHANGED <<res, rows, flushed>>
          /\ \/ cpc' = "finish" /\ UNCHANGED <<start, count>>
             \/ cpc' = "outer" /\ start' = start + count /\ count' = 0
      BY <1>10 DEF Diagnose
    <2>2. \A j \in Items : InWindow(j) => Reported(j)'
      BY <2>1 DEF ReportInv, Reported, Outcomes
    <2>3. \A j \in Items : (j <= start => Reported(j)') /\ (j > start + count => res'[j] = "none")
      BY <2>1 DEF ReportInv, Windowed, Reported
    <2>4. \A j \in Items : j <= start \/ InWindow(j) \/ j > start + count
      BY <1>0 DEF InWindow
    <2>5. \A j \in Items : Reported(j)'
      BY <2>2, <2>3, <2>4 DEF Reported, Durable, Kept
    <2>6. CASE cpc' = "finish"
      BY <2>5, <2>6 DEF ReportInv, Before, Windowed, Lending, Finishing
    <2>7. CASE cpc' = "outer" /\ start' = start + count /\ count' = 0
      <3>1. \A j \in Items : j > start' + count' => res'[j] = "none" BY <1>0, <2>3, <2>7
      <3>. QED BY <2>5, <2>7, <3>1 DEF ReportInv, Before, Windowed, Lending, Finishing
    <2>. QED BY <2>1, <2>6, <2>7
  <1>. HIDE DEF TypeInv, CoordinatorOK, OutputOK
  <1>. QED BY <1>1, <1>2, <1>3, <1>4, <1>5, <1>6, <1>7, <1>8, <1>9, <1>10 DEF Parallel

LEMMA NextReport == TypeInv /\ SignalInv /\ JobInv /\ ReportInv /\ [Next]_vars => ReportInv'
  <1>. SUFFICES ASSUME TypeInv, SignalInv, JobInv, ReportInv, [Next]_vars PROVE ReportInv'
    OBVIOUS
  <1>. USE DEF main, jobs, queue, threads, process, output
  <1>1. CASE Starting
    <2>1. /\ cpc \in Before /\ cpc' \in Before \cup {"outer", "single", "done"}
          /\ UNCHANGED <<res, start, count, flushed, named>>
      BY <1>1 DEF Starting, NoPool, StartPool, StartPoolFails, Unstart, Begin, BeginFails, Before
    <2>2. \A j \in Items : res'[j] = "none" /\ Reported(j)'
      BY <2>1 DEF ReportInv, Reported, Durable, Kept
    <2>. QED BY <2>1, <2>2 DEF ReportInv, Before, Windowed, Lending, Finishing
  <1>2. CASE Singleton
    <2>1. cpc \in Alone /\ cpc' \in Alone \cup {"done"} /\ UNCHANGED spc
      BY <1>2 DEF Singleton, Single, SingleEmit, SingleEnds, Alone
    <2>. QED BY <2>1 DEF ReportInv, Before, Windowed, Lending, Finishing, Alone, SignalInv, Pooled
  <1>3. CASE Ending
    <2>1. /\ UNCHANGED <<res, flushed, named>>
          /\ \/ cpc \in Finishing \cup {"done"} /\ Pooled /\ cpc' \in Finishing
             \/ cpc' \in {"exit", "ended"}
      BY <1>3 DEF Ending, Done, Finish, Join, Finished, Exit, Finishing, SignalInv
    <2>. QED BY <2>1 DEF ReportInv, Before, Windowed, Lending, Finishing, Reported
  <1>4. ASSUME NEW w \in Workers, Worker(w) PROVE ReportInv'
    <2>1. UNCHANGED <<start, count, emit, rc, spc, rows, flushed, named>>
      BY <1>4 DEF Worker, Take, Skip, Enter, Move, Interrupt, Settle
    <2>2. CASE UNCHANGED <<cpc, res>>
      BY <2>1, <2>2 DEF ReportInv, Reported, InWindow, Pooled
    <2>3. CASE Busy(w) /\ (cpc' \in {cpc, "await"} /\ (cpc' # cpc => cpc = "await_wait"))
               /\ \E r \in Results : res' \in {res, [res EXCEPT ![wjob[w]] = r]}
      <3>1. cpc \in Lending /\ cpc' \in Lending
        BY <2>3 DEF TypeInv, CountInv, Running, Lending
      <3>2. wjob[w] > start /\ wjob[w] <= start + count
        BY <2>3, <3>1 DEF JobInv, TypeInv, CountInv, CoordinatorOK, ThreadsOK
      <3>3. \A j \in Items : j # wjob[w] => res'[j] = res[j]
        BY <2>3 DEF TypeInv, OutputOK
      <3>4. \A j \in Items : j \in Nat BY DEF Items
      <3>5. \A j \in Items : (j <= start => res'[j] = res[j]) /\ (j > start + count => res'[j] = res[j])
        BY <3>2, <3>3, <3>4 DEF TypeInv, CoordinatorOK, ThreadsOK
      <3>. QED BY <2>1, <3>1, <3>5, EarlyReport DEF Early, ReportInv, Windowed
    <2>4. "none" \in Results BY DEF Results
    <2>. QED BY <1>4, <2>2, <2>3, <2>4, WorkerKinds DEF Busy
  <1>5. CASE SignalThread \/ Send
    <2>1. /\ UNCHANGED <<cpc, start, count, emit, rc, res, rows, flushed, named>>
          /\ Pooled' => Pooled
      BY <1>5 DEF SignalThread, Poll, Sleep, Send, Pooled
    <2>. QED BY <2>1 DEF ReportInv, Reported, InWindow
  <1>6. CASE UNCHANGED vars
    BY <1>6 DEF vars, ReportInv, Reported, InWindow, Pooled
  <1>. QED BY <1>1, <1>2, <1>3, <1>4, <1>5, <1>6, ParallelReport DEF Next, Coordinator, Terminated

\* Whatever fails on the way, a move, a row, the flush, a close, and whatever stops the batch,
\* every message that was moved or that a failed move left traces of is in flushed rows or
\* named on stderr before parallel goes on or returns.
THEOREM NothingUnreported == Spec => []OutcomesReported
  <1>1. ReportInv /\ TypeInv => OutcomesReported
    <2>. SUFFICES ASSUME ReportInv, TypeInv, cpc = "outer", NEW j \in Items, res[j] \in Durable
                  PROVE  j \in flushed \cup named
      BY DEF ReportInv, OutcomesReported, Finishing, Reported
    <2>1. count = 0 /\ start \in Nat /\ j \in Nat BY DEF TypeInv, CountInv, CoordinatorOK, Items
    <2>2. j <= start \/ j > start + count BY <2>1
    <2>. QED BY <2>2 DEF ReportInv, Windowed, Reported, Durable, Kept
  <1>. QED BY <1>1, InitType, InitJob, InitSignal, InitReport, NextType, NextJob, NextSignal, NextReport, PTL
           DEF Spec
=============================================================================
