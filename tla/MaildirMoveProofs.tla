------------------------- MODULE MaildirMoveProofs -------------------------
(***************************************************************************)
(* Proofs about MaildirMove, for any number of movers, files and names: its*)
(* invariants, and that it implements AtomicMove.                          *)
(***************************************************************************)
EXTENDS MaildirMoveAtomic, TLAPS

USE ConstantsAssumption

\* A mover past Open, and one that unlinked its source, has a source.
Pinned ==
    \A p \in Movers :
        pc[p] \in Forward \cup {"read_headers"} \/ p \in unlinked => source[p] \in Files

\* The retry counter is untouched before publication.
Staged == {"open", "read_headers", "begin", "stage_dir", "stage_file", "copy_header",
           "copy_body", "pre_publish"}

Fresh == \A p \in Movers : pc[p] \in Staged => attempt[p] = 0

\* From publication on the published name is recorded.
Named ==
    \A p \in Movers :
        pc[p] \in Forward \ (Staged \cup {"publish"}) => final[p] \in Names

TypeInv == TypeOK /\ Pinned /\ Fresh /\ Named

LEMMA SyncDirType ==
    ASSUME TypeOK, NEW d, NEW m \in [Names -> Inodes \cup {None}],
           NEW c \in [Movers -> Inodes \cup {None}],
           SyncDir(d, m, c) \/ UNCHANGED <<dmail, dclaim>>
    PROVE  /\ dmail' \in [Names -> Inodes \cup {None}]
           /\ dclaim' \in [Movers -> Inodes \cup {None}]
  <1>1. CASE SyncDir(d, m, c) BY <1>1 DEF SyncDir, TypeOK
  <1>2. CASE UNCHANGED <<dmail, dclaim>> BY <1>2 DEF TypeOK
  <1>. QED BY <1>1, <1>2

LEMMA InitType == Init => TypeInv
  BY DEF Init, TypeInv, TypeOK, Pinned, Fresh, Named, Staged, Bytes, Inodes, Prepare, Forward, Cleanup, Ended

LEMMA StagingType ==
    ASSUME TypeInv, NEW p \in Movers, Staging(p)
    PROVE  TypeInv'
  <1>. USE DEF TypeInv, TypeOK, Pinned, Fresh, Named, Staged, Bytes, Inodes, Prepare, Forward, Cleanup,
               Ended, Goto, fs, history
  <1>1. CASE Open(p) BY <1>1 DEF Open
  <1>2. CASE ReadHeaders(p) BY <1>2 DEF ReadHeaders
  <1>3. CASE Begin(p) BY <1>3 DEF Begin
  <1>4. CASE StageDir(p) BY <1>4 DEF StageDir
  <1>5. CASE StageFile(p) BY <1>5 DEF StageFile
  <1>6. CASE CopyHeader(p) BY <1>6 DEF CopyHeader
  <1>7. CASE CopyBody(p)
    <2>1. bytes' \in [Inodes -> Bytes] BY <1>7 DEF CopyBody
    <2>2. digest' \in [Movers -> Bytes] BY <1>7, <2>1 DEF CopyBody
    <2>. QED BY <1>7, <2>1, <2>2 DEF CopyBody
  <1>8. CASE PrePublish(p) BY <1>8 DEF PrePublish
  <1>9. CASE Publish(p)
    <2>. DEFINE n == Candidate[p][attempt[p]]
    <2>1. n \in Names BY <1>9 DEF Publish
    <2>2. CASE mail[n] = None
      <3>1. /\ mail' = [mail EXCEPT ![n] = p]
            /\ final' = [final EXCEPT ![p] = n]
            /\ pc' = [pc EXCEPT ![p] = "sync_published"]
            /\ UNCHANGED attempt
        BY <1>9, <2>2 DEF Publish
      <3>. HIDE DEF n
      <3>. QED BY <1>9, <2>1, <3>1 DEF Publish
    <2>3. CASE mail[n] # None
      <3>1. /\ attempt' = [attempt EXCEPT ![p] = attempt[p] + 1]
            /\ pc' = [pc EXCEPT ![p] = IF attempt[p] + 1 < Retries THEN "publish" ELSE "restore"]
            /\ UNCHANGED <<mail, final>>
        BY <1>9, <2>3 DEF Publish, NextAttempt, AfterCollision
      <3>2. attempt[p] + 1 \in 0..Retries BY <1>9 DEF Publish
      <3>. HIDE DEF n
      <3>. QED BY <1>9, <3>1, <3>2 DEF Publish
    <2>. QED BY <2>2, <2>3
  <1>10. CASE SyncPublished(p) BY <1>10 DEF SyncPublished, SyncDir
  <1>11. CASE CleanupStage(p) BY <1>11 DEF CleanupStage
  <1>12. CASE RemoveStage(p) BY <1>12 DEF RemoveStage
  <1>. QED BY <1>1, <1>2, <1>3, <1>4, <1>5, <1>6, <1>7, <1>8, <1>9, <1>10, <1>11, <1>12
           DEF Staging

LEMMA ClaimingType ==
    ASSUME TypeInv, NEW p \in Movers, Claiming(p)
    PROVE  TypeInv'
  <1>. USE DEF TypeInv, TypeOK, Pinned, Fresh, Named, Staged, Bytes, Inodes, Prepare, Forward, Cleanup,
               Ended, Goto, fs, history
  <1>1. CASE ClaimDir(p) BY <1>1 DEF ClaimDir
  <1>2. CASE PreClaim(p) BY <1>2 DEF PreClaim
  <1>3. CASE Claim(p) BY <1>3 DEF Claim, NewCtime
  <1>4. CASE VerifyClaim(p) BY <1>4 DEF VerifyClaim
  <1>5. CASE SyncClaim(p) BY <1>5 DEF SyncClaim, SyncDir
  <1>6. CASE FinalDestination(p) BY <1>6 DEF FinalDestination
  <1>7. CASE FinalSource(p) BY <1>7 DEF FinalSource
  <1>8. CASE FinalStat(p) BY <1>8 DEF FinalStat
  <1>9. CASE Unlink(p) BY <1>9 DEF Unlink, NewCtime
  <1>10. CASE RemoveClaim(p)
    <2>1. /\ mail' \in [Names -> Inodes \cup {None}]
          /\ claim' \in [Movers -> Inodes \cup {None}]
      BY <1>10 DEF RemoveClaim
    <2>2. /\ dmail' \in [Names -> Inodes \cup {None}]
          /\ dclaim' \in [Movers -> Inodes \cup {None}]
      BY <1>10, <2>1, SyncDirType DEF RemoveClaim
    <2>3. CASE Goto(p, "close") BY <1>10, <2>1, <2>2, <2>3 DEF RemoveClaim
    <2>4. CASE Goto(p, "restore") BY <1>10, <2>1, <2>2, <2>4 DEF RemoveClaim
    <2>. QED BY <1>10, <2>3, <2>4 DEF RemoveClaim
  <1>11. CASE Close(p) BY <1>11 DEF Close
  <1>. QED BY <1>1, <1>2, <1>3, <1>4, <1>5, <1>6, <1>7, <1>8, <1>9, <1>10, <1>11
           DEF Claiming

LEMMA DoneType ==
    ASSUME TypeInv, NEW p \in Movers, Done(p) \/ Kill(p)
    PROVE  TypeInv'
  <1>. USE DEF TypeInv, TypeOK, Pinned, Fresh, Named, Staged, Bytes, Inodes, Prepare, Forward, Cleanup,
               Ended, Goto, fs, history
  <1>1. CASE Fail(p)
    <2>1. CASE pc[p] \in Prepare /\ Goto(p, "failed") BY <1>1, <2>1 DEF Fail
    <2>2. CASE pc[p] \in Forward /\ Goto(p, "restore") BY <1>1, <2>2 DEF Fail
    <2>. QED BY <1>1, <2>1, <2>2 DEF Fail
  <1>2. CASE NothingToRestore(p) BY <1>2 DEF NothingToRestore
  <1>3. CASE RestoreRename(p)
    <2>1. /\ mail' \in [Names -> Inodes \cup {None}]
          /\ claim' \in [Movers -> Inodes \cup {None}]
      BY <1>3 DEF RestoreRename
    <2>2. /\ dmail' \in [Names -> Inodes \cup {None}]
          /\ dclaim' \in [Movers -> Inodes \cup {None}]
      BY <1>3, <2>1, SyncDirType DEF RestoreRename
    <2>. QED BY <1>3, <2>1, <2>2 DEF RestoreRename, NewCtime
  <1>4. CASE RestoreLink(p) BY <1>4 DEF RestoreLink, NewCtime, SyncDir
  <1>5. CASE RestoreUnlink(p)
    <2>1. /\ mail' \in [Names -> Inodes \cup {None}]
          /\ claim' \in [Movers -> Inodes \cup {None}]
      BY <1>5 DEF RestoreUnlink
    <2>2. /\ dmail' \in [Names -> Inodes \cup {None}]
          /\ dclaim' \in [Movers -> Inodes \cup {None}]
      BY <1>5, <2>1, SyncDirType DEF RestoreUnlink
    <2>. QED BY <1>5, <2>1, <2>2 DEF RestoreUnlink, NewCtime
  <1>6. CASE Retain(p)
    <2>1. /\ mail' \in [Names -> Inodes \cup {None}]
          /\ claim' \in [Movers -> Inodes \cup {None}]
      BY <1>6 DEF Retain
    <2>2. /\ dmail' \in [Names -> Inodes \cup {None}]
          /\ dclaim' \in [Movers -> Inodes \cup {None}]
      BY <1>6, <2>1, SyncDirType DEF Retain
    <2>. QED BY <1>6, <2>1, <2>2, ZenonT(60) DEF Retain
  <1>7. CASE Unstage(p)
    <2>1. CASE UNCHANGED <<stage, kept>> BY <1>7, <2>1 DEF Unstage
    <2>2. CASE /\ stage' = [stage EXCEPT ![p] = FALSE]
               /\ kept' = [kept EXCEPT ![p] = @ \ {"stage_message"}]
      BY <1>7, <2>2 DEF Unstage
    <2>. QED BY <1>7, <2>1, <2>2 DEF Unstage
  <1>8. CASE Remove(p) BY <1>8 DEF Remove
  <1>9. CASE Return(p) BY <1>9 DEF Return, Recovery
  <1>10. CASE Kill(p) BY <1>10 DEF Kill
  <1>. QED BY <1>1, <1>2, <1>3, <1>4, <1>5, <1>6, <1>7, <1>8, <1>9, <1>10 DEF Done

LEMMA EnvironmentType ==
    ASSUME TypeInv, Client \/ \E d \in Dirs : Writeback(d)
    PROVE  TypeInv'
  <1>. USE DEF TypeInv, TypeOK, Pinned, Fresh, Named, Staged, Inodes, locals, history, ClientOp
  <1>1. ASSUME NEW n \in Names, NEW f \in Files, Deliver(n, f)
        PROVE  TypeInv'
    BY <1>1 DEF Deliver
  <1>2. ASSUME NEW m \in Names, NEW n \in Names, ClientRename(m, n)
        PROVE  TypeInv'
    <2>1. mail' \in [Names -> Inodes \cup {None}] BY <1>2, ZenonT(60) DEF ClientRename
    <2>2. sstat' \in [Movers -> {"same", "ctime", "mtime"}]
      BY <1>2 DEF ClientRename, NewCtime
    <2>3. /\ ops' \in 0..MaxClientOps
          /\ UNCHANGED <<bytes, stage, claim, dmail, dclaim, flushed, pc, source, digest, cstat,
                         attempt, final, kept, made, report, live, unlinked, disposed>>
      BY <1>2 DEF ClientRename
    <2>. QED BY <2>1, <2>2, <2>3
  <1>3. ASSUME NEW n \in Names, Delete(n)
        PROVE  TypeInv'
    <2>1. disposed' \in SUBSET Files
      BY <1>3 DEF Delete, DisposedCopy, CopyFinal, Forward
    <2>. QED BY <1>3, <2>1 DEF Delete, NewCtime
  <1>4. ASSUME NEW f \in Files, NEW b \in Bytes, NEW noticed \in BOOLEAN,
               EditSource(f, b, noticed)
        PROVE  TypeInv'
    BY <1>4 DEF EditSource
  <1>5. ASSUME NEW p \in Movers, NEW b \in Bytes, NEW noticed \in BOOLEAN,
               EditCopy(p, b, noticed)
        PROVE  TypeInv'
    <2>1. disposed' \in SUBSET Files
      BY <1>5 DEF EditCopy, DisposedCopy, CopyFinal, Forward
    <2>. QED BY <1>5, <2>1 DEF EditCopy
  <1>6. ASSUME NEW d \in Dirs, Writeback(d)
        PROVE  TypeInv'
    BY <1>6 DEF Writeback, SyncDir
  <1>. HIDE DEF TypeInv, ClientOp
  <1>. QED BY <1>1, <1>2, <1>3, <1>4, <1>5, <1>6 DEF Client

LEMMA NextType == TypeInv /\ [Next]_vars => TypeInv'
  <1>. SUFFICES ASSUME TypeInv, [Next]_vars PROVE TypeInv'
    OBVIOUS
  <1>1. CASE \E p \in Movers : Step(p) \/ Kill(p)
    BY <1>1, StagingType, ClaimingType, DoneType DEF Step
  <1>2. CASE Client \/ \E d \in Dirs : Writeback(d)
    BY <1>2, EnvironmentType
  <1>3. CASE UNCHANGED vars
    BY <1>3 DEF vars, fs, locals, history, TypeInv, TypeOK, Pinned, Fresh, Named
  <1>. QED BY <1>1, <1>2, <1>3 DEF Next, AllEnded

\* Type correctness of jf_storage_move's state, its retry counter included: no
\* candidate name beyond the last attempt is ever asked for.
THEOREM TypeCorrect == Spec => []TypeOK
  <1>1. TypeInv => TypeOK
    BY DEF TypeInv
  <1>. QED BY <1>1, InitType, NextType, PTL DEF Spec

-----------------------------------------------------------------------------
(***************************************************************************)
(* NoLoss is not inductive.  Its strengthening says at which program       *)
(* points which part of the argument holds: before the claim nothing is    *)
(* claimed; from VerifyClaim on the claim is the pinned source; from the   *)
(* last check of the copy on the copy is public and complete; from the     *)
(* last check of the source on its bytes are the copied ones; and a file   *)
(* that only a claim about to be unlinked after a relink still holds is    *)
(* safe by other means.                                                    *)
(***************************************************************************)
Unclaimed == Prepare \cup {"begin", "stage_dir", "stage_file", "copy_header", "copy_body",
                           "pre_publish", "publish", "sync_published", "cleanup_stage",
                           "remove_stage", "claim_dir", "pre_claim", "claim"}
Verified == {"sync_claim", "final_destination", "final_source", "final_stat", "unlink"}
CopyChecked == {"final_source", "final_stat", "unlink"}

\* Claims hold files, none before the claim and the pinned one once verified.
ClaimInv ==
    \A p \in Movers :
        /\ claim[p] \in Files \cup {None}
        /\ pc[p] \in Unclaimed => claim[p] = None
        /\ pc[p] \in Verified => claim[p] = source[p]

\* Copies are public only where they were published, never where a mover that
\* goes on takes its source, and not before they are complete.
PlaceInv ==
    /\ \A n \in Names : mail[n] \in Movers => DirOf[n] = Dest[mail[n]]
    /\ \A p \in Movers : pc[p] \in Forward \ {"begin"} => DirOf[Src[p]] # Dest[p]
    /\ \A p \in Movers : pc[p] \in Staged => ~Public(p)

\* What the final checks established still holds, or the file was disposed of.
CheckedInv ==
    \A p \in Movers : source[p] \notin disposed =>
        /\ pc[p] \in CopyChecked => Public(p) /\ bytes[p] = digest[p]
        /\ pc[p] = "final_stat" => sstat[p] = "mtime" \/ bytes[source[p]] = digest[p]
        /\ pc[p] = "unlink" => bytes[source[p]] = digest[p]

Safe(f) ==
    \/ Public(f)
    \/ \E p \in Movers : claim[p] = f /\ pc[p] # "relinked"
    \/ \E p \in unlinked : source[p] = f /\ Public(p) /\ bytes[p] = bytes[f]

SafeInv == \A f \in live \ disposed : Safe(f)

LossInv == ClaimInv /\ PlaceInv /\ CheckedInv /\ SafeInv

LEMMA InitLoss == Init => LossInv
  <1>. SUFFICES ASSUME Init PROVE LossInv
    OBVIOUS
  <1>1. ClaimInv BY DEF Init, ClaimInv, Unclaimed, Verified
  <1>2. PlaceInv BY DEF Init, PlaceInv, Public, Forward
  <1>3. CheckedInv BY DEF Init, CheckedInv, CopyChecked
  <1>4. SafeInv BY DEF Init, SafeInv, Safe, Public
  <1>. QED BY <1>1, <1>2, <1>3, <1>4 DEF LossInv

\* A step of mover p that leaves the namespace alone: it moves to label l, where
\* what that label promises must hold, and changes at most p's own locals and,
\* before publication, p's own copy.
LEMMA QuietStep ==
    ASSUME TypeInv, LossInv, NEW p \in Movers, NEW l,
           pc' = [pc EXCEPT ![p] = l],
           UNCHANGED <<mail, claim, live, unlinked, disposed>>,
           \A q \in Movers \ {p} :
             source'[q] = source[q] /\ digest'[q] = digest[q] /\ sstat'[q] = sstat[q],
           \A i \in Inodes \ {p} : bytes'[i] = bytes[i],
           Public(p) => source'[p] = source[p] /\ bytes'[p] = bytes[p],
           l # "relinked",
           l \in Unclaimed => claim[p] = None,
           l \in Verified => claim[p] = source'[p],
           l \in Forward \ {"begin"} => DirOf[Src[p]] # Dest[p],
           l \in Staged => pc[p] \in Staged,
           source'[p] \notin disposed =>
             /\ l \in CopyChecked => Public(p) /\ bytes'[p] = digest'[p]
             /\ l \in {"final_stat", "unlink"} => bytes'[source'[p]] = digest'[p]
    PROVE  LossInv'
  <1>1. ClaimInv' BY DEF ClaimInv, TypeInv, TypeOK, LossInv
  <1>2. PlaceInv' BY DEF PlaceInv, Public, TypeInv, TypeOK, LossInv
  <1>3. CheckedInv'
    <2>. SUFFICES ASSUME NEW q \in Movers \ {p}, source[q] \notin disposed
                  PROVE  /\ pc[q] \in CopyChecked => Public(q) /\ bytes'[q] = digest[q]
                         /\ pc[q] = "final_stat" =>
                              sstat[q] = "mtime" \/ bytes'[source[q]] = digest[q]
                         /\ pc[q] = "unlink" => bytes'[source[q]] = digest[q]
      BY DEF CheckedInv, Public, TypeInv, TypeOK
    <2>1. pc[q] \in CopyChecked => bytes'[q] = bytes[q] /\ bytes'[source[q]] = bytes[source[q]]
      BY DEF TypeInv, Pinned, Inodes, Forward, CopyChecked
    <2>. QED BY <2>1 DEF LossInv, CheckedInv, CopyChecked
  <1>4. ASSUME NEW f \in Files, Safe(f) PROVE Safe(f)'
    <2>1. \A q \in Movers : pc'[q] = "relinked" => pc[q] = "relinked"
      BY DEF TypeInv, TypeOK
    <2>2. bytes'[f] = bytes[f] BY DEF Inodes
    <2>3. \A q \in Movers : Public(q) => source'[q] = source[q] /\ bytes'[q] = bytes[q]
      BY DEF Inodes
    <2>. QED BY <1>4, <2>1, <2>2, <2>3 DEF Safe, Public, TypeInv, TypeOK
  <1>5. SafeInv' BY <1>4 DEF SafeInv, LossInv, TypeInv, TypeOK
  <1>. QED BY <1>1, <1>2, <1>3, <1>5 DEF LossInv

LEMMA Distinct == \A f \in Files, p \in Movers : f # p
  BY ConstantsAssumption

LEMMA PublicKept ==
    ASSUME mail \in [Names -> Inodes \cup {None}],
           NEW n \in Names, mail[n] = None, NEW i, mail' = [mail EXCEPT ![n] = i],
           NEW j \in Inodes, Public(j)
    PROVE  Public(j)'
  BY ConstantsAssumption DEF Public, Inodes

LEMMA StagingLoss ==
    ASSUME TypeInv, LossInv, NEW p \in Movers, Staging(p)
    PROVE  LossInv'
  <1>. USE DEF TypeInv, TypeOK, Pinned, Named, LossInv, ClaimInv, PlaceInv, Prepare, Forward, Staged,
               Unclaimed, Verified, CopyChecked, Goto, Inodes, fs, history
  <1>1. CASE Open(p) BY <1>1, QuietStep, ZenonT(60) DEF Open
  <1>2. CASE ReadHeaders(p) BY <1>2, QuietStep, ZenonT(60) DEF ReadHeaders
  <1>3. CASE Begin(p) BY <1>3, QuietStep DEF Begin
  <1>4. CASE StageDir(p)
    <2>1. PICK l \in {"stage_file", "restore"} : pc' = [pc EXCEPT ![p] = l] BY <1>4 DEF StageDir
    <2>. QED BY <1>4, <2>1, QuietStep DEF StageDir
  <1>5. CASE StageFile(p) BY <1>5, QuietStep DEF StageFile
  <1>6. CASE CopyHeader(p) BY <1>6, QuietStep DEF CopyHeader
  <1>7. CASE CopyBody(p) BY <1>7, QuietStep DEF CopyBody
  <1>8. CASE PrePublish(p) BY <1>8, QuietStep DEF PrePublish
  <1>9. CASE SyncPublished(p) BY <1>9, QuietStep DEF SyncPublished
  <1>10. CASE CleanupStage(p) BY <1>10, QuietStep DEF CleanupStage
  <1>11. CASE RemoveStage(p)
    <2>1. PICK l \in {"claim_dir", "restore"} : pc' = [pc EXCEPT ![p] = l] BY <1>11 DEF RemoveStage
    <2>. QED BY <1>11, <2>1, QuietStep DEF RemoveStage
  <1>12. CASE Publish(p)
    <2>. DEFINE n == Candidate[p][attempt[p]]
    <2>1. n \in Names /\ DirOf[n] = Dest[p] BY <1>12 DEF Publish
    <2>2. CASE mail[n] # None
      <3>1. PICK l \in {"publish", "restore"} : pc' = [pc EXCEPT ![p] = l]
        BY <1>12, <2>2 DEF Publish, AfterCollision
      <3>2. UNCHANGED mail BY <1>12, <2>2 DEF Publish
      <3>. QED BY <1>12, <3>1, <3>2, QuietStep DEF Publish
    <2>3. CASE mail[n] = None
      <3>1. /\ mail' = [mail EXCEPT ![n] = p]
            /\ pc' = [pc EXCEPT ![p] = "sync_published"]
            /\ pc[p] = "publish"
            /\ UNCHANGED <<bytes, claim, source, digest, sstat, live, unlinked, disposed>>
        BY <1>12, <2>3 DEF Publish
      <3>. HIDE DEF n
      <3>2. \A j \in Inodes : Public(j) => Public(j)'
        BY <2>1, <2>3, <3>1, PublicKept
      <3>3. ClaimInv' BY <3>1
      <3>4. PlaceInv' BY <2>1, <3>1 DEF Public
      <3>5. CheckedInv' BY <3>1, <3>2 DEF CheckedInv
      <3>6. ASSUME NEW g \in Files, Safe(g) PROVE Safe(g)'
        <4>1. \A q \in Movers : pc'[q] = "relinked" => pc[q] = "relinked" BY <3>1
        <4>. QED BY <3>1, <3>2, <3>6, <4>1 DEF Safe
      <3>7. SafeInv' BY <3>1, <3>6 DEF SafeInv
      <3>. QED BY <3>3, <3>4, <3>5, <3>7
    <2>. QED BY <2>2, <2>3
  <1>. QED BY <1>1, <1>2, <1>3, <1>4, <1>5, <1>6, <1>7, <1>8, <1>9, <1>10, <1>11, <1>12
           DEF Staging

LEMMA ClaimingLoss ==
    ASSUME TypeInv, LossInv, NEW p \in Movers, Claiming(p)
    PROVE  LossInv'
  <1>. USE DEF TypeInv, TypeOK, Pinned, Named, LossInv, ClaimInv, PlaceInv, Prepare, Forward, Staged,
               Unclaimed, Verified, CopyChecked, Goto, Inodes, fs, history
  <1>1. CASE ClaimDir(p)
    <2>1. PICK l \in {"pre_claim", "restore"} : pc' = [pc EXCEPT ![p] = l] BY <1>1 DEF ClaimDir
    <2>. QED BY <1>1, <2>1, QuietStep DEF ClaimDir
  <1>2. CASE PreClaim(p) BY <1>2, QuietStep DEF PreClaim
  <1>3. CASE Claim(p)
    <2>. DEFINE f == mail[Src[p]]
    <2>1. Src[p] \in Names /\ f \in Files
      BY <1>3, SourcesAssumption DEF Claim
    <2>2. /\ mail' = [mail EXCEPT ![Src[p]] = None]
          /\ claim' = [claim EXCEPT ![p] = f]
          /\ pc' = [pc EXCEPT ![p] = "verify_claim"]
          /\ UNCHANGED <<bytes, source, digest, live, unlinked, disposed>>
          /\ \A q \in Movers : sstat[q] = "mtime" => sstat'[q] = "mtime"
          /\ claim[p] = None
      BY <1>3 DEF Claim, NewCtime
    <2>3. \A j \in Inodes \ {f} : Public(j) => Public(j)'
      BY <2>1, <2>2 DEF Public
    <2>. HIDE DEF f
    <2>4. ClaimInv' BY <2>1, <2>2
    <2>5. PlaceInv' BY <1>3, <2>1, <2>2 DEF Public, Claim
    <2>6. CheckedInv' BY <2>1, <2>2, <2>3 DEF CheckedInv
    <2>7. ASSUME NEW g \in Files, Safe(g) PROVE Safe(g)'
      <3>1. CASE g = f BY <2>2, <3>1 DEF Safe
      <3>2. CASE g # f BY <2>1, <2>2, <2>3, <2>7, <3>2 DEF Safe
      <3>. QED BY <3>1, <3>2
    <2>8. SafeInv' BY <2>2, <2>7 DEF SafeInv
    <2>. QED BY <2>4, <2>5, <2>6, <2>8
  <1>4. CASE VerifyClaim(p) BY <1>4, QuietStep, ZenonT(60) DEF VerifyClaim
  <1>5. CASE SyncClaim(p) BY <1>5, QuietStep DEF SyncClaim
  <1>6. CASE FinalDestination(p)
    <2>1. Public(p) /\ bytes[p] = digest[p]
      BY <1>6 DEF FinalDestination, CopyCurrent, Public
    <2>. QED BY <1>6, <2>1, QuietStep DEF FinalDestination
  <1>7. CASE FinalSource(p) BY <1>7, QuietStep DEF FinalSource, CheckedInv, SourceIntact
  <1>8. CASE FinalStat(p) BY <1>8, QuietStep DEF FinalStat, CheckedInv
  <1>9. CASE Unlink(p)
    <2>1. /\ pc[p] = "unlink"
          /\ claim[p] = source[p]
          /\ claim' = [claim EXCEPT ![p] = None]
          /\ pc' = [pc EXCEPT ![p] = "remove_claim"]
          /\ unlinked' = unlinked \cup {p}
          /\ UNCHANGED <<mail, bytes, source, digest, live, disposed>>
          /\ \A q \in Movers : sstat[q] = "mtime" => sstat'[q] = "mtime"
      BY <1>9 DEF Unlink, NewCtime
    <2>2. ClaimInv' BY <2>1
    <2>3. PlaceInv' BY <2>1 DEF Public
    <2>4. CheckedInv' BY <2>1 DEF CheckedInv, Public
    <2>5. ASSUME NEW g \in live \ disposed, Safe(g) PROVE Safe(g)'
      <3>1. CASE g = source[p]
        <4>1. Public(p) /\ bytes[p] = bytes[g] BY <2>1, <3>1, <2>5 DEF CheckedInv
        <4>. QED BY <2>1, <3>1, <4>1 DEF Safe, Public
      <3>2. CASE g # source[p]
        <4>1. \A q \in Movers : claim[q] = g /\ pc[q] # "relinked" =>
                claim'[q] = g /\ pc'[q] # "relinked"
          BY <2>1, <3>2
        <4>. QED BY <2>1, <2>5, <4>1 DEF Safe, Public
      <3>. QED BY <3>1, <3>2
    <2>6. SafeInv' BY <2>1, <2>5 DEF SafeInv
    <2>. QED BY <2>2, <2>3, <2>4, <2>6
  <1>10. CASE RemoveClaim(p)
    <2>1. PICK l \in {"close", "restore"} : pc' = [pc EXCEPT ![p] = l] BY <1>10 DEF RemoveClaim
    <2>. QED BY <1>10, <2>1, QuietStep DEF RemoveClaim
  <1>11. CASE Close(p) BY <1>11, QuietStep DEF Close
  <1>. QED BY <1>1, <1>2, <1>3, <1>4, <1>5, <1>6, <1>7, <1>8, <1>9, <1>10, <1>11
           DEF Claiming

LEMMA DoneLoss ==
    ASSUME TypeInv, LossInv, NEW p \in Movers, Done(p) \/ Kill(p)
    PROVE  LossInv'
  <1>. USE DEF TypeInv, TypeOK, Pinned, Named, LossInv, ClaimInv, PlaceInv, Prepare, Forward, Staged,
               Unclaimed, Verified, CopyChecked, Goto, Inodes, fs, history
  <1>1. CASE Fail(p)
    <2>1. PICK l \in {"failed", "restore"} : pc' = [pc EXCEPT ![p] = l] BY <1>1 DEF Fail
    <2>. QED BY <1>1, <2>1, QuietStep DEF Fail
  <1>2. CASE NothingToRestore(p) BY <1>2, QuietStep DEF NothingToRestore
  <1>3. CASE RestoreRename(p)
    <2>1. /\ pc[p] = "restore"
          /\ Src[p] \in Names
          /\ mail[Src[p]] = None
          /\ mail' = [mail EXCEPT ![Src[p]] = claim[p]]
          /\ claim' = [claim EXCEPT ![p] = None]
          /\ pc' = [pc EXCEPT ![p] = "unstage"]
          /\ UNCHANGED <<bytes, source, digest, live, unlinked, disposed>>
          /\ \A q \in Movers : sstat[q] = "mtime" => sstat'[q] = "mtime"
      BY <1>3 DEF RestoreRename, MayRestore, NewCtime
    <2>2. \A j \in Inodes : Public(j) => Public(j)'
      BY <2>1, PublicKept
    <2>3. ASSUME NEW g \in Files, g = claim[p] PROVE Public(g)'
      BY <2>1, <2>3 DEF Public
    <2>4. ClaimInv' BY <2>1
    <2>5. PlaceInv' BY <2>1 DEF Public
    <2>6. CheckedInv' BY <2>1, <2>2 DEF CheckedInv
    <2>7. ASSUME NEW g \in Files, Safe(g) PROVE Safe(g)'
      <3>1. CASE g = claim[p]
        <4>1. Public(g)' BY <2>3, <3>1
        <4>. QED BY <4>1 DEF Safe
      <3>2. CASE g # claim[p]
        <4>1. \A q \in Movers : claim[q] = g /\ pc[q] # "relinked" =>
                claim'[q] = g /\ pc'[q] # "relinked"
          BY <2>1, <3>2
        <4>. QED BY <2>1, <2>2, <2>7, <4>1 DEF Safe
      <3>. QED BY <3>1, <3>2
    <2>8. SafeInv' BY <2>1, <2>7 DEF SafeInv
    <2>. QED BY <2>4, <2>5, <2>6, <2>8
  <1>4. CASE RestoreLink(p)
    <2>1. /\ pc[p] = "restore"
          /\ Src[p] \in Names
          /\ mail[Src[p]] = None
          /\ mail' = [mail EXCEPT ![Src[p]] = claim[p]]
          /\ claim' = claim
          /\ pc' = [pc EXCEPT ![p] = "relinked"]
          /\ UNCHANGED <<bytes, source, digest, live, unlinked, disposed>>
          /\ \A q \in Movers : sstat[q] = "mtime" => sstat'[q] = "mtime"
      BY <1>4 DEF RestoreLink, MayRestore, NewCtime
    <2>2. \A j \in Inodes : Public(j) => Public(j)'
      BY <2>1, PublicKept
    <2>3. ASSUME NEW g \in Files, g = claim[p] PROVE Public(g)'
      BY <2>1, <2>3 DEF Public
    <2>4. ClaimInv' BY <2>1
    <2>5. PlaceInv' BY <2>1 DEF Public
    <2>6. CheckedInv' BY <2>1, <2>2 DEF CheckedInv
    <2>7. ASSUME NEW g \in Files, Safe(g) PROVE Safe(g)'
      <3>1. CASE g = claim[p]
        <4>1. Public(g)' BY <2>3, <3>1
        <4>. QED BY <4>1 DEF Safe
      <3>2. CASE g # claim[p]
        <4>1. \A q \in Movers : claim[q] = g /\ pc[q] # "relinked" =>
                claim'[q] = g /\ pc'[q] # "relinked"
          BY <2>1, <3>2
        <4>. QED BY <2>1, <2>2, <2>7, <4>1 DEF Safe
      <3>. QED BY <3>1, <3>2
    <2>8. SafeInv' BY <2>1, <2>7 DEF SafeInv
    <2>. QED BY <2>4, <2>5, <2>6, <2>8
  <1>5. CASE RestoreUnlink(p)
    <2>1. /\ pc[p] = "relinked"
          /\ claim' = [claim EXCEPT ![p] = None]
          /\ pc' = [pc EXCEPT ![p] = "unstage"]
          /\ UNCHANGED <<mail, bytes, source, digest, live, unlinked, disposed>>
          /\ \A q \in Movers : sstat[q] = "mtime" => sstat'[q] = "mtime"
      BY <1>5 DEF RestoreUnlink, NewCtime
    <2>2. ClaimInv' BY <2>1
    <2>3. PlaceInv' BY <2>1 DEF Public
    <2>4. CheckedInv' BY <2>1 DEF CheckedInv, Public
    <2>5. ASSUME NEW g \in Files, Safe(g) PROVE Safe(g)'
      <3>1. \A q \in Movers : claim[q] = g /\ pc[q] # "relinked" =>
              claim'[q] = g /\ pc'[q] # "relinked"
        BY <2>1
      <3>. QED BY <2>1, <2>5, <3>1 DEF Safe, Public
    <2>6. SafeInv' BY <2>1, <2>5 DEF SafeInv
    <2>. QED BY <2>2, <2>3, <2>4, <2>6
  <1>6. CASE Retain(p) BY <1>6, QuietStep DEF Retain
  <1>7. CASE Unstage(p) BY <1>7, QuietStep DEF Unstage
  <1>8. CASE Remove(p) BY <1>8, QuietStep DEF Remove
  <1>9. CASE Return(p) BY <1>9, QuietStep DEF Return
  <1>10. CASE Kill(p) BY <1>10, QuietStep DEF Kill, Ended
  <1>. QED BY <1>1, <1>2, <1>3, <1>4, <1>5, <1>6, <1>7, <1>8, <1>9, <1>10 DEF Done

LEMMA EnvironmentLoss ==
    ASSUME TypeInv, LossInv, Client \/ \E d \in Dirs : Writeback(d)
    PROVE  LossInv'
  <1>. USE DEF TypeInv, TypeOK, Pinned, Named, LossInv, ClaimInv, PlaceInv, Prepare, Forward, Staged,
               Unclaimed, Verified, CopyChecked, Inodes, locals, history
  <1>1. ASSUME NEW n \in Names, NEW f \in Files, Deliver(n, f)
        PROVE  LossInv'
    <2>1. /\ mail[n] = None
          /\ mail' = [mail EXCEPT ![n] = f]
          /\ live' = live \cup {f}
          /\ UNCHANGED <<bytes, claim, pc, source, digest, sstat, unlinked, disposed>>
      BY <1>1 DEF Deliver
    <2>2. \A j \in Inodes : Public(j) => Public(j)'
      BY <2>1, PublicKept
    <2>3. Public(f)' BY <2>1 DEF Public
    <2>4. ClaimInv' BY <2>1
    <2>5. PlaceInv' BY <2>1 DEF Public
    <2>6. CheckedInv' BY <2>1, <2>2 DEF CheckedInv
    <2>7. ASSUME NEW g \in Files, Safe(g) PROVE Safe(g)'
      BY <2>1, <2>2, <2>7 DEF Safe
    <2>8. SafeInv'
      <3>1. Safe(f)' BY <2>3 DEF Safe
      <3>. QED BY <2>1, <2>7, <3>1 DEF SafeInv
    <2>. QED BY <2>4, <2>5, <2>6, <2>8
  <1>2. ASSUME NEW m \in Names, NEW n \in Names, ClientRename(m, n)
        PROVE  LossInv'
    <2>1. /\ mail[m] # None /\ mail[n] = None /\ m # n
          /\ DirOf[m] = DirOf[n]
          /\ UNCHANGED <<bytes, claim, pc, source, digest, live, unlinked, disposed>>
          /\ \A q \in Movers : sstat[q] = "mtime" => sstat'[q] = "mtime"
      BY <1>2 DEF ClientRename, NewCtime
    <2>2. \A k \in Names : mail'[k] = IF k = n THEN mail[m] ELSE IF k = m THEN None ELSE mail[k]
      BY <1>2, <2>1 DEF ClientRename
    <2>3. ASSUME NEW j \in Inodes PROVE Public(j)' <=> Public(j)
      <3>1. j # None OBVIOUS
      <3>2. ASSUME NEW k \in Names, mail[k] = j PROVE Public(j)'
        <4>1. CASE k = m BY <2>2, <3>2, <4>1 DEF Public
        <4>2. CASE k # m BY <2>1, <2>2, <3>1, <3>2, <4>2 DEF Public
        <4>. QED BY <4>1, <4>2
      <3>3. ASSUME NEW k \in Names, mail'[k] = j PROVE Public(j)
        BY <2>2, <3>1, <3>3 DEF Public
      <3>. QED BY <3>2, <3>3 DEF Public
    <2>4. ClaimInv' BY <2>1
    <2>5. PlaceInv'
      <3>1. ASSUME NEW k \in Names, mail'[k] \in Movers PROVE DirOf[k] = Dest[mail'[k]]
        <4>1. CASE k = n BY <2>1, <2>2, <3>1, <4>1
        <4>2. CASE k # n BY <2>2, <3>1, <4>2
        <4>. QED BY <4>1, <4>2
      <3>. QED BY <2>1, <2>3, <3>1
    <2>6. CheckedInv' BY <2>1, <2>3 DEF CheckedInv
    <2>7. ASSUME NEW g \in Files, Safe(g) PROVE Safe(g)'
      BY <2>1, <2>3, <2>7 DEF Safe
    <2>8. SafeInv' BY <2>1, <2>7 DEF SafeInv
    <2>. QED BY <2>4, <2>5, <2>6, <2>8
  <1>3. ASSUME NEW n \in Names, Delete(n)
        PROVE  LossInv'
    <2>. DEFINE i == mail[n]
    <2>1. /\ i \in Inodes
          /\ mail' = [mail EXCEPT ![n] = None]
          /\ disposed' = disposed \cup (IF i \in Movers THEN DisposedCopy(i) ELSE {i})
          /\ UNCHANGED <<bytes, claim, pc, source, digest, live, unlinked>>
          /\ \A q \in Movers : sstat[q] = "mtime" => sstat'[q] = "mtime"
      BY <1>3 DEF Delete, NewCtime
    <2>2. \A j \in Inodes \ {i} : Public(j) => Public(j)'
      BY <2>1 DEF Public
    <2>. HIDE DEF i
    <2>3. \A q \in Movers : q = i /\ CopyFinal(q) => source[q] \in disposed'
      BY <2>1 DEF DisposedCopy
    <2>4. ClaimInv' BY <2>1
    <2>5. PlaceInv' BY <2>1 DEF Public
    <2>6. CheckedInv' BY <2>1, <2>2, <2>3 DEF CheckedInv, CopyFinal
    <2>7. ASSUME NEW g \in Files \ disposed', Safe(g) PROVE Safe(g)'
      <3>1. g # i BY <2>1
      <3>2. \A q \in unlinked : source[q] = g => q # i BY <2>3 DEF CopyFinal
      <3>. QED BY <2>1, <2>2, <2>7, <3>1, <3>2 DEF Safe
    <2>8. SafeInv' BY <2>1, <2>7 DEF SafeInv
    <2>. QED BY <2>4, <2>5, <2>6, <2>8
  <1>4. ASSUME NEW f \in Files, NEW b \in Bytes, NEW noticed \in BOOLEAN,
               EditSource(f, b, noticed)
        PROVE  LossInv'
    <2>1. /\ Public(f) \/ \E q \in Movers : claim[q] = f
          /\ bytes' = [bytes EXCEPT ![f] = b]
          /\ \A q \in Movers : sstat'[q] = IF source[q] = f /\ noticed THEN "mtime" ELSE sstat[q]
          /\ disposed \subseteq disposed'
          /\ \A q \in Movers : source[q] = f /\ SourceFinal(q, noticed) => f \in disposed'
          /\ UNCHANGED <<mail, claim, pc, source, digest, live, unlinked>>
      BY <1>4 DEF EditSource
    <2>2. \A j \in Inodes \ {f} : bytes'[j] = bytes[j] BY <2>1
    <2>3. ClaimInv' BY <2>1
    <2>4. PlaceInv' BY <2>1 DEF Public
    <2>5. CheckedInv'
      <3>. SUFFICES ASSUME NEW q \in Movers, source[q] \notin disposed'
                    PROVE  /\ pc[q] \in CopyChecked => Public(q) /\ bytes'[q] = digest[q]
                           /\ pc[q] = "final_stat" =>
                                sstat'[q] = "mtime" \/ bytes'[source[q]] = digest[q]
                           /\ pc[q] = "unlink" => bytes'[source[q]] = digest[q]
        BY <2>1 DEF CheckedInv, Public
      <3>1. bytes'[q] = bytes[q] BY <2>2, Distinct
      <3>2. pc[q] = "unlink" => source[q] # f BY <2>1 DEF SourceFinal
      <3>3. pc[q] = "final_stat" => source[q] # f \/ sstat'[q] = "mtime"
        BY <2>1 DEF SourceFinal
      <3>. QED BY <2>1, <2>2, <3>1, <3>2, <3>3 DEF CheckedInv
    <2>6. ASSUME NEW g \in Files \ disposed', Safe(g) PROVE Safe(g)'
      <3>1. CASE g # f
        <4>1. bytes'[g] = bytes[g] /\ \A q \in Movers : bytes'[q] = bytes[q]
          BY <2>2, <3>1, Distinct, ZenonT(60)
        <4>. QED BY <2>1, <2>6, <4>1, ZenonT(60) DEF Safe, Public
      <3>2. CASE g = f
        <4>1. \A q \in unlinked : source[q] # f BY <2>1, <3>2 DEF SourceFinal
        <4>. QED BY <2>1, <2>6, <3>2, <4>1 DEF Safe, Public
      <3>. QED BY <3>1, <3>2
    <2>7. SafeInv' BY <2>1, <2>6 DEF SafeInv
    <2>. QED BY <2>3, <2>4, <2>5, <2>7
  <1>5. ASSUME NEW p \in Movers, NEW b \in Bytes, NEW noticed \in BOOLEAN,
               EditCopy(p, b, noticed)
        PROVE  LossInv'
    <2>1. /\ bytes' = [bytes EXCEPT ![p] = b]
          /\ disposed' = disposed \cup DisposedCopy(p)
          /\ UNCHANGED <<mail, claim, pc, source, digest, sstat, live, unlinked>>
      BY <1>5 DEF EditCopy
    <2>2. \A j \in Inodes \ {p} : bytes'[j] = bytes[j] BY <2>1
    <2>3. CopyFinal(p) => source[p] \in disposed' BY <2>1 DEF DisposedCopy
    <2>4. ClaimInv' BY <2>1
    <2>5. PlaceInv' BY <2>1 DEF Public
    <2>6. CheckedInv'
      <3>. SUFFICES ASSUME NEW q \in Movers, source[q] \notin disposed', pc[q] \in CopyChecked
                    PROVE  bytes'[q] = bytes[q] /\ bytes'[source[q]] = bytes[source[q]]
        BY <2>1 DEF CheckedInv, Public
      <3>1. source[q] \in Files OBVIOUS
      <3>. QED BY <2>2, <2>3, <3>1, Distinct, ZenonT(60) DEF CopyFinal
    <2>7. ASSUME NEW g \in Files \ disposed', Safe(g) PROVE Safe(g)'
      <3>1. bytes'[g] = bytes[g]
        <4>1. g \in Inodes \ {p} BY Distinct
        <4>. QED BY <2>2, <4>1
      <3>2. \A q \in unlinked : source[q] = g => bytes'[q] = bytes[q]
        BY <2>2, <2>3 DEF CopyFinal
      <3>. QED BY <2>1, <2>7, <3>1, <3>2 DEF Safe, Public
    <2>8. SafeInv' BY <2>1, <2>7 DEF SafeInv
    <2>. QED BY <2>4, <2>5, <2>6, <2>8
  <1>6. ASSUME NEW d \in Dirs, Writeback(d)
        PROVE  LossInv'
    BY <1>6 DEF Writeback, CheckedInv, SafeInv, Safe, Public
  <1>. HIDE DEF LossInv
  <1>. QED BY <1>1, <1>2, <1>3, <1>4, <1>5, <1>6 DEF Client

LEMMA NextLoss == TypeInv /\ LossInv /\ [Next]_vars => LossInv'
  <1>. SUFFICES ASSUME TypeInv, LossInv, [Next]_vars PROVE LossInv'
    OBVIOUS
  <1>1. CASE \E p \in Movers : Step(p) \/ Kill(p)
    BY <1>1, StagingLoss, ClaimingLoss, DoneLoss DEF Step
  <1>2. CASE Client \/ \E d \in Dirs : Writeback(d)
    BY <1>2, EnvironmentLoss
  <1>3. CASE UNCHANGED vars
    BY <1>3 DEF vars, fs, locals, history, LossInv, ClaimInv, PlaceInv, CheckedInv, SafeInv,
                Safe, Public
  <1>. QED BY <1>1, <1>2, <1>3 DEF Next, AllEnded

\* jf_storage_move loses no message, whatever number of movers, clients, failures
\* and kills interleave with it.
THEOREM NeverLost == Spec => []NoLoss
  <1>1. TypeInv /\ LossInv => NoLoss
    BY DEF LossInv, SafeInv, Safe, NoLoss, Copied, TypeInv, TypeOK
  <1>. QED BY <1>1, InitType, InitLoss, NextType, NextLoss, PTL DEF Spec

\* Neither publication nor rollback of jf_storage_move ever replaces the entry of
\* an occupied public name.
THEOREM NeverReplaced == Spec => NoClobber
  <1>. DEFINE Kept == \A n \in Names : mail[n] # None => mail'[n] \in {mail[n], None}
  <1>1. TypeInv /\ [Next]_vars => [Kept]_vars
    <2>. SUFFICES ASSUME TypeInv, Next PROVE Kept
      OBVIOUS
    <2>. USE DEF TypeInv, TypeOK, fs
    <2>1. ASSUME NEW p \in Movers, Staging(p) PROVE Kept
      <3>1. CASE Publish(p) BY <3>1 DEF Publish
      <3>2. CASE ~Publish(p)
        BY <2>1, <3>2 DEF Staging, Open, ReadHeaders, Begin, StageDir, StageFile, CopyHeader,
             CopyBody, PrePublish, SyncPublished, CleanupStage, RemoveStage
      <3>. QED BY <3>1, <3>2
    <2>2. ASSUME NEW p \in Movers, Claiming(p) PROVE Kept
      BY <2>2 DEF Claiming, ClaimDir, PreClaim, Claim, VerifyClaim, SyncClaim,
           FinalDestination, FinalSource, FinalStat, Unlink, RemoveClaim, Close
    <2>3. ASSUME NEW p \in Movers, Done(p) \/ Kill(p) PROVE Kept
      <3>1. CASE RestoreRename(p) \/ RestoreLink(p)
        BY <3>1 DEF RestoreRename, RestoreLink, MayRestore
      <3>2. CASE ~(RestoreRename(p) \/ RestoreLink(p))
        BY <2>3, <3>2 DEF Done, Kill, Fail, NothingToRestore, RestoreUnlink, Retain, Unstage,
             Remove, Return
      <3>. QED BY <3>1, <3>2
    <2>4. ASSUME Client PROVE Kept
      <3>1. ASSUME NEW m \in Names, NEW n \in Names, ClientRename(m, n) PROVE Kept
        BY <3>1 DEF ClientRename
      <3>. QED BY <2>4, <3>1 DEF Client, Deliver, Delete, EditSource, EditCopy
    <2>5. ASSUME NEW d \in Dirs, Writeback(d) PROVE Kept
      BY <2>5 DEF Writeback
    <2>6. ASSUME UNCHANGED vars PROVE Kept
      BY <2>6 DEF vars
    <2>. HIDE DEF TypeInv, TypeOK, fs, Kept
    <2>. QED BY <2>1, <2>2, <2>3, <2>4, <2>5, <2>6 DEF Next, Step, AllEnded
  <1>. QED BY <1>1, InitType, NextType, PTL DEF Spec, NoClobber

-----------------------------------------------------------------------------
(***************************************************************************)
(* MovedOnce needs to know where a file can be: under one public name, or  *)
(* in the claim of one mover that may still put it back or unlink it.  A   *)
(* mover past that point may hold a second link, of a rollback by linkat,  *)
(* which it never makes public again.                                      *)
(***************************************************************************)
Past == {"remove_claim", "close"} \cup Cleanup \cup Ended

Active(p) == pc[p] \notin {"relinked", "unstage", "remove", "return"} \cup Ended

OneSpot(f) ==
    /\ \A m, n \in Names : mail[m] = f /\ mail[n] = f => n = m
    /\ \A p \in Movers : Active(p) /\ claim[p] = f =>
         ~Public(f) /\ \A q \in Movers : Active(q) /\ claim[q] = f => q = p
    /\ \A p \in unlinked : source[p] = f =>
         /\ ~Public(f) /\ \A q \in Movers : Active(q) => claim[q] # f
         /\ \A q \in unlinked : source[q] = f => q = p

SpotInv == \A f \in Files : OneSpot(f)

UnlinkedInv ==
    \A p \in Movers :
        /\ p \in unlinked => pc[p] \in Past
        /\ pc[p] \in {"remove_claim", "close", "moved"} => p \in unlinked

\* What is anywhere was delivered.
LiveInv ==
    /\ \A n \in Names : mail[n] \in Files => mail[n] \in live
    /\ \A p \in Movers : claim[p] \in Files => claim[p] \in live
    /\ \A p \in Movers : source[p] \in Files => source[p] \in live
    /\ disposed \subseteq live

\* A moved message has its complete copy, until a client acts on it.
SettledInv ==
    \A p \in unlinked : source[p] \notin disposed => Public(p) /\ bytes[p] = bytes[source[p]]

OnceInv == SpotInv /\ UnlinkedInv /\ LiveInv /\ SettledInv

\* A step of mover p that leaves the namespace alone.
Quiet(p) ==
    /\ UNCHANGED <<mail, claim, live, unlinked, disposed>>
    /\ \A q \in Movers \ {p} : pc'[q] = pc[q] /\ source'[q] = source[q]
    /\ \A i \in Inodes \ {p} : bytes'[i] = bytes[i]
    /\ ~Active(p) => ~Active(p)'
    /\ pc[p] \in Past => pc'[p] \in Past /\ source'[p] = source[p] /\ bytes'[p] = bytes[p]
    /\ pc'[p] \in {"remove_claim", "close", "moved"} => pc[p] \in {"remove_claim", "close"}
    /\ source'[p] = source[p] \/ source'[p] = mail[Src[p]]

\* A publication that succeeds.
Published(p) ==
    /\ pc[p] = "publish"
    /\ \E n \in Names :
         /\ DirOf[n] = Dest[p] /\ mail[n] = None
         /\ mail' = [mail EXCEPT ![n] = p]
    /\ pc' = [pc EXCEPT ![p] = "sync_published"]
    /\ UNCHANGED <<claim, dmail, dclaim, flushed, bytes, source, live, unlinked, disposed>>

LEMMA StagingQuiet ==
    ASSUME TypeInv, NEW p \in Movers, Staging(p)
    PROVE  Quiet(p) \/ Published(p)
  <1>. USE DEF TypeInv, TypeOK, Quiet, Active, Past, Cleanup, Ended, Goto, Inodes, fs, history
  <1>1. CASE Open(p) BY <1>1 DEF Open
  <1>2. CASE ReadHeaders(p) BY <1>2 DEF ReadHeaders
  <1>3. CASE Begin(p) BY <1>3 DEF Begin
  <1>4. CASE StageDir(p) BY <1>4 DEF StageDir
  <1>5. CASE StageFile(p) BY <1>5 DEF StageFile
  <1>6. CASE CopyHeader(p) BY <1>6 DEF CopyHeader
  <1>7. CASE CopyBody(p) BY <1>7 DEF CopyBody
  <1>8. CASE PrePublish(p) BY <1>8 DEF PrePublish
  <1>9. CASE Publish(p)
    <2>. DEFINE n == Candidate[p][attempt[p]]
    <2>1. CASE mail[n] # None
      <3>1. PICK l \in {"publish", "restore"} : pc' = [pc EXCEPT ![p] = l]
        BY <1>9, <2>1 DEF Publish, AfterCollision
      <3>. QED BY <1>9, <2>1, <3>1 DEF Publish
    <2>2. CASE mail[n] = None
      <3>1. n \in Names /\ DirOf[n] = Dest[p] BY <1>9 DEF Publish
      <3>. QED BY <1>9, <2>2, <3>1 DEF Publish, Published
    <2>. QED BY <2>1, <2>2
  <1>10. CASE SyncPublished(p) BY <1>10 DEF SyncPublished
  <1>11. CASE CleanupStage(p) BY <1>11 DEF CleanupStage
  <1>12. CASE RemoveStage(p) BY <1>12 DEF RemoveStage
  <1>. QED BY <1>1, <1>2, <1>3, <1>4, <1>5, <1>6, <1>7, <1>8, <1>9, <1>10, <1>11, <1>12
           DEF Staging

LEMMA ClaimingQuiet ==
    ASSUME TypeInv, NEW p \in Movers, Claiming(p)
    PROVE  Quiet(p) \/ Claim(p) \/ Unlink(p)
  <1>. USE DEF TypeInv, TypeOK, Quiet, Active, Past, Cleanup, Ended, Goto, Inodes, fs, history
  <1>1. CASE ClaimDir(p) BY <1>1 DEF ClaimDir
  <1>2. CASE PreClaim(p) BY <1>2 DEF PreClaim
  <1>3. CASE VerifyClaim(p) BY <1>3 DEF VerifyClaim
  <1>4. CASE SyncClaim(p) BY <1>4 DEF SyncClaim
  <1>5. CASE FinalDestination(p) BY <1>5 DEF FinalDestination
  <1>6. CASE FinalSource(p) BY <1>6 DEF FinalSource
  <1>7. CASE FinalStat(p) BY <1>7 DEF FinalStat
  <1>8. CASE RemoveClaim(p) BY <1>8 DEF RemoveClaim
  <1>9. CASE Close(p) BY <1>9 DEF Close
  <1>. QED BY <1>1, <1>2, <1>3, <1>4, <1>5, <1>6, <1>7, <1>8, <1>9 DEF Claiming

LEMMA DoneQuiet ==
    ASSUME TypeInv, NEW p \in Movers, Done(p) \/ Kill(p)
    PROVE  Quiet(p) \/ RestoreRename(p) \/ RestoreLink(p) \/ RestoreUnlink(p)
  <1>. USE DEF TypeInv, TypeOK, Quiet, Active, Past, Prepare, Forward, Cleanup, Ended, Goto, Inodes, fs, history
  <1>1. CASE Fail(p) BY <1>1 DEF Fail
  <1>2. CASE NothingToRestore(p) BY <1>2 DEF NothingToRestore
  <1>3. CASE Retain(p) BY <1>3 DEF Retain
  <1>4. CASE Unstage(p) BY <1>4 DEF Unstage
  <1>5. CASE Remove(p) BY <1>5 DEF Remove
  <1>6. CASE Return(p) BY <1>6 DEF Return
  <1>7. CASE Kill(p) BY <1>7 DEF Kill
  <1>. QED BY <1>1, <1>2, <1>3, <1>4, <1>5, <1>6, <1>7 DEF Done

\* The kinds of steps that the proofs below tell apart.
LEMMA StepKinds ==
    ASSUME TypeInv, [Next]_vars
    PROVE  \/ UNCHANGED <<mail, claim, live, unlinked, disposed, pc, source, bytes>>
           \/ \E p \in Movers : \/ Quiet(p) \/ Published(p) \/ Claim(p) \/ Unlink(p)
                                \/ RestoreRename(p) \/ RestoreLink(p) \/ RestoreUnlink(p)
           \/ Client
  <1>1. CASE \E p \in Movers : Step(p) \/ Kill(p)
    BY <1>1, StagingQuiet, ClaimingQuiet, DoneQuiet DEF Step
  <1>2. CASE \E d \in Dirs : Writeback(d) BY <1>2 DEF Writeback, locals, history
  <1>3. CASE UNCHANGED vars BY <1>3 DEF vars, fs, locals, history
  <1>. QED BY <1>1, <1>2, <1>3 DEF Next, AllEnded

LEMMA InitOnce == Init => OnceInv
  <1>. SUFFICES ASSUME Init PROVE OnceInv
    OBVIOUS
  <1>1. SpotInv BY DEF Init, SpotInv, OneSpot
  <1>2. UnlinkedInv BY DEF Init, UnlinkedInv
  <1>3. LiveInv BY DEF Init, LiveInv
  <1>4. SettledInv BY DEF Init, SettledInv
  <1>. QED BY <1>1, <1>2, <1>3, <1>4 DEF OnceInv

LEMMA QuietOnce ==
    ASSUME TypeInv, LossInv, OnceInv, NEW p \in Movers, Quiet(p)
    PROVE  OnceInv'
  <1>. USE DEF OnceInv, TypeInv, TypeOK
  <1>1. \A q \in Movers : Active(q)' => Active(q) BY DEF Quiet, Active
  <1>2. \A q \in unlinked : source'[q] = source[q] /\ bytes'[q] = bytes[q]
    BY DEF Quiet, UnlinkedInv, Inodes
  <1>3. SpotInv' BY <1>1, <1>2 DEF Quiet, SpotInv, OneSpot, Public
  <1>4. UnlinkedInv'
    BY DEF Quiet, UnlinkedInv
  <1>5. LiveInv'
    <2>1. Src[p] \in Names OBVIOUS
    <2>2. source'[p] \in Files => source'[p] \in live BY <2>1 DEF Quiet, LiveInv
    <2>. QED BY <2>2 DEF Quiet, LiveInv
  <1>6. SettledInv'
    <2>1. ASSUME NEW q \in unlinked PROVE bytes'[source[q]] = bytes[source[q]]
      <3>1. source[q] \in Files BY DEF Pinned
      <3>2. source[q] \in Inodes \ {p} BY <3>1, Distinct DEF Inodes
      <3>. QED BY <3>2 DEF Quiet
    <2>. QED BY <1>2, <2>1 DEF Quiet, SettledInv, Public
  <1>. QED BY <1>3, <1>4, <1>5, <1>6

LEMMA PublishedOnce ==
    ASSUME TypeInv, LossInv, OnceInv, NEW p \in Movers, Published(p)
    PROVE  OnceInv'
  <1>. USE DEF OnceInv, TypeInv, TypeOK, Published, Inodes
  <1>1. PICK n \in Names : mail[n] = None /\ mail' = [mail EXCEPT ![n] = p] OBVIOUS
  <1>2. ASSUME NEW f \in Files, NEW k \in Names PROVE mail'[k] = f <=> mail[k] = f
    BY <1>1, Distinct
  <1>3. \A q \in Movers : Active(q)' <=> Active(q) BY DEF Active, Ended
  <1>4. SpotInv' BY <1>2, <1>3 DEF SpotInv, OneSpot, Public
  <1>5. UnlinkedInv' BY DEF UnlinkedInv, Past, Cleanup, Ended
  <1>6. LiveInv' BY <1>1, Distinct DEF LiveInv
  <1>7. SettledInv'
    <2>1. \A q \in Movers : Public(q) => Public(q)' BY <1>1, PublicKept
    <2>. QED BY <2>1 DEF SettledInv
  <1>. QED BY <1>4, <1>5, <1>6, <1>7

LEMMA ClaimOnce ==
    ASSUME TypeInv, LossInv, OnceInv, NEW p \in Movers, Claim(p)
    PROVE  OnceInv'
  <1>. USE DEF OnceInv, TypeInv, TypeOK, Inodes
  <1>1. PICK f : f = mail[Src[p]] OBVIOUS
  <1>2. Src[p] \in Names /\ f \in Files
    BY <1>1, SourcesAssumption DEF Claim, LossInv, PlaceInv, Forward
  <1>3. /\ mail' = [mail EXCEPT ![Src[p]] = None]
        /\ claim' = [claim EXCEPT ![p] = f]
        /\ pc' = [pc EXCEPT ![p] = "verify_claim"] /\ pc[p] = "claim"
        /\ UNCHANGED <<bytes, source, live, unlinked, disposed>>
    BY <1>1 DEF Claim, Goto, history
  <1>4. Public(f) BY <1>1, <1>2 DEF Public
  <1>5. ~Public(f)' BY <1>1, <1>2, <1>3 DEF Public, SpotInv, OneSpot
  <1>6. \A i \in Inodes \ {f} : Public(i)' <=> Public(i) BY <1>1, <1>2, <1>3 DEF Public
  <1>7. \A q \in Movers : Active(q)' <=> Active(q) BY <1>3 DEF Active, Ended
  <1>8. SpotInv'
    <2>1. OneSpot(f)'
      <3>1. \A q \in Movers : Active(q) => claim[q] # f BY <1>2, <1>4 DEF SpotInv, OneSpot
      <3>2. \A q \in unlinked : source[q] # f BY <1>2, <1>4 DEF SpotInv, OneSpot
      <3>3. \A k \in Names : mail'[k] # f BY <1>5 DEF Public
      <3>. QED BY <1>3, <1>5, <1>7, <3>1, <3>2, <3>3 DEF OneSpot
    <2>2. ASSUME NEW g \in Files \ {f} PROVE OneSpot(g)'
      <3>1. \A k \in Names : mail'[k] = g => mail[k] = g BY <1>3
      <3>2. \A q \in Movers : claim'[q] = g => claim[q] = g BY <1>3
      <3>. QED BY <1>3, <1>6, <1>7, <3>1, <3>2 DEF SpotInv, OneSpot
    <2>. QED BY <2>1, <2>2 DEF SpotInv
  <1>9. UnlinkedInv' BY <1>3 DEF UnlinkedInv, Past, Cleanup, Ended
  <1>10. LiveInv'
    <2>1. f \in live BY <1>1, <1>2 DEF LiveInv
    <2>. QED BY <1>2, <1>3, <2>1 DEF LiveInv
  <1>11. SettledInv'
    <2>1. \A q \in Movers : Public(q) => Public(q)' BY <1>2, <1>6, Distinct
    <2>. QED BY <1>3, <2>1 DEF SettledInv
  <1>. QED BY <1>8, <1>9, <1>10, <1>11

LEMMA UnlinkOnce ==
    ASSUME TypeInv, LossInv, OnceInv, NEW p \in Movers, Unlink(p)
    PROVE  OnceInv'
  <1>. USE DEF OnceInv, TypeInv, TypeOK, Inodes
  <1>1. PICK f : f = source[p] OBVIOUS
  <1>2. f \in Files /\ claim[p] = f /\ Active(p) /\ p \notin unlinked
    BY <1>1 DEF Unlink, Pinned, Forward, LossInv, ClaimInv, Verified, Active, UnlinkedInv, Past, Cleanup, Ended
  <1>3. /\ claim' = [claim EXCEPT ![p] = None]
        /\ pc' = [pc EXCEPT ![p] = "remove_claim"] /\ pc[p] = "unlink"
        /\ unlinked' = unlinked \cup {p}
        /\ UNCHANGED <<mail, bytes, source, live, disposed>>
    BY DEF Unlink, Goto
  <1>4. \A q \in Movers : Active(q)' <=> Active(q) BY <1>3 DEF Active, Ended
  <1>5. \A i \in Inodes : Public(i)' <=> Public(i) BY <1>3 DEF Public
  <1>6. SpotInv'
    <2>1. OneSpot(f)'
      <3>1. ~Public(f) /\ \A q \in Movers : Active(q) /\ claim[q] = f => q = p
        BY <1>2 DEF SpotInv, OneSpot
      <3>2. \A q \in unlinked : source[q] # f BY <1>2 DEF SpotInv, OneSpot
      <3>3. \A q \in Movers : Active(q)' => claim'[q] # f BY <1>2, <1>3, <1>4, <3>1
      <3>4. ~Public(f)' BY <1>2, <1>5, <3>1
      <3>5. \A k \in Names : mail'[k] # f BY <3>4 DEF Public
      <3>. QED BY <1>3, <3>2, <3>3, <3>4, <3>5 DEF OneSpot
    <2>2. ASSUME NEW g \in Files \ {f} PROVE OneSpot(g)'
      <3>1. \A q \in Movers : claim'[q] = g => claim[q] = g BY <1>3
      <3>2. \A q \in unlinked' : source[q] = g => q \in unlinked BY <1>1, <1>3
      <3>. QED BY <1>3, <1>4, <1>5, <3>1, <3>2 DEF SpotInv, OneSpot
    <2>. QED BY <2>1, <2>2 DEF SpotInv
  <1>7. UnlinkedInv' BY <1>3 DEF UnlinkedInv, Past
  <1>8. LiveInv' BY <1>3 DEF LiveInv
  <1>9. SettledInv'
    <2>1. f \notin disposed => Public(p) /\ bytes[p] = bytes[f]
      BY <1>1, <1>3 DEF LossInv, CheckedInv, CopyChecked
    <2>. QED BY <1>1, <1>3, <1>5, <2>1 DEF SettledInv
  <1>. QED BY <1>6, <1>7, <1>8, <1>9

LEMMA RestoreOnce ==
    ASSUME TypeInv, LossInv, OnceInv, NEW p \in Movers, RestoreRename(p) \/ RestoreLink(p)
    PROVE  OnceInv'
  <1>. USE DEF OnceInv, TypeInv, TypeOK, Inodes
  <1>1. PICK f : f = claim[p] OBVIOUS
  <1>2. /\ pc[p] = "restore" /\ Src[p] \in Names /\ mail[Src[p]] = None
        /\ mail' = [mail EXCEPT ![Src[p]] = f]
        /\ claim' = claim \/ claim' = [claim EXCEPT ![p] = None]
        /\ \E l \in {"unstage", "relinked"} : pc' = [pc EXCEPT ![p] = l]
        /\ UNCHANGED <<bytes, source, live, unlinked, disposed>>
    BY <1>1 DEF RestoreRename, RestoreLink, MayRestore, Goto, history
  <1>3. f \in Files \cup {None} BY <1>1 DEF LossInv, ClaimInv
  <1>4. Active(p) /\ ~Active(p)' /\ \A q \in Movers \ {p} : Active(q)' <=> Active(q)
    BY <1>2 DEF Active, Ended
  <1>5. \A i \in Inodes \ {f} : Public(i)' <=> Public(i) BY <1>2, <1>3 DEF Public
  <1>6. SpotInv'
    <2>1. CASE f \in Files
      <3>1. ~Public(f) /\ (\A q \in Movers : Active(q) /\ claim[q] = f => q = p)
            /\ \A q \in unlinked : source[q] # f
        BY <1>1, <1>4, <2>1 DEF SpotInv, OneSpot
      <3>2. \A k \in Names : mail'[k] = f => k = Src[p] BY <1>2, <3>1 DEF Public
      <3>3. \A q \in Movers : Active(q)' => claim'[q] # f BY <1>2, <1>4, <2>1, <3>1, ZenonT(60)
      <3>4. OneSpot(f)' BY <1>2, <3>1, <3>2, <3>3 DEF OneSpot
      <3>5. ASSUME NEW g \in Files \ {f} PROVE OneSpot(g)'
        <4>1. \A k \in Names : mail'[k] = g => mail[k] = g BY <1>2
        <4>2. \A q \in Movers : Active(q)' => Active(q) /\ claim'[q] = claim[q] BY <1>2, <1>4
        <4>. QED BY <1>2, <1>5, <4>1, <4>2 DEF SpotInv, OneSpot
      <3>. QED BY <3>4, <3>5 DEF SpotInv
    <2>2. CASE f = None
      <3>1. \A k \in Names, g \in Files : mail'[k] = g => mail[k] = g BY <1>2, <2>2
      <3>2. \A q \in Movers : Active(q)' => Active(q) /\ claim'[q] = claim[q] BY <1>2, <1>4
      <3>. QED BY <1>2, <1>5, <2>2, <3>1, <3>2 DEF SpotInv, OneSpot
    <2>. QED BY <1>3, <2>1, <2>2
  <1>7. UnlinkedInv' BY <1>2 DEF UnlinkedInv, Past, Cleanup
  <1>8. LiveInv'
    <2>1. f \in Files => f \in live BY <1>1 DEF LiveInv
    <2>2. \A k \in Names : mail'[k] \in Files => mail'[k] \in live
      BY <1>2, <2>1 DEF LiveInv
    <2>3. \A q \in Movers : claim'[q] \in Files => claim'[q] = claim[q] BY <1>2
    <2>. QED BY <1>2, <2>2, <2>3 DEF LiveInv
  <1>9. SettledInv'
    <2>1. \A q \in Movers : Public(q) => Public(q)' BY <1>2, PublicKept
    <2>. QED BY <1>2, <2>1 DEF SettledInv
  <1>. QED BY <1>6, <1>7, <1>8, <1>9

LEMMA RestoreUnlinkOnce ==
    ASSUME TypeInv, LossInv, OnceInv, NEW p \in Movers, RestoreUnlink(p)
    PROVE  OnceInv'
  <1>. USE DEF OnceInv, TypeInv, TypeOK, Inodes
  <1>1. /\ pc[p] = "relinked"
        /\ claim' = [claim EXCEPT ![p] = None]
        /\ pc' = [pc EXCEPT ![p] = "unstage"]
        /\ UNCHANGED <<mail, bytes, source, live, unlinked, disposed>>
    BY DEF RestoreUnlink, Goto, history
  <1>2. \A q \in Movers : Active(q)' => Active(q) /\ claim'[q] = claim[q]
    BY <1>1 DEF Active
  <1>3. SpotInv' BY <1>1, <1>2 DEF SpotInv, OneSpot, Public
  <1>4. UnlinkedInv' BY <1>1 DEF UnlinkedInv, Past, Cleanup
  <1>5. LiveInv' BY <1>1 DEF LiveInv
  <1>6. SettledInv' BY <1>1 DEF SettledInv, Public
  <1>. QED BY <1>3, <1>4, <1>5, <1>6

LEMMA ClientOnce ==
    ASSUME TypeInv, LossInv, OnceInv, Client
    PROVE  OnceInv'
  <1>. USE DEF OnceInv, TypeInv, TypeOK, Inodes, locals, Active
  <1>1. ASSUME NEW n \in Names, NEW f \in Files, Deliver(n, f)
        PROVE  OnceInv'
    <2>1. /\ f \notin live /\ mail[n] = None
          /\ mail' = [mail EXCEPT ![n] = f]
          /\ live' = live \cup {f}
          /\ UNCHANGED <<bytes, claim, pc, source, unlinked, disposed>>
      BY <1>1 DEF Deliver
    <2>2. \A j \in Inodes : Public(j) => Public(j)' BY <2>1, PublicKept
    <2>3. \A g \in Files \ {f} : Public(g)' => Public(g) BY <2>1 DEF Public
    <2>4. SpotInv'
      <3>1. (\A k \in Names : mail[k] # f) /\ (\A q \in Movers : claim[q] # f /\ source[q] # f)
        BY <2>1 DEF LiveInv
      <3>2. OneSpot(f)' BY <2>1, <3>1 DEF OneSpot
      <3>3. ASSUME NEW g \in Files \ {f} PROVE OneSpot(g)'
        <4>1. \A k \in Names : mail'[k] = g => mail[k] = g BY <2>1
        <4>. QED BY <2>1, <2>3, <4>1 DEF SpotInv, OneSpot
      <3>. QED BY <3>2, <3>3 DEF SpotInv
    <2>5. UnlinkedInv' BY <2>1 DEF UnlinkedInv
    <2>6. LiveInv' BY <2>1 DEF LiveInv
    <2>7. SettledInv' BY <2>1, <2>2 DEF SettledInv
    <2>. QED BY <2>4, <2>5, <2>6, <2>7
  <1>2. ASSUME NEW m \in Names, NEW n \in Names, ClientRename(m, n)
        PROVE  OnceInv'
    <2>1. /\ mail[m] # None /\ mail[n] = None /\ m # n
          /\ UNCHANGED <<bytes, claim, pc, source, live, unlinked, disposed>>
      BY <1>2 DEF ClientRename
    <2>2. \A k \in Names : mail'[k] = IF k = n THEN mail[m] ELSE IF k = m THEN None ELSE mail[k]
      BY <1>2, <2>1 DEF ClientRename
    <2>3. ASSUME NEW j \in Inodes PROVE Public(j)' <=> Public(j)
      <3>1. j # None OBVIOUS
      <3>2. ASSUME NEW k \in Names, mail[k] = j PROVE Public(j)'
        <4>1. CASE k = m BY <2>2, <3>2, <4>1 DEF Public
        <4>2. CASE k # m BY <2>1, <2>2, <3>1, <3>2, <4>2 DEF Public
        <4>. QED BY <4>1, <4>2
      <3>3. ASSUME NEW k \in Names, mail'[k] = j PROVE Public(j)
        BY <2>2, <3>1, <3>3 DEF Public
      <3>. QED BY <3>2, <3>3 DEF Public
    <2>4. SpotInv'
      <3>1. ASSUME NEW f \in Files, NEW j \in Names, NEW k \in Names, mail'[j] = f, mail'[k] = f
            PROVE  k = j
        <4>1. \A i \in Names : mail'[i] = f => IF i = n THEN mail[m] = f ELSE i # m /\ mail[i] = f
          BY <2>2
        <4>2. \A x, y \in Names : mail[x] = f /\ mail[y] = f => x = y BY DEF SpotInv, OneSpot
        <4>. QED BY <3>1, <4>1, <4>2
      <3>. QED BY <2>1, <2>3, <3>1 DEF SpotInv, OneSpot
    <2>5. UnlinkedInv' BY <2>1 DEF UnlinkedInv
    <2>6. LiveInv'
      <3>1. ASSUME NEW k \in Names, mail'[k] \in Files PROVE mail'[k] \in live
        <4>1. \E i \in Names : mail'[k] = mail[i] BY <2>2, <3>1
        <4>. QED BY <3>1, <4>1 DEF LiveInv
      <3>. QED BY <2>1, <3>1 DEF LiveInv
    <2>7. SettledInv' BY <2>1, <2>3 DEF SettledInv
    <2>. QED BY <2>4, <2>5, <2>6, <2>7
  <1>3. ASSUME NEW n \in Names, Delete(n)
        PROVE  OnceInv'
    <2>1. PICK i \in Inodes : i = mail[n] BY <1>3 DEF Delete
    <2>2. /\ mail' = [mail EXCEPT ![n] = None]
          /\ disposed' = disposed \cup (IF i \in Movers THEN DisposedCopy(i) ELSE {i})
          /\ UNCHANGED <<bytes, claim, pc, source, live, unlinked>>
      BY <1>3, <2>1 DEF Delete
    <2>3. \A j \in Inodes : Public(j)' => Public(j) BY <2>2 DEF Public
    <2>4. \A j \in Inodes \ {i} : Public(j) => Public(j)' BY <2>1, <2>2 DEF Public
    <2>5. SpotInv'
      <3>1. \A k \in Names, g \in Files : mail'[k] = g => mail[k] = g BY <2>2
      <3>. QED BY <2>2, <2>3, <3>1 DEF SpotInv, OneSpot
    <2>6. UnlinkedInv' BY <2>2 DEF UnlinkedInv
    <2>7. disposed' \subseteq live
      <3>1. CASE i \in Movers
        <4>1. DisposedCopy(i) \subseteq live
          BY <3>1 DEF DisposedCopy, CopyFinal, Pinned, Forward, LiveInv
        <4>. QED BY <2>2, <3>1, <4>1 DEF LiveInv
      <3>2. CASE i \notin Movers BY <2>1, <2>2, <3>2 DEF LiveInv
      <3>. QED BY <3>1, <3>2
    <2>8. LiveInv'
      <3>1. \A k \in Names : mail'[k] \in Files => mail[k] = mail'[k] BY <2>2
      <3>. QED BY <2>2, <2>7, <3>1 DEF LiveInv
    <2>9. SettledInv'
      <3>1. \A q \in unlinked : q = i => source[q] \in disposed'
        BY <2>2 DEF DisposedCopy, CopyFinal
      <3>. QED BY <2>2, <2>4, <3>1 DEF SettledInv
    <2>. QED BY <2>5, <2>6, <2>8, <2>9
  <1>4. ASSUME NEW f \in Files, NEW b \in Bytes, NEW noticed \in BOOLEAN,
               EditSource(f, b, noticed)
        PROVE  OnceInv'
    <2>1. /\ Public(f) \/ \E q \in Movers : claim[q] = f
          /\ bytes' = [bytes EXCEPT ![f] = b]
          /\ disposed' \subseteq disposed \cup {f} /\ disposed \subseteq disposed'
          /\ \A q \in Movers : source[q] = f /\ q \in unlinked => f \in disposed'
          /\ UNCHANGED <<mail, claim, pc, source, live, unlinked>>
      BY <1>4 DEF EditSource, SourceFinal
    <2>2. SpotInv' BY <2>1 DEF SpotInv, OneSpot, Public
    <2>3. UnlinkedInv' BY <2>1 DEF UnlinkedInv
    <2>4. f \in live BY <2>1 DEF LiveInv, Public
    <2>5. LiveInv' BY <2>1, <2>4 DEF LiveInv
    <2>6. SettledInv'
      <3>1. ASSUME NEW q \in unlinked, source[q] \notin disposed'
            PROVE  bytes'[q] = bytes[q] /\ bytes'[source[q]] = bytes[source[q]]
        <4>1. source[q] \in Files /\ source[q] # f BY <2>1, <3>1 DEF Pinned
        <4>. QED BY <2>1, <4>1, Distinct
      <3>. QED BY <2>1, <3>1 DEF SettledInv, Public
    <2>. QED BY <2>2, <2>3, <2>5, <2>6
  <1>5. ASSUME NEW p \in Movers, NEW b \in Bytes, NEW noticed \in BOOLEAN,
               EditCopy(p, b, noticed)
        PROVE  OnceInv'
    <2>1. /\ bytes' = [bytes EXCEPT ![p] = b]
          /\ disposed' = disposed \cup DisposedCopy(p)
          /\ UNCHANGED <<mail, claim, pc, source, live, unlinked>>
      BY <1>5 DEF EditCopy
    <2>2. SpotInv' BY <2>1 DEF SpotInv, OneSpot, Public
    <2>3. UnlinkedInv' BY <2>1 DEF UnlinkedInv
    <2>4. DisposedCopy(p) \subseteq live
      BY DEF DisposedCopy, CopyFinal, Pinned, Forward, LiveInv
    <2>5. LiveInv' BY <2>1, <2>4 DEF LiveInv
    <2>6. SettledInv'
      <3>1. ASSUME NEW q \in unlinked, source[q] \notin disposed'
            PROVE  bytes'[q] = bytes[q] /\ bytes'[source[q]] = bytes[source[q]]
        <4>1. source[q] \in Files BY DEF Pinned
        <4>2. q # p BY <2>1, <3>1 DEF DisposedCopy, CopyFinal
        <4>. QED BY <2>1, <4>1, <4>2, Distinct
      <3>. QED BY <2>1, <3>1 DEF SettledInv, Public
    <2>. QED BY <2>2, <2>3, <2>5, <2>6
  <1>. HIDE DEF OnceInv
  <1>. QED BY <1>1, <1>2, <1>3, <1>4, <1>5 DEF Client

LEMMA NextOnce == TypeInv /\ LossInv /\ OnceInv /\ [Next]_vars => OnceInv'
  <1>. SUFFICES ASSUME TypeInv, LossInv, OnceInv, [Next]_vars PROVE OnceInv'
    OBVIOUS
  <1>1. CASE UNCHANGED <<mail, claim, live, unlinked, disposed, pc, source, bytes>>
    BY <1>1 DEF OnceInv, SpotInv, OneSpot, UnlinkedInv, LiveInv, SettledInv, Public, Active
  <1>. QED BY <1>1, StepKinds, QuietOnce, PublishedOnce, ClaimOnce, UnlinkOnce, RestoreOnce,
              RestoreUnlinkOnce, ClientOnce

\* Of any number of movers of one message at most one removes it, and once it is removed
\* no rollback, of that mover or of another, brings it back.
THEOREM MovesOnce == Spec => []MovedOnce
  <1>1. TypeInv /\ OnceInv => MovedOnce
    BY DEF TypeInv, TypeOK, Pinned, OnceInv, SpotInv, OneSpot, MovedOnce
  <1>. QED BY <1>1, InitType, InitLoss, InitOnce, NextType, NextLoss, NextOnce, PTL DEF Spec

-----------------------------------------------------------------------------
\* The flags of the cleanup say what is there, and what is left is reported.
Unstaged == {"open", "read_headers", "begin", "noop", "stage_dir"}
Restaged == {"claim_dir", "pre_claim", "claim", "verify_claim", "remove_claim", "close", "moved"} \cup Verified

LeftInv ==
    \A p \in Movers :
        /\ stage[p] <=> "stage_message" \in kept[p]
        /\ claim[p] # None <=> "claimed_message" \in kept[p]
        /\ pc[p] \in Unstaged => kept[p] = {} /\ made[p] = {} /\ final[p] = None
        /\ pc[p] \in Restaged => "stage_message" \notin kept[p] /\ "stage" \notin made[p]
        /\ pc[p] = "remove_stage" => "stage_message" \notin kept[p]
        /\ pc[p] \in {"remove_claim", "close", "moved"} => "claimed_message" \notin kept[p]
        /\ pc[p] \in {"close", "moved"} => "claim" \notin made[p]
        /\ pc[p] \in {"unstage", "remove", "return", "failed"} /\ "claimed_message" \in kept[p] =>
             "source" \in report[p]
        /\ pc[p] = "failed" =>
             /\ "stage_message" \in kept[p] => "temporary" \in report[p]
             /\ final[p] # None => "destination" \in report[p]

LEMMA StagingLeft ==
    ASSUME TypeInv, LeftInv, NEW p \in Movers, Staging(p)
    PROVE  LeftInv'
  <1>. USE DEF TypeInv, TypeOK, LeftInv, Unstaged, Restaged, Verified, Goto, fs, history
  <1>1. CASE Open(p) BY <1>1 DEF Open
  <1>2. CASE ReadHeaders(p) BY <1>2 DEF ReadHeaders
  <1>3. CASE Begin(p) BY <1>3 DEF Begin
  <1>4. CASE StageDir(p) BY <1>4 DEF StageDir
  <1>5. CASE StageFile(p) BY <1>5 DEF StageFile
  <1>6. CASE CopyHeader(p) BY <1>6 DEF CopyHeader
  <1>7. CASE CopyBody(p) BY <1>7 DEF CopyBody
  <1>8. CASE PrePublish(p) BY <1>8 DEF PrePublish
  <1>9. CASE Publish(p)
    <2>. DEFINE n == Candidate[p][attempt[p]]
    <2>1. CASE mail[n] # None
      <3>1. PICK l \in {"publish", "restore"} : pc' = [pc EXCEPT ![p] = l]
        BY <1>9, <2>1 DEF Publish, AfterCollision
      <3>2. UNCHANGED <<stage, claim, kept, made, report, final>> BY <1>9, <2>1 DEF Publish
      <3>. QED BY <3>1, <3>2
    <2>2. CASE mail[n] = None
      <3>1. /\ pc[p] = "publish" /\ pc' = [pc EXCEPT ![p] = "sync_published"]
            /\ \A q \in Movers \ {p} : final'[q] = final[q]
            /\ UNCHANGED <<stage, claim, kept, made, report>>
        BY <1>9, <2>2 DEF Publish
      <3>. HIDE DEF n
      <3>. QED BY <3>1
    <2>. QED BY <2>1, <2>2
  <1>10. CASE SyncPublished(p) BY <1>10 DEF SyncPublished
  <1>11. CASE CleanupStage(p) BY <1>11 DEF CleanupStage
  <1>12. CASE RemoveStage(p) BY <1>12 DEF RemoveStage
  <1>. QED BY <1>1, <1>2, <1>3, <1>4, <1>5, <1>6, <1>7, <1>8, <1>9, <1>10, <1>11, <1>12
           DEF Staging

LEMMA ClaimingLeft ==
    ASSUME TypeInv, LeftInv, NEW p \in Movers, Claiming(p)
    PROVE  LeftInv'
  <1>. USE DEF TypeInv, TypeOK, LeftInv, Unstaged, Restaged, Verified, Goto, fs, history
  <1>1. CASE ClaimDir(p) BY <1>1 DEF ClaimDir
  <1>2. CASE PreClaim(p) BY <1>2 DEF PreClaim
  <1>3. CASE Claim(p) BY <1>3 DEF Claim
  <1>4. CASE VerifyClaim(p) BY <1>4 DEF VerifyClaim
  <1>5. CASE SyncClaim(p) BY <1>5 DEF SyncClaim
  <1>6. CASE FinalDestination(p) BY <1>6 DEF FinalDestination
  <1>7. CASE FinalSource(p) BY <1>7 DEF FinalSource
  <1>8. CASE FinalStat(p) BY <1>8 DEF FinalStat
  <1>9. CASE Unlink(p) BY <1>9 DEF Unlink
  <1>10. CASE RemoveClaim(p) BY <1>10 DEF RemoveClaim
  <1>11. CASE Close(p) BY <1>11 DEF Close
  <1>. QED BY <1>1, <1>2, <1>3, <1>4, <1>5, <1>6, <1>7, <1>8, <1>9, <1>10, <1>11
           DEF Claiming

LEMMA DoneLeft ==
    ASSUME TypeInv, LeftInv, NEW p \in Movers, Done(p) \/ Kill(p)
    PROVE  LeftInv'
  <1>. USE DEF TypeInv, TypeOK, LeftInv, Unstaged, Restaged, Verified, Prepare, Forward, Goto, fs, history
  <1>1. CASE Fail(p)
    <2>1. CASE pc[p] \in Prepare /\ pc' = [pc EXCEPT ![p] = "failed"] BY <1>1, <2>1 DEF Fail
    <2>2. CASE pc[p] \in Forward /\ pc' = [pc EXCEPT ![p] = "restore"] BY <1>1, <2>2 DEF Fail
    <2>. QED BY <1>1, <2>1, <2>2 DEF Fail
  <1>2. CASE NothingToRestore(p) BY <1>2 DEF NothingToRestore
  <1>3. CASE RestoreRename(p) BY <1>3 DEF RestoreRename
  <1>4. CASE RestoreLink(p) BY <1>4 DEF RestoreLink
  <1>5. CASE RestoreUnlink(p) BY <1>5 DEF RestoreUnlink
  <1>6. CASE Retain(p) BY <1>6 DEF Retain
  <1>7. CASE Unstage(p)
    <2>1. CASE UNCHANGED <<stage, kept>> BY <1>7, <2>1 DEF Unstage
    <2>2. CASE /\ stage' = [stage EXCEPT ![p] = FALSE]
               /\ kept' = [kept EXCEPT ![p] = @ \ {"stage_message"}]
      BY <1>7, <2>2 DEF Unstage
    <2>. QED BY <1>7, <2>1, <2>2 DEF Unstage
  <1>8. CASE Remove(p) BY <1>8 DEF Remove
  <1>9. CASE Return(p)
    <2>1. PICK named \in SUBSET made[p] :
            /\ "stage_message" \in kept[p] => "stage" \in named
            /\ report' = [report EXCEPT ![p] = @ \cup Recovery(p, named)]
      BY <1>9 DEF Return
    <2>2. /\ "stage_message" \in kept[p] => "temporary" \in Recovery(p, named)
          /\ final[p] # None => "destination" \in Recovery(p, named)
      BY <2>1 DEF Recovery
    <2>3. /\ pc[p] = "return" /\ pc' = [pc EXCEPT ![p] = "failed"]
          /\ UNCHANGED <<stage, claim, kept, made, final>>
      BY <1>9 DEF Return
    <2>4. report[p] \subseteq report'[p] /\ Recovery(p, named) \subseteq report'[p]
          /\ \A q \in Movers \ {p} : report'[q] = report[q]
      BY <2>1
    <2>. QED BY <2>2, <2>3, <2>4
  <1>10. CASE Kill(p) BY <1>10 DEF Kill
  <1>. QED BY <1>1, <1>2, <1>3, <1>4, <1>5, <1>6, <1>7, <1>8, <1>9, <1>10 DEF Done

LEMMA NextLeft == TypeInv /\ LeftInv /\ [Next]_vars => LeftInv'
  <1>. SUFFICES ASSUME TypeInv, LeftInv, [Next]_vars PROVE LeftInv'
    OBVIOUS
  <1>1. CASE \E p \in Movers : Step(p) \/ Kill(p)
    BY <1>1, StagingLeft, ClaimingLeft, DoneLeft DEF Step
  <1>2. CASE UNCHANGED <<pc, stage, claim, kept, made, report, final>>
    BY <1>2 DEF LeftInv
  <1>3. CASE Client \/ (\E d \in Dirs : Writeback(d)) \/ UNCHANGED vars
    BY <1>2, <1>3 DEF Client, Deliver, ClientRename, Delete, EditSource, EditCopy, Writeback, vars, fs, locals
  <1>. QED BY <1>1, <1>3 DEF Next, AllEnded

\* A move that succeeds leaves no private directory, claim or staged copy, and a move that
\* fails reports everything it leaves, along every one of its error paths.
THEOREM NothingLeftUnsaid == Spec => []LeftoversReported
  <1>1. Init => LeftInv
    <2>. SUFFICES ASSUME Init, NEW p \in Movers
                  PROVE  /\ pc[p] = "open" /\ ~stage[p] /\ claim[p] = None
                         /\ kept[p] = {} /\ made[p] = {} /\ final[p] = None
      BY DEF LeftInv, Restaged, Verified
    <2>. QED BY DEF Init
  <1>2. TypeInv /\ LeftInv => LeftoversReported
    <2>. SUFFICES ASSUME TypeInv, LeftInv, NEW p \in Movers
                  PROVE  /\ pc[p] \in {"moved", "noop"} => made[p] = {} /\ claim[p] = None /\ ~stage[p]
                         /\ pc[p] = "failed" =>
                              /\ claim[p] # None => "source" \in report[p]
                              /\ stage[p] => "temporary" \in report[p]
                              /\ final[p] # None => "destination" \in report[p]
      BY DEF LeftoversReported
    <2>. USE DEF TypeInv, TypeOK
    <2>1. CASE pc[p] = "moved"
      <3>1. "stage" \notin made[p] /\ "claim" \notin made[p] /\ made[p] \subseteq {"stage", "claim"}
        BY <2>1 DEF LeftInv, Restaged
      <3>2. claim[p] = None /\ ~stage[p] BY <2>1 DEF LeftInv, Restaged
      <3>3. made[p] = {}
        <4>. HIDE DEF TypeInv, TypeOK
        <4>. QED BY <3>1, Zenon
      <3>. HIDE DEF TypeInv, TypeOK
      <3>. QED BY <2>1, <3>2, <3>3
    <2>2. CASE pc[p] = "noop" BY <2>2 DEF LeftInv, Unstaged
    <2>3. CASE pc[p] = "failed" BY <2>3 DEF LeftInv
    <2>. QED BY <2>1, <2>2, <2>3
  <1>. QED BY <1>1, <1>2, InitType, NextType, NextLeft, PTL DEF Spec

-----------------------------------------------------------------------------
(***************************************************************************)
(* DurableNoLoss follows from SafeInv: a file that is in its directory now *)
(* is there on stable storage, and a copy that stands for an unlinked file *)
(* had been written back, data and name, before the source was claimed.    *)
(***************************************************************************)
\* The files that were there at the start, and the directory of each.
Old == {MailInit[n] : n \in Names} \ {None}

\* Files and copies stay in their directories ...
HomeInv ==
    /\ Old \subseteq live
    /\ \A k, n \in Names : MailInit[k] # None /\ mail[n] = MailInit[k] => DirOf[n] = DirOf[k]
    /\ \A k \in Names, p \in Movers :
         MailInit[k] # None /\ claim[p] = MailInit[k] => DirOf[Src[p]] = DirOf[k]

\* ... on stable storage too.
DiskHomeInv ==
    /\ \A k, n \in Names : MailInit[k] # None /\ dmail[n] = MailInit[k] => DirOf[n] = DirOf[k]
    /\ \A k \in Names, p \in Movers :
         MailInit[k] # None /\ dclaim[p] = MailInit[k] => DirOf[Src[p]] = DirOf[k]
    /\ \A n \in Names : dmail[n] \in Movers => DirOf[n] = Dest[dmail[n]]

Synced == {"cleanup_stage", "remove_stage", "claim_dir", "pre_claim", "claim", "verify_claim",
           "remove_claim", "close"} \cup Verified

Complete == {"pre_publish", "publish", "sync_published"} \cup Synced

\* A copy is flushed before it is public, and its name synced before the claim.
FlushedInv ==
    \A p \in Movers :
        /\ pc[p] \in Complete \/ p \in unlinked => p \in flushed
        /\ (pc[p] \in Synced \/ p \in unlinked) /\ Public(p) => \E n \in Names : dmail[n] = p

\* An old file that is still in its directory is so on stable storage.
OnDisk(f) == (\E n \in Names : dmail[n] = f) \/ (\E p \in Movers : dclaim[p] = f)

DiskInv == \A f \in Old : Public(f) \/ (\E p \in Movers : claim[p] = f) => OnDisk(f)

DurableInv == HomeInv /\ DiskHomeInv /\ FlushedInv /\ DiskInv

LEMMA OldType == Old \subseteq Files /\ \A k \in Names : MailInit[k] # None => MailInit[k] \in Old
  BY DEF Old

\* Stable storage changes by the writing back of a directory as it is after the step.
LEMMA SyncSteps ==
    ASSUME TypeInv, [Next]_vars
    PROVE  UNCHANGED <<dmail, dclaim>> \/ \E d \in Dirs : SyncDir(d, mail', claim')
  <1>. USE DEF fs, history
  <1>1. ASSUME NEW p \in Movers, Staging(p)
        PROVE  UNCHANGED <<dmail, dclaim>> \/ \E d \in Dirs : SyncDir(d, mail', claim')
    <2>1. CASE SyncPublished(p)
      <3>1. Dest[p] \in Dirs /\ SyncDir(Dest[p], mail', claim') BY <2>1 DEF SyncPublished
      <3>. QED BY <3>1
    <2>2. CASE ~SyncPublished(p)
      BY <1>1, <2>2 DEF Staging, Open, ReadHeaders, Begin, StageDir, StageFile, CopyHeader, CopyBody,
         PrePublish, Publish, CleanupStage, RemoveStage
    <2>. QED BY <2>1, <2>2
  <1>2. ASSUME NEW p \in Movers, Claiming(p) \/ Done(p) \/ Kill(p)
        PROVE  UNCHANGED <<dmail, dclaim>> \/ \E d \in Dirs : SyncDir(d, mail', claim')
    <2>1. DirOf[Src[p]] \in Dirs OBVIOUS
    <2>2. UNCHANGED <<dmail, dclaim>> \/ SyncDir(DirOf[Src[p]], mail', claim')
      <3>1. CASE SyncClaim(p) \/ RemoveClaim(p) \/ Retain(p) BY <3>1 DEF SyncClaim, RemoveClaim, Retain
      <3>2. CASE RestoreRename(p) BY <3>2 DEF RestoreRename
      <3>3. CASE RestoreLink(p) BY <3>3 DEF RestoreLink
      <3>4. CASE RestoreUnlink(p) BY <3>4 DEF RestoreUnlink
      <3>5. CASE ~(SyncClaim(p) \/ RemoveClaim(p) \/ Retain(p) \/ RestoreRename(p) \/ RestoreLink(p)
                   \/ RestoreUnlink(p))
        BY <1>2, <3>5 DEF Claiming, ClaimDir, PreClaim, Claim, VerifyClaim, FinalDestination, FinalSource,
           FinalStat, Unlink, Close, Done, Fail, NothingToRestore, Unstage, Remove, Return, Kill
      <3>. QED BY <3>1, <3>2, <3>3, <3>4, <3>5
    <2>. QED BY <2>1, <2>2
  <1>3. ASSUME NEW d \in Dirs, Writeback(d) PROVE SyncDir(d, mail', claim')
    BY <1>3 DEF Writeback
  <1>4. CASE Client
    BY <1>4 DEF Client, Deliver, ClientRename, Delete, EditSource, EditCopy
  <1>5. CASE UNCHANGED vars BY <1>5 DEF vars
  <1>. QED BY <1>1, <1>2, <1>3, <1>4, <1>5 DEF Next, Step, AllEnded

\* How a mover comes to have a complete copy, and to have synced its name.
LEMMA FlushSteps ==
    ASSUME TypeInv, [Next]_vars, NEW p \in Movers
    PROVE  /\ flushed \subseteq flushed'
           /\ pc'[p] \in Complete => pc[p] \in Complete \/ p \in flushed'
           /\ pc'[p] \in Synced => pc[p] \in Synced \/ SyncPublished(p)
           /\ p \in unlinked' => p \in unlinked \/ pc[p] = "unlink"
  <1>. USE DEF TypeInv, TypeOK, Complete, Synced, Verified, Goto, fs, history
  <1>1. CASE UNCHANGED <<flushed, pc, unlinked>> BY <1>1
  <1>2. ASSUME NEW q \in Movers, Staging(q)
        PROVE  /\ flushed \subseteq flushed'
               /\ pc'[p] \in Complete => pc[p] \in Complete \/ p \in flushed'
               /\ pc'[p] \in Synced => pc[p] \in Synced \/ SyncPublished(p)
               /\ p \in unlinked' => p \in unlinked \/ pc[p] = "unlink"
    <2>1. CASE Open(q) \/ ReadHeaders(q) \/ Begin(q) \/ StageDir(q) \/ StageFile(q) \/ CopyHeader(q)
      BY <2>1 DEF Open, ReadHeaders, Begin, StageDir, StageFile, CopyHeader
    <2>2. CASE CopyBody(q) BY <2>2 DEF CopyBody
    <2>3. CASE PrePublish(q) \/ CleanupStage(q) \/ RemoveStage(q)
      BY <2>3 DEF PrePublish, CleanupStage, RemoveStage
    <2>4. CASE SyncPublished(q) BY <2>4 DEF SyncPublished
    <2>5. CASE Publish(q)
      <3>1. PICK l \in {"publish", "restore", "sync_published"} : pc' = [pc EXCEPT ![q] = l]
        BY <2>5 DEF Publish, AfterCollision
      <3>2. pc[q] = "publish" /\ UNCHANGED <<flushed, unlinked>> BY <2>5 DEF Publish
      <3>. QED BY <3>1, <3>2
    <2>. QED BY <1>2, <2>1, <2>2, <2>3, <2>4, <2>5 DEF Staging
  <1>3. ASSUME NEW q \in Movers, Claiming(q)
        PROVE  /\ flushed \subseteq flushed'
               /\ pc'[p] \in Complete => pc[p] \in Complete \/ p \in flushed'
               /\ pc'[p] \in Synced => pc[p] \in Synced \/ SyncPublished(p)
               /\ p \in unlinked' => p \in unlinked \/ pc[p] = "unlink"
    <2>1. pc[q] \in Synced /\ (\A r \in Movers \ {q} : pc'[r] = pc[r]) /\ UNCHANGED flushed
      BY <1>3 DEF Claiming, ClaimDir, PreClaim, Claim, VerifyClaim, SyncClaim, FinalDestination, FinalSource,
         FinalStat, Unlink, RemoveClaim, Close
    <2>2. UNCHANGED unlinked \/ (unlinked' = unlinked \cup {q} /\ pc[q] = "unlink")
      BY <1>3 DEF Claiming, ClaimDir, PreClaim, Claim, VerifyClaim, SyncClaim, FinalDestination, FinalSource,
         FinalStat, Unlink, RemoveClaim, Close
    <2>. QED BY <2>1, <2>2
  <1>4. ASSUME NEW q \in Movers, Done(q) \/ Kill(q)
        PROVE  /\ flushed \subseteq flushed'
               /\ pc'[p] \in Complete => pc[p] \in Complete \/ p \in flushed'
               /\ pc'[p] \in Synced => pc[p] \in Synced \/ SyncPublished(p)
               /\ p \in unlinked' => p \in unlinked \/ pc[p] = "unlink"
    <2>1. UNCHANGED <<flushed, unlinked>>
      BY <1>4 DEF Done, Kill, Fail, NothingToRestore, RestoreRename, RestoreLink, RestoreUnlink, Retain,
         Unstage, Remove, Return
    <2>2. \E l \in Cleanup \cup Ended : pc' = [pc EXCEPT ![q] = l]
      BY <1>4 DEF Done, Kill, Fail, NothingToRestore, RestoreRename, RestoreLink, RestoreUnlink, Retain,
         Unstage, Remove, Return, Cleanup, Ended
    <2>. QED BY <2>1, <2>2 DEF Cleanup, Ended
  <1>5. CASE Client \/ (\E d \in Dirs : Writeback(d)) \/ UNCHANGED vars
    BY <1>1, <1>5 DEF Client, Deliver, ClientRename, Delete, EditSource, EditCopy, Writeback, vars, locals
  <1>. HIDE DEF TypeInv, TypeOK, Complete, Synced
  <1>. QED BY <1>2, <1>3, <1>4, <1>5 DEF Next, Step, AllEnded

\* A copy becomes public by its publication only, and an old file that is neither public
\* nor claimed stays so.
LEMMA Appearing ==
    ASSUME TypeInv, LossInv, OnceInv, HomeInv, [Next]_vars
    PROVE  /\ \A p \in Movers : Public(p)' => Public(p) \/ Published(p)
           /\ \A f \in Old : Public(f)' \/ (\E p \in Movers : claim'[p] = f) =>
                               Public(f) \/ (\E p \in Movers : claim[p] = f)
           /\ HomeInv'
  <1>. USE OldType DEF TypeInv, TypeOK, Inodes
  <1>. DEFINE Goal == /\ \A p \in Movers : Public(p)' => Public(p) \/ Published(p)
                      /\ \A f \in Old : Public(f)' \/ (\E p \in Movers : claim'[p] = f) =>
                                          Public(f) \/ (\E p \in Movers : claim[p] = f)
                      /\ HomeInv'
  <1>1. CASE UNCHANGED <<mail, claim, live>>
    BY <1>1 DEF HomeInv, Public
  <1>2. ASSUME NEW p \in Movers, Published(p) PROVE Goal
    <2>1. PICK n \in Names : mail' = [mail EXCEPT ![n] = p] BY <1>2 DEF Published
    <2>2. UNCHANGED <<claim, live>> BY <1>2 DEF Published
    <2>3. \A k \in Names : mail'[k] = mail[k] \/ mail'[k] = p BY <2>1
    <2>4. \A q \in Movers : Public(q)' => Public(q) \/ q = p BY <2>3 DEF Public
    <2>5. \A f \in Files : Public(f)' => Public(f) BY <2>3, Distinct DEF Public
    <2>6. HomeInv' BY <2>2, <2>3, Distinct DEF HomeInv
    <2>. QED BY <1>2, <2>2, <2>4, <2>5, <2>6
  <1>3. ASSUME NEW p \in Movers, Claim(p) PROVE Goal
    <2>1. PICK f : f = mail[Src[p]] OBVIOUS
    <2>2. /\ Src[p] \in Names /\ mail' = [mail EXCEPT ![Src[p]] = None]
          /\ claim' = [claim EXCEPT ![p] = f] /\ UNCHANGED live
      BY <1>3, <2>1 DEF Claim, history
    <2>3. \A i \in Inodes : Public(i)' => Public(i) BY <2>2 DEF Public
    <2>4. \A q \in Movers : claim'[q] = claim[q] \/ (q = p /\ claim'[q] = mail[Src[p]]) BY <2>1, <2>2
    <2>5. \A g \in Old, q \in Movers : claim'[q] = g => claim[q] = g \/ Public(g)
      BY <2>2, <2>4 DEF Public
    <2>6. HomeInv'
      <3>1. \A n \in Names : mail'[n] = mail[n] \/ mail'[n] = None BY <2>2
      <3>. QED BY <2>2, <2>4, <3>1 DEF HomeInv
    <2>. QED BY <2>3, <2>5, <2>6
  <1>4. ASSUME NEW p \in Movers, RestoreRename(p) \/ RestoreLink(p) PROVE Goal
    <2>1. PICK f : f = claim[p] OBVIOUS
    <2>2. /\ Src[p] \in Names /\ mail' = [mail EXCEPT ![Src[p]] = f] /\ UNCHANGED live
          /\ \A q \in Movers : claim'[q] = claim[q] \/ claim'[q] = None
      BY <1>4, <2>1 DEF RestoreRename, RestoreLink, history
    <2>3. f \in Files \cup {None} BY <2>1 DEF LossInv, ClaimInv
    <2>4. \A n \in Names : mail'[n] = mail[n] \/ (n = Src[p] /\ mail'[n] = f) BY <2>2
    <2>5. \A q \in Movers : Public(q)' => Public(q) BY <2>3, <2>4, Distinct DEF Public
    <2>6. \A g \in Old : Public(g)' => Public(g) \/ claim[p] = g BY <2>1, <2>4 DEF Public
    <2>7. HomeInv' BY <2>1, <2>2, <2>4 DEF HomeInv
    <2>. QED BY <2>2, <2>5, <2>6, <2>7
  <1>5. ASSUME NEW p \in Movers, Unlink(p) \/ RestoreUnlink(p) PROVE Goal
    <2>1. /\ UNCHANGED <<mail, live>>
          /\ \A q \in Movers : claim'[q] = claim[q] \/ claim'[q] = None
      BY <1>5 DEF Unlink, RestoreUnlink, history
    <2>. QED BY <2>1 DEF HomeInv, Public
  <1>6. ASSUME NEW n \in Names, NEW f \in Files, Deliver(n, f) PROVE Goal
    <2>1. /\ f \notin live /\ mail' = [mail EXCEPT ![n] = f] /\ live' = live \cup {f} /\ UNCHANGED claim
      BY <1>6 DEF Deliver
    <2>2. f \notin Old BY <2>1 DEF HomeInv
    <2>3. \A k \in Names : mail'[k] = mail[k] \/ mail'[k] = f BY <2>1
    <2>4. \A q \in Movers : Public(q)' => Public(q) BY <2>3, Distinct DEF Public
    <2>5. \A g \in Old : Public(g)' => Public(g) BY <2>2, <2>3 DEF Public
    <2>6. HomeInv' BY <2>1, <2>2, <2>3 DEF HomeInv
    <2>. QED BY <2>1, <2>4, <2>5, <2>6
  <1>7. ASSUME NEW m \in Names, NEW n \in Names, ClientRename(m, n) PROVE Goal
    <2>1. /\ mail' = [mail EXCEPT ![n] = mail[m], ![m] = None] /\ DirOf[m] = DirOf[n] /\ UNCHANGED <<claim, live>>
      BY <1>7 DEF ClientRename
    <2>2. \A k \in Names : mail'[k] = mail[k] \/ mail'[k] = None \/ (k = n /\ mail'[k] = mail[m]) BY <2>1
    <2>3. \A i \in Inodes : Public(i)' => Public(i) BY <2>2 DEF Public
    <2>4. HomeInv' BY <2>1, <2>2 DEF HomeInv
    <2>. QED BY <2>1, <2>3, <2>4
  <1>8. ASSUME NEW n \in Names, Delete(n) PROVE Goal
    <2>1. (\A k \in Names : mail'[k] = mail[k] \/ mail'[k] = None) /\ UNCHANGED <<claim, live>>
      BY <1>8 DEF Delete
    <2>2. \A i \in Inodes : Public(i)' => Public(i) BY <2>1 DEF Public
    <2>3. HomeInv' BY <2>1 DEF HomeInv
    <2>. QED BY <2>1, <2>2, <2>3
  <1>9. ASSUME NEW p \in Movers, Quiet(p) PROVE UNCHANGED <<mail, claim, live>>
    BY <1>9 DEF Quiet
  <1>10. CASE Client
    BY <1>1, <1>6, <1>7, <1>8, <1>10 DEF Client, EditSource, EditCopy
  <1>. HIDE DEF Goal
  <1>11. Goal
    BY <1>1, <1>2, <1>3, <1>4, <1>5, <1>9, <1>10, StepKinds DEF Goal
  <1>. QED BY <1>11 DEF Goal

LEMMA NextDurable == TypeInv /\ LossInv /\ OnceInv /\ DurableInv /\ [Next]_vars => DurableInv'
  <1>. SUFFICES ASSUME TypeInv, LossInv, OnceInv, DurableInv, [Next]_vars PROVE DurableInv'
    OBVIOUS
  <1>. USE OldType DEF DurableInv
  <1>1. TypeOK' BY NextType DEF TypeInv
  <1>2. PlaceInv' BY NextLoss DEF LossInv
  <1>3. /\ \A p \in Movers : Public(p)' => Public(p) \/ Published(p)
        /\ \A f \in Old : Public(f)' \/ (\E p \in Movers : claim'[p] = f) =>
                            Public(f) \/ (\E p \in Movers : claim[p] = f)
        /\ HomeInv'
    BY Appearing
  <1>4. CASE UNCHANGED <<dmail, dclaim>> /\ ~\E p \in Movers : SyncPublished(p)
    <2>1. DiskHomeInv' BY <1>4 DEF DiskHomeInv
    <2>2. FlushedInv'
      <3>. SUFFICES ASSUME NEW p \in Movers
                    PROVE  /\ pc'[p] \in Complete \/ p \in unlinked' => p \in flushed'
                           /\ (pc'[p] \in Synced \/ p \in unlinked') /\ Public(p)' => \E n \in Names : dmail'[n] = p
        BY DEF FlushedInv
      <3>1. /\ flushed \subseteq flushed'
            /\ pc'[p] \in Complete => pc[p] \in Complete \/ p \in flushed'
            /\ pc'[p] \in Synced => pc[p] \in Synced
            /\ p \in unlinked' => p \in unlinked \/ pc[p] = "unlink"
        BY <1>4, FlushSteps
      <3>2. "unlink" \in Synced /\ "unlink" \in Complete BY DEF Synced, Complete, Verified
      <3>3. ASSUME Published(p) PROVE pc'[p] \notin Synced /\ p \notin unlinked'
        <4>1. pc[p] = "publish" /\ pc'[p] = "sync_published" /\ UNCHANGED unlinked
          BY <3>3 DEF Published, TypeInv, TypeOK
        <4>2. p \notin unlinked BY <4>1 DEF OnceInv, UnlinkedInv, Past, Cleanup, Ended
        <4>. QED BY <4>1, <4>2 DEF Synced, Verified
      <3>. QED BY <1>3, <1>4, <3>1, <3>2, <3>3 DEF FlushedInv
    <2>3. DiskInv' BY <1>3, <1>4 DEF DiskInv, OnDisk
    <2>. QED BY <1>3, <2>1, <2>2, <2>3
  <1>5. ASSUME NEW d \in Dirs, SyncDir(d, mail', claim') PROVE DurableInv'
    <2>1. /\ \A n \in Names : dmail'[n] = IF DirOf[n] = d THEN mail'[n] ELSE dmail[n]
          /\ \A p \in Movers : dclaim'[p] = IF DirOf[Src[p]] = d THEN claim'[p] ELSE dclaim[p]
      BY <1>5 DEF SyncDir
    <2>2. DiskHomeInv'
      <3>1. \A k, n \in Names : MailInit[k] # None /\ dmail'[n] = MailInit[k] => DirOf[n] = DirOf[k]
        BY <1>3, <2>1 DEF DiskHomeInv, HomeInv
      <3>2. \A k \in Names, p \in Movers :
              MailInit[k] # None /\ dclaim'[p] = MailInit[k] => DirOf[Src[p]] = DirOf[k]
        BY <1>3, <2>1 DEF DiskHomeInv, HomeInv
      <3>3. \A n \in Names : dmail'[n] \in Movers => DirOf[n] = Dest[dmail'[n]]
        BY <1>2, <2>1 DEF DiskHomeInv, PlaceInv
      <3>. QED BY <3>1, <3>2, <3>3 DEF DiskHomeInv
    <2>3. FlushedInv'
      <3>. SUFFICES ASSUME NEW p \in Movers
                    PROVE  /\ pc'[p] \in Complete \/ p \in unlinked' => p \in flushed'
                           /\ (pc'[p] \in Synced \/ p \in unlinked') /\ Public(p)' => \E n \in Names : dmail'[n] = p
        BY DEF FlushedInv
      <3>1. /\ flushed \subseteq flushed'
            /\ pc'[p] \in Complete => pc[p] \in Complete \/ p \in flushed'
            /\ pc'[p] \in Synced => pc[p] \in Synced \/ SyncPublished(p)
            /\ p \in unlinked' => p \in unlinked \/ pc[p] = "unlink"
        BY FlushSteps
      <3>2. "unlink" \in Synced /\ "unlink" \in Complete BY DEF Synced, Complete, Verified
      <3>3. pc'[p] \in Complete \/ p \in unlinked' => p \in flushed' BY <3>1, <3>2 DEF FlushedInv
      <3>4. ASSUME pc'[p] \in Synced \/ p \in unlinked', Public(p)' PROVE \E n \in Names : dmail'[n] = p
        <4>1. PICK k \in Names : mail'[k] = p BY <3>4 DEF Public
        <4>2. DirOf[k] = Dest[p] BY <1>2, <4>1 DEF PlaceInv
        <4>3. CASE d = Dest[p] BY <2>1, <4>1, <4>2, <4>3
        <4>4. CASE d # Dest[p] /\ (pc[p] \in Synced \/ p \in unlinked)
          <5>1. ~Published(p)
            BY <4>4 DEF Published, Synced, Verified, OnceInv, UnlinkedInv, Past, Cleanup, Ended
          <5>2. Public(p) BY <1>3, <3>4, <5>1
          <5>3. PICK n \in Names : dmail[n] = p BY <4>4, <5>2 DEF FlushedInv
          <5>4. DirOf[n] = Dest[p] BY <5>3 DEF DiskHomeInv
          <5>. QED BY <2>1, <4>4, <5>3, <5>4
        <4>5. CASE SyncPublished(p)
          <5>1. dmail' = [n \in Names |-> IF DirOf[n] = Dest[p] THEN mail[n] ELSE dmail[n]] /\ mail' = mail
            BY <4>5 DEF SyncPublished, SyncDir
          <5>. QED BY <4>1, <4>2, <5>1
        <4>. QED BY <3>1, <3>2, <3>4, <4>3, <4>4, <4>5
      <3>. QED BY <3>3, <3>4
    <2>4. DiskInv'
      <3>. SUFFICES ASSUME NEW k \in Names, MailInit[k] # None,
                           Public(MailInit[k])' \/ (\E p \in Movers : claim'[p] = MailInit[k])
                    PROVE  OnDisk(MailInit[k])'
        BY DEF DiskInv, Old
      <3>1. CASE d = DirOf[k]
        <4>1. ASSUME NEW n \in Names, mail'[n] = MailInit[k] PROVE OnDisk(MailInit[k])'
          <5>1. DirOf[n] = d BY <1>3, <3>1, <4>1 DEF HomeInv
          <5>. QED BY <2>1, <4>1, <5>1 DEF OnDisk
        <4>2. ASSUME NEW p \in Movers, claim'[p] = MailInit[k] PROVE OnDisk(MailInit[k])'
          <5>1. DirOf[Src[p]] = d BY <1>3, <3>1, <4>2 DEF HomeInv
          <5>. QED BY <2>1, <4>2, <5>1 DEF OnDisk
        <4>. QED BY <4>1, <4>2 DEF Public
      <3>2. CASE d # DirOf[k]
        <4>1. OnDisk(MailInit[k]) BY <1>3 DEF DiskInv
        <4>2. \A n \in Names : dmail[n] = MailInit[k] => dmail'[n] = MailInit[k]
          BY <2>1, <3>2 DEF DiskHomeInv
        <4>3. \A p \in Movers : dclaim[p] = MailInit[k] => dclaim'[p] = MailInit[k]
          BY <2>1, <3>2 DEF DiskHomeInv
        <4>. QED BY <4>1, <4>2, <4>3 DEF OnDisk
      <3>. QED BY <3>1, <3>2
    <2>. QED BY <1>3, <2>2, <2>3, <2>4
  <1>6. ASSUME NEW p \in Movers, SyncPublished(p) PROVE \E d \in Dirs : SyncDir(d, mail', claim')
    <2>1. Dest[p] \in Dirs /\ SyncDir(Dest[p], mail', claim') BY <1>6 DEF SyncPublished
    <2>. QED BY <2>1
  <1>. QED BY <1>4, <1>5, <1>6, SyncSteps

\* A power failure at any moment loses no message that was on stable storage: whatever
\* directories the kernel writes back on its own, and in whatever order.
THEOREM NeverLostOnDisk == Spec => []DurableNoLoss
  <1>1. Init => DurableInv
    <2>. SUFFICES ASSUME Init PROVE DurableInv
      OBVIOUS
    <2>. USE OldType DEF Init
    <2>1. HomeInv BY DEF HomeInv, Old
    <2>2. DiskHomeInv BY DEF DiskHomeInv
    <2>3. FlushedInv BY DEF FlushedInv, Complete, Synced, Verified
    <2>4. DiskInv BY DEF DiskInv, OnDisk, Public
    <2>. QED BY <2>1, <2>2, <2>3, <2>4 DEF DurableInv
  <1>2. TypeInv /\ LossInv /\ OnceInv /\ DurableInv => DurableNoLoss
    <2>. SUFFICES ASSUME TypeInv, LossInv, OnceInv, DurableInv, NEW f \in Old \ disposed
                  PROVE  \/ \E n \in Names : dmail[n] = f
                         \/ \E p \in Movers : dclaim[p] = f
                         \/ \E p \in flushed : source[p] = f /\ \E n \in Names : dmail[n] = p
      BY DEF DurableNoLoss, Old
    <2>1. f \in live /\ Safe(f) BY DEF DurableInv, HomeInv, LossInv, SafeInv
    <2>2. CASE Public(f) \/ \E p \in Movers : claim[p] = f
      BY <2>2 DEF DurableInv, DiskInv, OnDisk
    <2>3. ASSUME NEW p \in unlinked, source[p] = f, Public(p)
          PROVE  \E q \in flushed : source[q] = f /\ \E n \in Names : dmail[n] = q
      BY <2>3 DEF DurableInv, FlushedInv, TypeInv, TypeOK
    <2>. QED BY <2>1, <2>2, <2>3 DEF Safe
  <1>. QED BY <1>1, <1>2, InitType, InitLoss, InitOnce, NextType, NextLoss, NextOnce, NextDurable, PTL DEF Spec

-----------------------------------------------------------------------------
(***************************************************************************)
(* MaildirMove implements AtomicMove.  The refinement mapping looks for    *)
(* the message under public names and in claims; the invariants above      *)
(* reduce it to what a few steps change: whether a client disposed of the  *)
(* message, whether it was delivered, and whether some mover has unlinked  *)
(* it.                                                                     *)
(***************************************************************************)

HIDE ConstantsAssumption

Inv == TypeInv /\ LossInv /\ OnceInv

Moved(f) == \E p \in unlinked : source[p] = f

Spot(f) ==
    IF f \in disposed THEN "gone" ELSE IF f \notin live THEN "none"
    ELSE IF Moved(f) THEN "there" ELSE "here"

Result(p) == IF pc[p] \in Ended THEN pc[p] ELSE "busy"

\* A message of the refinement mapping is moved exactly when a mover has unlinked it, and
\* is never "lost".
LEMMA PlaceIsSpot == Inv => \A f \in Files : Place(f) = Spot(f)
  <1>. SUFFICES ASSUME Inv, NEW f \in live \ disposed, f \in Files PROVE Place(f) = Spot(f)
    BY DEF Place, Spot
  <1>. USE DEF Inv, TypeInv, TypeOK, OnceInv, LossInv
  <1>1. CASE Moved(f)
    <2>1. PICK p \in unlinked : source[p] = f BY <1>1 DEF Moved
    <2>2. ~Public(f) BY <2>1 DEF SpotInv, OneSpot
    <2>3. ~Here(f) BY <2>1, <2>2 DEF Here
    <2>4. Copied(f) BY <2>1 DEF SettledInv, Copied
    <2>. QED BY <1>1, <2>3, <2>4 DEF Place, Spot
  <1>2. CASE ~Moved(f)
    <2>1. Safe(f) BY DEF SafeInv
    <2>2. Here(f) BY <1>2, <2>1 DEF Safe, Here, Moved
    <2>. QED BY <1>2, <2>2 DEF Place, Spot
  <1>. QED BY <1>1, <1>2

LEMMA PlaceIsSpotNext == Inv' => (\A f \in Files : Place(f) = Spot(f))'
  BY PlaceIsSpot, PTL

\* What the mapped variables see of a step.
LEMMA Mapped ==
    ASSUME Inv, Inv'
    PROVE  /\ [f \in Files |-> Place(f)] = [f \in Files |-> Spot(f)]
           /\ [f \in Files |-> Place(f)'] = [f \in Files |-> Spot(f)']
  BY PlaceIsSpot, PlaceIsSpotNext

\* A mover that has ended stays so, and ends as a no-op only where it begins.
LEMMA EndSteps ==
    ASSUME TypeInv, [Next]_vars, NEW q \in Movers
    PROVE  /\ pc[q] \in Ended => pc'[q] = pc[q]
           /\ pc'[q] = "noop" => pc[q] \in {"begin", "noop"}
  <1>. USE DEF TypeInv, TypeOK, Goto, Ended
  <1>1. ASSUME NEW p \in Movers, Staging(p) PROVE pc[p] \notin Ended /\ (pc'[p] = "noop" => pc[p] = "begin")
                                                  /\ (q # p => pc'[q] = pc[q])
    <2>1. CASE Publish(p)
      <3>1. PICK l \in {"publish", "restore", "sync_published"} : pc' = [pc EXCEPT ![p] = l]
        BY <2>1 DEF Publish, AfterCollision
      <3>. QED BY <2>1, <3>1 DEF Publish
    <2>2. CASE ~Publish(p)
      BY <1>1, <2>2 DEF Staging, Open, ReadHeaders, Begin, StageDir, StageFile, CopyHeader,
           CopyBody, PrePublish, SyncPublished, CleanupStage, RemoveStage
    <2>. QED BY <2>1, <2>2
  <1>2. ASSUME NEW p \in Movers, Claiming(p) PROVE pc[p] \notin Ended /\ pc'[p] # "noop"
                                                  /\ (q # p => pc'[q] = pc[q])
    BY <1>2 DEF Claiming, ClaimDir, PreClaim, Claim, VerifyClaim, SyncClaim,
         FinalDestination, FinalSource, FinalStat, Unlink, RemoveClaim, Close
  <1>3. ASSUME NEW p \in Movers, Done(p) \/ Kill(p) PROVE pc[p] \notin Ended /\ pc'[p] # "noop"
                                                  /\ (q # p => pc'[q] = pc[q])
    BY <1>3 DEF Done, Kill, Fail, NothingToRestore, RestoreRename, RestoreLink, RestoreUnlink,
         Retain, Unstage, Remove, Return, Prepare, Forward
  <1>4. CASE Client \/ (\E d \in Dirs : Writeback(d)) \/ UNCHANGED vars
    <2>1. pc' = pc
      BY <1>4 DEF Client, Deliver, ClientRename, Delete, EditSource, EditCopy, Writeback, vars, locals
    <2>. QED BY <2>1
  <1>. HIDE DEF TypeInv, TypeOK, Goto
  <1>. QED BY <1>1, <1>2, <1>3, <1>4 DEF Next, Step, AllEnded

\* A step of one mover that moves no message is the mover's end or a stutter.
LEMMA EndsOrStutters ==
    ASSUME Inv, Inv', [Next]_vars, NEW p \in Movers,
           \A q \in Movers \ {p} : pc'[q] = pc[q],
           UNCHANGED <<live, disposed, unlinked>>,
           \A q \in unlinked : source'[q] = source[q]
    PROVE  [Abstract!Next]_(Abstract!vars)
  <1>1. \A f \in Files : Spot(f)' = Spot(f) BY DEF Spot, Moved
  <1>2. [f \in Files |-> Place(f)'] = [f \in Files |-> Place(f)] BY <1>1, Mapped
  <1>3. CASE pc'[p] \notin Ended \/ pc[p] \in Ended
    <2>1. \A q \in Movers : Result(q)' = Result(q)
      BY <1>3, EndSteps DEF Result, Inv
    <2>2. UNCHANGED Abstract!vars BY <1>2, <2>1 DEF Abstract!vars, Result
    <2>. QED BY <2>2
  <1>4. CASE pc'[p] \in Ended /\ pc[p] \notin Ended
    <2>1. pc'[p] = "moved" => p \in unlinked BY DEF Inv, OnceInv, UnlinkedInv
    <2>2. pc'[p] = "noop" => p \notin unlinked
      BY <1>4, EndSteps DEF Inv, OnceInv, UnlinkedInv, Past, Cleanup, Ended
    <2>3. [q \in Movers |-> Result(q)'] = [[q \in Movers |-> Result(q)] EXCEPT ![p] = pc'[p]]
      BY <1>4 DEF Result
    <2>4. Result(p) = "busy" BY <1>4 DEF Result
    <2>5. Abstract!End(p)
      BY <1>2, <1>4, <2>1, <2>2, <2>3, <2>4 DEF Abstract!End, Result, Ended
    <2>. QED BY <2>5 DEF Abstract!Next
  <1>. QED BY <1>3, <1>4

\* The unlinking of the claimed source is the abstract move.
LEMMA UnlinkMoves ==
    ASSUME Inv, Inv', NEW p \in Movers, Unlink(p)
    PROVE  Abstract!Move(p)
  <1>0. PICK f : f = source[p] OBVIOUS
  <1>1. /\ pc[p] = "unlink"
        /\ pc' = [pc EXCEPT ![p] = "remove_claim"]
        /\ unlinked' = unlinked \cup {p}
        /\ UNCHANGED <<source, live, disposed>>
    BY DEF Unlink, Goto
  <1>2. f \in Files /\ p \notin unlinked /\ f \in live
    BY <1>0, <1>1 DEF Inv, OnceInv, UnlinkedInv, LiveInv, Past, Cleanup, Ended, TypeInv, Pinned, Forward
  <1>3. ~Moved(f)
    BY <1>0, <1>1, <1>2 DEF Inv, OnceInv, SpotInv, OneSpot, LossInv, ClaimInv, Verified, Active, Ended, Moved,
                      TypeInv, TypeOK
  <1>4. [q \in Movers |-> Result(q)'] = [q \in Movers |-> Result(q)] /\ Result(p) = "busy"
    BY <1>1 DEF Result, Ended, Inv, TypeInv, TypeOK
  <1>5. \A g \in Files \ {f} : Spot(g)' = Spot(g) BY <1>0, <1>1 DEF Spot, Moved
  <1>6. Moved(f)' BY <1>0, <1>1 DEF Moved
  <1>7. CASE f \in disposed
    <2>1. Spot(f) = "gone" /\ Spot(f)' = "gone" BY <1>1, <1>7 DEF Spot
    <2>2. [g \in Files |-> Spot(g)'] = [g \in Files |-> Spot(g)] BY <1>2, <1>5, <2>1
    <2>. QED BY <1>1, <1>2, <1>4, <2>1, <2>2, Mapped DEF Abstract!Move, Result
  <1>8. CASE f \notin disposed
    <2>1. Spot(f) = "here" /\ Spot(f)' = "there" BY <1>1, <1>2, <1>3, <1>6, <1>8 DEF Spot
    <2>2. [g \in Files |-> Spot(g)'] = [[g \in Files |-> Spot(g)] EXCEPT ![f] = "there"]
      BY <1>2, <1>5, <2>1
    <2>. QED BY <1>1, <1>2, <1>4, <2>1, <2>2, Mapped DEF Abstract!Move, Result
  <1>. QED BY <1>7, <1>8

\* A client's operation is a delivery, a disposal or a stutter.
LEMMA ClientSteps ==
    ASSUME Inv, Inv', Client
    PROVE  [Abstract!Next]_(Abstract!vars)
  <1>. USE DEF Inv, TypeInv, TypeOK
  <1>1. ASSUME NEW f \in Files, f \notin live, live' = live \cup {f},
               UNCHANGED <<locals, unlinked, disposed>>
        PROVE  Abstract!Deliver(f)
    <2>1. f \notin disposed /\ ~Moved(f) BY <1>1 DEF OnceInv, LiveInv, Moved
    <2>2. Spot(f) = "none" /\ Spot(f)' = "here"
      BY <1>1, <2>1 DEF Spot, Moved, locals
    <2>3. \A g \in Files \ {f} : Spot(g)' = Spot(g) BY <1>1 DEF Spot, Moved, locals
    <2>4. [g \in Files |-> Spot(g)'] = [[g \in Files |-> Spot(g)] EXCEPT ![f] = "here"]
      BY <2>2, <2>3
    <2>. QED BY <1>1, <2>2, <2>4, Mapped, ZenonT(60) DEF Abstract!Deliver, locals
  <1>2. ASSUME NEW f \in live, disposed' \in {disposed, disposed \cup {f}},
               UNCHANGED <<pc, source, unlinked, live>>
        PROVE  [Abstract!Next]_(Abstract!vars)
    <2>1. CASE f \in disposed \/ f \notin disposed'
      <3>1. \A g \in Files : Spot(g)' = Spot(g) BY <1>2, <2>1 DEF Spot, Moved
      <3>2. [g \in Files |-> Spot(g)'] = [g \in Files |-> Spot(g)] BY <3>1
      <3>3. UNCHANGED Abstract!vars BY <1>2, <3>2, Mapped DEF Abstract!vars
      <3>. QED BY <3>3
    <2>2. CASE f \notin disposed /\ f \in disposed'
      <3>1. Spot(f) \in {"here", "there"} /\ Spot(f)' = "gone" BY <1>2, <2>2 DEF Spot
      <3>2. \A g \in Files \ {f} : Spot(g)' = Spot(g) BY <1>2 DEF Spot, Moved
      <3>3. [g \in Files |-> Spot(g)'] = [[g \in Files |-> Spot(g)] EXCEPT ![f] = "gone"]
        BY <3>1, <3>2
      <3>4. f \in Files OBVIOUS
      <3>5. Abstract!Dispose(f) BY <1>2, <3>1, <3>3, <3>4, Mapped, ZenonT(60) DEF Abstract!Dispose
      <3>. QED BY <3>4, <3>5 DEF Abstract!Next
    <2>. QED BY <2>1, <2>2
  <1>3. ASSUME UNCHANGED <<pc, source, unlinked, live, disposed>> PROVE [Abstract!Next]_(Abstract!vars)
    <2>1. \A g \in Files : Spot(g)' = Spot(g) BY <1>3 DEF Spot, Moved
    <2>2. [g \in Files |-> Spot(g)'] = [g \in Files |-> Spot(g)] BY <2>1
    <2>3. UNCHANGED Abstract!vars BY <1>3, <2>2, Mapped DEF Abstract!vars
    <2>. QED BY <2>3
  <1>4. ASSUME NEW n \in Names, NEW f \in Files, Deliver(n, f) PROVE [Abstract!Next]_(Abstract!vars)
    BY <1>1, <1>4 DEF Deliver, Abstract!Next
  <1>5. ASSUME NEW m \in Names, NEW n \in Names, ClientRename(m, n) PROVE [Abstract!Next]_(Abstract!vars)
    BY <1>3, <1>5 DEF ClientRename
  <1>6. ASSUME NEW p \in Movers, CopyFinal(p) PROVE source[p] \in live
    BY <1>6 DEF OnceInv, LiveInv, CopyFinal, Pinned, Forward
  <1>7. ASSUME NEW n \in Names, Delete(n) PROVE [Abstract!Next]_(Abstract!vars)
    <2>1. /\ mail[n] # None
          /\ disposed' = disposed \cup
               (IF mail[n] \in Movers THEN DisposedCopy(mail[n]) ELSE {mail[n]})
          /\ UNCHANGED <<pc, source, unlinked, live>>
      BY <1>7 DEF Delete
    <2>2. CASE mail[n] \in Movers /\ CopyFinal(mail[n])
      BY <1>2, <1>6, <2>1, <2>2 DEF DisposedCopy
    <2>3. CASE mail[n] \in Movers /\ ~CopyFinal(mail[n])
      BY <1>3, <2>1, <2>3 DEF DisposedCopy
    <2>4. CASE mail[n] \notin Movers
      BY <1>2, <2>1, <2>4 DEF OnceInv, LiveInv, Inodes
    <2>. QED BY <2>2, <2>3, <2>4
  <1>8. ASSUME NEW f \in Files, NEW b \in Bytes, NEW noticed \in BOOLEAN, EditSource(f, b, noticed)
        PROVE  [Abstract!Next]_(Abstract!vars)
    <2>1. f \in live BY <1>8 DEF EditSource, OnceInv, LiveInv, Public
    <2>2. disposed' \in {disposed, disposed \cup {f}} BY <1>8 DEF EditSource
    <2>. QED BY <1>2, <1>8, <2>1, <2>2 DEF EditSource
  <1>9. ASSUME NEW p \in Movers, NEW b \in Bytes, NEW noticed \in BOOLEAN, EditCopy(p, b, noticed)
        PROVE  [Abstract!Next]_(Abstract!vars)
    <2>1. CASE CopyFinal(p) BY <1>2, <1>6, <1>9, <2>1 DEF EditCopy, DisposedCopy
    <2>2. CASE ~CopyFinal(p) BY <1>3, <1>9, <2>2 DEF EditCopy, DisposedCopy
    <2>. QED BY <2>1, <2>2
  <1>. QED BY <1>4, <1>5, <1>7, <1>8, <1>9 DEF Client

LEMMA AtomicInit == Init => Abstract!Init
  <1>. SUFFICES ASSUME Init PROVE Abstract!Init
    OBVIOUS
  <1>1. Inv BY InitType, InitLoss, InitOnce DEF Inv
  <1>2. \A f \in Files : Place(f) \in {"none", "here"}
    BY <1>1, PlaceIsSpot DEF Init, Spot, Moved
  <1>. QED BY <1>2 DEF Init, Abstract!Init, Ended

LEMMA AtomicStep == Inv /\ Inv' /\ [Next]_vars => [Abstract!Next]_(Abstract!vars)
  <1>. SUFFICES ASSUME Inv, Inv', [Next]_vars PROVE [Abstract!Next]_(Abstract!vars)
    OBVIOUS
  <1>1. CASE UNCHANGED <<mail, claim, live, unlinked, disposed, pc, source, bytes>>
    <2>1. \A g \in Files : Spot(g)' = Spot(g) BY <1>1 DEF Spot, Moved
    <2>2. [g \in Files |-> Spot(g)'] = [g \in Files |-> Spot(g)] BY <2>1
    <2>3. UNCHANGED Abstract!vars BY <1>1, <2>2, Mapped DEF Abstract!vars
    <2>. QED BY <2>3
  <1>2. ASSUME NEW p \in Movers, Quiet(p) PROVE [Abstract!Next]_(Abstract!vars)
    <2>1. \A q \in unlinked : source'[q] = source[q]
      BY <1>2 DEF Quiet, Inv, OnceInv, UnlinkedInv, TypeInv, TypeOK
    <2>. QED BY <1>2, <2>1, EndsOrStutters DEF Quiet
  <1>3. ASSUME NEW p \in Movers,
               Published(p) \/ Claim(p) \/ RestoreRename(p) \/ RestoreLink(p) \/ RestoreUnlink(p)
        PROVE  [Abstract!Next]_(Abstract!vars)
    <2>1. /\ \A q \in Movers \ {p} : pc'[q] = pc[q]
          /\ UNCHANGED <<source, live, disposed, unlinked>>
      BY <1>3 DEF Published, Claim, RestoreRename, RestoreLink, RestoreUnlink, Goto, history,
                  Inv, TypeInv, TypeOK
    <2>. QED BY <2>1, EndsOrStutters
  <1>4. ASSUME NEW p \in Movers, Unlink(p) PROVE [Abstract!Next]_(Abstract!vars)
    BY <1>4, UnlinkMoves DEF Abstract!Next
  <1>5. TypeInv BY DEF Inv
  <1>. QED BY <1>1, <1>2, <1>3, <1>4, <1>5, ClientSteps, StepKinds

\* jf_storage_move implements the atomic move: whatever number of movers, clients, failures
\* and kills interleave, a message leaves its source in one step, the unlinking of the claim,
\* when its complete copy is public; at most once; and only a mover that did so reports it moved.
THEOREM Atomic == Spec => MovesAtomically
  <1>1. Init => Inv BY InitType, InitLoss, InitOnce DEF Inv
  <1>2. Inv /\ [Next]_vars => Inv' BY NextType, NextLoss, NextOnce DEF Inv
  <1>. QED BY <1>1, <1>2, AtomicInit, AtomicStep, PTL DEF Spec, MovesAtomically, Abstract!Spec
=============================================================================
