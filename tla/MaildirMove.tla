---------------------------- MODULE MaildirMove ----------------------------
(***************************************************************************)
(* jf_storage_move (src/src/filter/storage.c): one message leaves its      *)
(* source Maildir for its destination Maildir.                             *)
(*                                                                         *)
(* Every mover is one call of jf_storage_move together with the part of    *)
(* prepare (src/src/jaro-filter.c) that pins the source descriptor.        *)
(* Several movers run at once: worker threads of one batch, or batches of  *)
(* different roots, which do not share a batch lock.  Independent Maildir  *)
(* clients act on the public names between any two of their system calls:  *)
(* they deliver, rename (flag changes), delete and edit messages.  A mover *)
(* can fail at every step (I/O error, no memory, interruption, replaced    *)
(* directory or lock) and can be killed at every step.                     *)
(*                                                                         *)
(* The namespace is kept twice: mail is what processes see, dmail is what  *)
(* stable storage holds.  A directory reaches stable storage as a whole,   *)
(* by fsync or by spontaneous writeback, independently of the others; the  *)
(* data of a copy reaches it when the copy is in flushed.  A private claim *)
(* directory lies in its source directory and is durable along with it,    *)
(* so that a rename between the two is atomic on stable storage.           *)
(***************************************************************************)
EXTENDS Naturals

CONSTANTS
    Movers,        \* calls of jf_storage_move; a mover also names its copy's inode
    Files,         \* inodes of messages that clients deliver
    Names,         \* public names in cur/new of the Maildirs concerned
    Dirs,          \* directories holding those names
    None,          \* no entry
    Versions,      \* values of a message's header block and of its body
    DirOf,         \* [Names -> Dirs]
    Src,           \* [Movers -> Names]: the source name of each mover
    Dest,          \* [Movers -> Dirs]: cur of the destination of each mover
    Retries,       \* RETRIES, publication attempts
    Candidate,     \* [Movers -> [0..Retries-1 -> Names]]: published_name
    MailInit,      \* the public namespace at the start
    MaxClientOps   \* bound on the number of client operations

Inodes == Files \cup Movers

Bytes == [header : Versions, body : Versions]

ASSUME ConstantsAssumption ==
    /\ Files \cap Movers = {}
    /\ None \notin Files \cup Movers \cup Names
    /\ DirOf \in [Names -> Dirs]
    /\ Src \in [Movers -> Names]
    /\ Dest \in [Movers -> Dirs]
    /\ Retries \in Nat \ {0}
    /\ Candidate \in [Movers -> [0..Retries-1 -> Names]]
    /\ \A p \in Movers : \A k \in 0..Retries-1 : DirOf[Candidate[p][k]] = Dest[p]
    /\ MailInit \in [Names -> Files \cup {None}]
    /\ \A m, n \in Names : MailInit[m] = MailInit[n] /\ MailInit[m] # None => m = n
    /\ MaxClientOps \in Nat

\* A mover whose source directory is its own destination is a no-op; any other
\* mover takes its source from a directory nobody publishes into, which
\* independent (src/src/jaro-filter.c) ensures for the jobs of one batch.
ASSUME SourcesAssumption ==
    \A p, q \in Movers : DirOf[Src[p]] = Dest[q] => DirOf[Src[p]] = Dest[p]

VARIABLES
    \* the file system
    mail,      \* public name -> inode, as processes see it
    bytes,     \* inode -> contents
    stage,     \* mover -> its staging directory holds its copy
    claim,     \* mover -> inode its private claim directory holds
    dmail,     \* public name -> inode, on stable storage
    dclaim,    \* mover -> inode its claim directory holds on stable storage
    flushed,   \* movers whose copy has its data on stable storage
    \* the locals of prepare and jf_storage_move
    pc, source, digest, sstat, cstat, attempt, final, kept, made, report,
    \* the environment and history
    live,      \* files delivered so far
    ops,       \* client operations so far
    unlinked,  \* movers that removed their claimed source
    disposed   \* files a client got rid of: see Dispose below

fs == <<mail, bytes, stage, claim, dmail, dclaim, flushed>>
locals == <<pc, source, digest, sstat, cstat, attempt, final, kept, made, report>>
history == <<live, ops, unlinked, disposed>>
vars == <<fs, locals, history>>

(***************************************************************************)
(* source[p] is the pinned inode.  sstat[p] says how its stat compares     *)
(* with the baseline p holds: "same" (jf_storage_same), "ctime" (only      *)
(* bytes_identity), "mtime" (neither).  cstat[p] does so for the copy's    *)
(* size and mtime.  digest[p] is header_digest, then the digest copied.    *)
(* kept[p] is the set of flags stage_message and claimed_message that are  *)
(* up, made[p] the owned directories whose created flag is up.             *)
(***************************************************************************)
Prepare == {"open", "read_headers"}
Forward == {"begin", "stage_dir", "stage_file", "copy_header", "copy_body",
            "pre_publish", "publish", "sync_published", "cleanup_stage",
            "remove_stage", "claim_dir", "pre_claim", "claim", "verify_claim",
            "sync_claim", "final_destination", "final_source", "final_stat",
            "unlink", "remove_claim", "close"}
Cleanup == {"restore", "relinked", "unstage", "remove", "return"}
Ended == {"moved", "noop", "failed", "killed"}

Public(i) == \E n \in Names : mail[n] = i

Init ==
    /\ mail = MailInit
    /\ \E v \in Versions : bytes = [i \in Inodes |-> [header |-> v, body |-> v]]
    /\ stage = [p \in Movers |-> FALSE]
    /\ claim = [p \in Movers |-> None]
    /\ dmail = MailInit
    /\ dclaim = [p \in Movers |-> None]
    /\ flushed = {}
    /\ pc = [p \in Movers |-> "open"]
    /\ source = [p \in Movers |-> None]
    /\ digest = [p \in Movers |-> bytes[p]]
    /\ sstat = [p \in Movers |-> "same"]
    /\ cstat = [p \in Movers |-> "same"]
    /\ attempt = [p \in Movers |-> 0]
    /\ final = [p \in Movers |-> None]
    /\ kept = [p \in Movers |-> {}]
    /\ made = [p \in Movers |-> {}]
    /\ report = [p \in Movers |-> {}]
    /\ live = {f \in Files : \E n \in Names : MailInit[n] = f}
    /\ ops = 0
    /\ unlinked = {}
    /\ disposed = {}

-----------------------------------------------------------------------------
(* Helpers.  A definition marked "Fault" is no part of the model: it is the  *)
(* definition after it with a slip a programmer could make, and shows that  *)
(* some property below notices.                                             *)

Goto(p, l) == pc' = [pc EXCEPT ![p] = l]

\* fsync of directory d, or its spontaneous writeback, given the namespace m
\* and the claims c that it finds.
SyncDir(d, m, c) ==
    /\ dmail' = [n \in Names |-> IF DirOf[n] = d THEN m[n] ELSE dmail[n]]
    /\ dclaim' = [p \in Movers |-> IF DirOf[Src[p]] = d THEN c[p] ELSE dclaim[p]]

\* Renaming or linking inode i changes its ctime, which every mover that holds
\* a baseline of it can see.
NewCtime(i) ==
    sstat' = [p \in Movers |->
                 IF source[p] = i /\ sstat[p] = "same" THEN "ctime" ELSE sstat[p]]

\* source_current: the name and the descriptor both still match the baseline.
SourceCurrent(p) == mail[Src[p]] = source[p] /\ sstat[p] = "same"

\* Fault: the public name is not looked up again.
CopyCurrentByDescriptor(p) == cstat[p] = "same" /\ bytes[p] = digest[p]

\* The checks of the published copy before the claim and before the unlink: the
\* name has the copy's bytes_identity and the descriptor its digest.
CopyCurrent(p) == mail[final[p]] = p /\ cstat[p] = "same" /\ bytes[p] = digest[p]

-----------------------------------------------------------------------------
(* prepare: pin the source and read its headers *)

Open(p) ==
    /\ pc[p] = "open"
    /\ mail[Src[p]] \in Files
    /\ source' = [source EXCEPT ![p] = mail[Src[p]]]
    /\ Goto(p, "read_headers")
    /\ UNCHANGED <<fs, digest, sstat, cstat, attempt, final, kept, made, report, history>>

ReadHeaders(p) ==
    /\ pc[p] = "read_headers"
    /\ SourceCurrent(p)
    /\ digest' = [digest EXCEPT ![p] = [header |-> bytes[source[p]].header, body |-> @.body]]
    /\ Goto(p, "begin")
    /\ UNCHANGED <<fs, source, sstat, cstat, attempt, final, kept, made, report, history>>

-----------------------------------------------------------------------------
(* jf_storage_move: staging and publication *)

Begin(p) ==
    /\ pc[p] = "begin"
    /\ SourceCurrent(p)
    /\ Goto(p, IF DirOf[Src[p]] = Dest[p] THEN "noop" ELSE "stage_dir")
    /\ UNCHANGED <<fs, source, digest, sstat, cstat, attempt, final, kept, made, report, history>>

\* create_owned may fail after its mkdirat.
StageDir(p) ==
    /\ pc[p] = "stage_dir"
    /\ made' = [made EXCEPT ![p] = @ \cup {"stage"}]
    /\ \E l \in {"stage_file", "restore"} : Goto(p, l)
    /\ UNCHANGED <<fs, source, digest, sstat, cstat, attempt, final, kept, report, history>>

StageFile(p) ==
    /\ pc[p] = "stage_file"
    /\ stage' = [stage EXCEPT ![p] = TRUE]
    /\ kept' = [kept EXCEPT ![p] = @ \cup {"stage_message"}]
    /\ Goto(p, "copy_header")
    /\ UNCHANGED <<mail, bytes, claim, dmail, dclaim, flushed,
                   source, digest, sstat, cstat, attempt, final, made, report, history>>

\* copy_message reads the header block and the body by separate calls of pread;
\* it compares the header's digest once both are written.
CopyHeader(p) ==
    /\ pc[p] = "copy_header"
    /\ bytes' = [bytes EXCEPT ![p] = [header |-> bytes[source[p]].header, body |-> @.body]]
    /\ Goto(p, "copy_body")
    /\ UNCHANGED <<mail, stage, claim, dmail, dclaim, flushed,
                   source, digest, sstat, cstat, attempt, final, kept, made, report, history>>

CopyBody(p) ==
    /\ pc[p] = "copy_body"
    /\ bytes[p].header = digest[p].header
    /\ bytes' = [bytes EXCEPT ![p] = [header |-> @.header, body |-> bytes[source[p]].body]]
    /\ digest' = [digest EXCEPT ![p] = bytes'[p]]
    /\ flushed' = flushed \cup {p}
    /\ Goto(p, "pre_publish")
    /\ UNCHANGED <<mail, stage, claim, dmail, dclaim,
                   source, sstat, cstat, attempt, final, kept, made, report, history>>

PrePublish(p) ==
    /\ pc[p] = "pre_publish"
    /\ SourceCurrent(p)
    /\ Goto(p, "publish")
    /\ UNCHANGED <<fs, source, digest, sstat, cstat, attempt, final, kept, made, report, history>>

NextAttempt(p) == attempt[p] + 1

\* Fault: one attempt too many.
AfterCollisionLate(p) == IF NextAttempt(p) <= Retries THEN "publish" ELSE "restore"

AfterCollision(p) == IF NextAttempt(p) < Retries THEN "publish" ELSE "restore"

\* Fault: EEXIST checks the source again and tries the same name.
PublishAgain(p) ==
    /\ pc[p] = "publish"
    /\ LET n == Candidate[p][attempt[p]] IN
         \/ /\ mail[n] = None
            /\ mail' = [mail EXCEPT ![n] = p]
            /\ final' = [final EXCEPT ![p] = n]
            /\ Goto(p, "sync_published")
         \/ /\ mail[n] # None
            /\ Goto(p, "pre_publish")
            /\ UNCHANGED <<mail, final>>
    /\ UNCHANGED <<bytes, stage, claim, dmail, dclaim, flushed,
                   source, digest, sstat, cstat, attempt, kept, made, report, history>>

\* linkat onto a candidate name; only EEXIST tries the next one.
Publish(p) ==
    /\ pc[p] = "publish"
    /\ LET n == Candidate[p][attempt[p]] IN
         \/ /\ mail[n] = None
            /\ mail' = [mail EXCEPT ![n] = p]
            /\ final' = [final EXCEPT ![p] = n]
            /\ Goto(p, "sync_published")
            /\ UNCHANGED attempt
         \/ /\ mail[n] # None
            /\ attempt' = [attempt EXCEPT ![p] = NextAttempt(p)]
            /\ Goto(p, AfterCollision(p))
            /\ UNCHANGED <<mail, final>>
    /\ UNCHANGED <<bytes, stage, claim, dmail, dclaim, flushed,
                   source, digest, sstat, cstat, kept, made, report, history>>

\* Fault: the destination directory is left to the kernel's writeback.
SyncPublishedNever(p) ==
    /\ pc[p] = "sync_published"
    /\ Goto(p, "cleanup_stage")
    /\ UNCHANGED <<fs, source, digest, sstat, cstat, attempt, final, kept, made, report, history>>

SyncPublished(p) ==
    /\ pc[p] = "sync_published"
    /\ SyncDir(Dest[p], mail, claim)
    /\ Goto(p, "cleanup_stage")
    /\ UNCHANGED <<mail, bytes, stage, claim, flushed,
                   source, digest, sstat, cstat, attempt, final, kept, made, report, history>>

CleanupStage(p) ==
    /\ pc[p] = "cleanup_stage"
    /\ stage' = [stage EXCEPT ![p] = FALSE]
    /\ kept' = [kept EXCEPT ![p] = @ \ {"stage_message"}]
    /\ Goto(p, "remove_stage")
    /\ UNCHANGED <<mail, bytes, claim, dmail, dclaim, flushed,
                   source, digest, sstat, cstat, attempt, final, made, report, history>>

\* remove_owned clears created before the fsync that may still fail.
RemoveStage(p) ==
    /\ pc[p] = "remove_stage"
    /\ made' = [made EXCEPT ![p] = @ \ {"stage"}]
    /\ \E l \in {"claim_dir", "restore"} : Goto(p, l)
    /\ UNCHANGED <<fs, source, digest, sstat, cstat, attempt, final, kept, report, history>>

-----------------------------------------------------------------------------
(* jf_storage_move: claim and removal of the source *)

ClaimDir(p) ==
    /\ pc[p] = "claim_dir"
    /\ SourceCurrent(p)
    /\ made' = [made EXCEPT ![p] = @ \cup {"claim"}]
    /\ \E l \in {"pre_claim", "restore"} : Goto(p, l)
    /\ UNCHANGED <<fs, source, digest, sstat, cstat, attempt, final, kept, report, history>>

PreClaim(p) ==
    /\ pc[p] = "pre_claim"
    /\ CopyCurrent(p)
    /\ Goto(p, "claim")
    /\ UNCHANGED <<fs, source, digest, sstat, cstat, attempt, final, kept, made, report, history>>

\* Fault: the claim is a second link, which leaves the name to other movers.
ClaimByLink(p) ==
    /\ pc[p] = "claim"
    /\ mail[Src[p]] # None
    /\ claim' = [claim EXCEPT ![p] = mail[Src[p]]]
    /\ NewCtime(mail[Src[p]])
    /\ kept' = [kept EXCEPT ![p] = @ \cup {"claimed_message"}]
    /\ Goto(p, "verify_claim")
    /\ UNCHANGED <<mail, bytes, stage, dmail, dclaim, flushed,
                   source, digest, cstat, attempt, final, made, report, history>>

\* renameat takes whatever the name holds by now.
Claim(p) ==
    /\ pc[p] = "claim"
    /\ mail[Src[p]] # None
    /\ claim' = [claim EXCEPT ![p] = mail[Src[p]]]
    /\ mail' = [mail EXCEPT ![Src[p]] = None]
    /\ NewCtime(mail[Src[p]])
    /\ kept' = [kept EXCEPT ![p] = @ \cup {"claimed_message"}]
    /\ Goto(p, "verify_claim")
    /\ UNCHANGED <<bytes, stage, dmail, dclaim, flushed,
                   source, digest, cstat, attempt, final, made, report, history>>

\* The claimed entry must be the pinned inode with unchanged bytes_identity; its
\* stat after the rename is the new baseline.
VerifyClaim(p) ==
    /\ pc[p] = "verify_claim"
    /\ claim[p] = source[p]
    /\ sstat[p] # "mtime"
    /\ sstat' = [sstat EXCEPT ![p] = "same"]
    /\ Goto(p, "sync_claim")
    /\ UNCHANGED <<fs, source, digest, cstat, attempt, final, kept, made, report, history>>

SyncClaim(p) ==
    /\ pc[p] = "sync_claim"
    /\ SyncDir(DirOf[Src[p]], mail, claim)
    /\ Goto(p, "final_destination")
    /\ UNCHANGED <<mail, bytes, stage, claim, flushed,
                   source, digest, sstat, cstat, attempt, final, kept, made, report, history>>

FinalDestination(p) ==
    /\ pc[p] = "final_destination"
    /\ CopyCurrent(p)
    /\ Goto(p, "final_source")
    /\ UNCHANGED <<fs, source, digest, sstat, cstat, attempt, final, kept, made, report, history>>

\* Fault: timestamps are trusted and the claimed source is not read again.
SourceIntactByStat(p) == claim[p] = source[p] /\ sstat[p] = "same"

SourceIntact(p) ==
    claim[p] = source[p] /\ sstat[p] = "same" /\ bytes[source[p]] = digest[p]

FinalSource(p) ==
    /\ pc[p] = "final_source"
    /\ SourceIntact(p)
    /\ Goto(p, "final_stat")
    /\ UNCHANGED <<fs, source, digest, sstat, cstat, attempt, final, kept, made, report, history>>

FinalStat(p) ==
    /\ pc[p] = "final_stat"
    /\ sstat[p] = "same"
    /\ Goto(p, "unlink")
    /\ UNCHANGED <<fs, source, digest, sstat, cstat, attempt, final, kept, made, report, history>>

Unlink(p) ==
    /\ pc[p] = "unlink"
    /\ claim' = [claim EXCEPT ![p] = None]
    /\ NewCtime(claim[p])
    /\ kept' = [kept EXCEPT ![p] = @ \ {"claimed_message"}]
    /\ unlinked' = unlinked \cup {p}
    /\ Goto(p, "remove_claim")
    /\ UNCHANGED <<mail, bytes, stage, dmail, dclaim, flushed,
                   source, digest, cstat, attempt, final, made, report, live, ops, disposed>>

RemoveClaim(p) ==
    /\ pc[p] = "remove_claim"
    /\ made' = [made EXCEPT ![p] = @ \ {"claim"}]
    /\ \/ SyncDir(DirOf[Src[p]], mail, claim) /\ Goto(p, "close")
       \/ UNCHANGED <<dmail, dclaim>> /\ Goto(p, "restore")
    /\ UNCHANGED <<mail, bytes, stage, claim, flushed,
                   source, digest, sstat, cstat, attempt, final, kept, report, history>>

Close(p) ==
    /\ pc[p] = "close"
    /\ Goto(p, "moved")
    /\ UNCHANGED <<fs, source, digest, sstat, cstat, attempt, final, kept, made, report, history>>

\* Every early return of prepare and every `goto done' of jf_storage_move that
\* leaves the step undone: a failed check, system call or allocation, a stop
\* request, a lock or directory that is no longer the opened one.
Fail(p) ==
    /\ \/ pc[p] \in Prepare /\ Goto(p, "failed")
       \/ pc[p] \in Forward /\ Goto(p, "restore")
    /\ UNCHANGED <<fs, source, digest, sstat, cstat, attempt, final, kept, made, report, history>>

-----------------------------------------------------------------------------
(* jf_storage_move from label done *)

NothingToRestore(p) ==
    /\ pc[p] = "restore"
    /\ "claimed_message" \notin kept[p]
    /\ Goto(p, "unstage")
    /\ UNCHANGED <<fs, source, digest, sstat, cstat, attempt, final, kept, made, report, history>>

\* Fault: rollback by plain renameat.
MayRestoreOver(p) == "claimed_message" \in kept[p]

MayRestore(p) == "claimed_message" \in kept[p] /\ mail[Src[p]] = None

\* renameat2(RENAME_NOREPLACE), then the two fsyncs, which may fail.
RestoreRename(p) ==
    /\ pc[p] = "restore"
    /\ MayRestore(p)
    /\ mail' = [mail EXCEPT ![Src[p]] = claim[p]]
    /\ claim' = [claim EXCEPT ![p] = None]
    /\ NewCtime(claim[p])
    /\ kept' = [kept EXCEPT ![p] = @ \ {"claimed_message"}]
    /\ \/ SyncDir(DirOf[Src[p]], mail', claim')
       \/ UNCHANGED <<dmail, dclaim>>
    /\ Goto(p, "unstage")
    /\ UNCHANGED <<bytes, stage, flushed,
                   source, digest, cstat, attempt, final, made, report, history>>

\* Without renameat2: linkat, which does not replace either, and fsync ...
RestoreLink(p) ==
    /\ pc[p] = "restore"
    /\ MayRestore(p)
    /\ mail' = [mail EXCEPT ![Src[p]] = claim[p]]
    /\ NewCtime(claim[p])
    /\ SyncDir(DirOf[Src[p]], mail', claim)
    /\ Goto(p, "relinked")
    /\ UNCHANGED <<bytes, stage, claim, flushed,
                   source, digest, cstat, attempt, final, kept, made, report, history>>

\* ... then unlinkat of the claim.
RestoreUnlink(p) ==
    /\ pc[p] = "relinked"
    /\ claim' = [claim EXCEPT ![p] = None]
    /\ NewCtime(claim[p])
    /\ kept' = [kept EXCEPT ![p] = @ \ {"claimed_message"}]
    /\ \/ SyncDir(DirOf[Src[p]], mail, claim')
       \/ UNCHANGED <<dmail, dclaim>>
    /\ Goto(p, "unstage")
    /\ UNCHANGED <<mail, bytes, stage, flushed,
                   source, digest, cstat, attempt, final, made, report, history>>

\* restore failed, the occupied name included: the claim stays and is reported.
Retain(p) ==
    /\ pc[p] \in {"restore", "relinked"}
    /\ "claimed_message" \in kept[p]
    /\ report' = [report EXCEPT ![p] = @ \cup {"source"}]
    /\ \/ SyncDir(DirOf[Src[p]], mail, claim)
       \/ UNCHANGED <<dmail, dclaim>>
    /\ Goto(p, "unstage")
    /\ UNCHANGED <<mail, bytes, stage, claim, flushed,
                   source, digest, sstat, cstat, attempt, final, kept, made, history>>

\* The staged copy is unlinked unless that fails.
Unstage(p) ==
    /\ pc[p] = "unstage"
    /\ \/ /\ "stage_message" \in kept[p]
          /\ stage' = [stage EXCEPT ![p] = FALSE]
          /\ kept' = [kept EXCEPT ![p] = @ \ {"stage_message"}]
       \/ UNCHANGED <<stage, kept>>
    /\ Goto(p, "remove")
    /\ UNCHANGED <<mail, bytes, claim, dmail, dclaim, flushed,
                   source, digest, sstat, cstat, attempt, final, made, report, history>>

\* An owned directory is removed when its message is gone, unless that fails.
Remove(p) ==
    /\ pc[p] = "remove"
    /\ \E gone \in SUBSET made[p] :
         /\ "stage" \in gone => "stage_message" \notin kept[p]
         /\ "claim" \in gone => "claimed_message" \notin kept[p]
         /\ made' = [made EXCEPT ![p] = @ \ gone]
    /\ Goto(p, "return")
    /\ UNCHANGED <<fs, source, digest, sstat, cstat, attempt, final, kept, report, history>>

\* Fault: once the source is gone the published copy counts as the message.
RecoveryOfSource(p, named) ==
    {r \in {"temporary"} : "stage" \in named}
    \cup {r \in {"source"} : "claim" \in named}
    \cup {r \in {"destination"} : final[p] # None /\ p \notin unlinked}

\* What a failure reports: owned directories that still exist, of those whose
\* path was recorded, and the published name.
Recovery(p, named) ==
    {r \in {"temporary"} : "stage" \in named}
    \cup {r \in {"source"} : "claim" \in named}
    \cup {r \in {"destination"} : final[p] # None}

\* A directory that create_owned could not finish has no recorded path.
Return(p) ==
    /\ pc[p] = "return"
    /\ \E named \in SUBSET made[p] :
         /\ "stage_message" \in kept[p] => "stage" \in named
         /\ report' = [report EXCEPT ![p] = @ \cup Recovery(p, named)]
    /\ Goto(p, "failed")
    /\ UNCHANGED <<fs, source, digest, sstat, cstat, attempt, final, kept, made, history>>

-----------------------------------------------------------------------------
(* Crash, clients, storage *)

\* SIGKILL or loss of the process between any two system calls.
Kill(p) ==
    /\ pc[p] \notin Ended
    /\ Goto(p, "killed")
    /\ UNCHANGED <<fs, source, digest, sstat, cstat, attempt, final, kept, made, report, history>>

ClientOp == ops < MaxClientOps /\ ops' = ops + 1

(***************************************************************************)
(* A file counts as disposed of when a client deletes it; and when, with   *)
(* the source claimed and the copy's last check passed, a client deletes   *)
(* or edits the copy, the user then having acted on the moved message; and *)
(* when, after the source's own last check, it writes to the source        *)
(* through an old descriptor, which no later system call could notice.     *)
(***************************************************************************)
CopyFinal(p) == p \in unlinked \/ pc[p] \in {"final_source", "final_stat", "unlink"}

SourceFinal(p, noticed) ==
    p \in unlinked \/ pc[p] = "unlink" \/ (pc[p] = "final_stat" /\ ~noticed)

DisposedCopy(p) == IF CopyFinal(p) THEN {source[p]} ELSE {}

Deliver(n, f) ==
    /\ ClientOp
    /\ f \notin live
    /\ mail[n] = None
    /\ mail' = [mail EXCEPT ![n] = f]
    /\ live' = live \cup {f}
    /\ UNCHANGED <<bytes, stage, claim, dmail, dclaim, flushed, locals, unlinked, disposed>>

\* A flag change: a rename within one directory onto a free name.
ClientRename(m, n) ==
    /\ ClientOp
    /\ mail[m] # None
    /\ mail[n] = None
    /\ DirOf[m] = DirOf[n]
    /\ mail' = [mail EXCEPT ![n] = mail[m], ![m] = None]
    /\ NewCtime(mail[m])
    /\ UNCHANGED <<bytes, stage, claim, dmail, dclaim, flushed, pc, source, digest, cstat,
                   attempt, final, kept, made, report, live, unlinked, disposed>>

Delete(n) ==
    /\ ClientOp
    /\ mail[n] # None
    /\ mail' = [mail EXCEPT ![n] = None]
    /\ NewCtime(mail[n])
    /\ disposed' = disposed \cup
         (IF mail[n] \in Movers THEN DisposedCopy(mail[n]) ELSE {mail[n]})
    /\ UNCHANGED <<bytes, stage, claim, dmail, dclaim, flushed, pc, source, digest, cstat,
                   attempt, final, kept, made, report, live, unlinked>>

\* A write in place that leaves size and, within the clock's granularity unless
\* noticed, both timestamps.  The descriptor may predate a claim.
EditSource(f, b, noticed) ==
    /\ ClientOp
    /\ Public(f) \/ \E p \in Movers : claim[p] = f
    /\ bytes' = [bytes EXCEPT ![f] = b]
    /\ sstat' = [p \in Movers |-> IF source[p] = f /\ noticed THEN "mtime" ELSE sstat[p]]
    /\ disposed' = disposed \cup
         {g \in {f} : \E p \in Movers : source[p] = f /\ SourceFinal(p, noticed)}
    /\ UNCHANGED <<mail, stage, claim, dmail, dclaim, flushed, pc, source, digest, cstat,
                   attempt, final, kept, made, report, live, unlinked>>

EditCopy(p, b, noticed) ==
    /\ ClientOp
    /\ Public(p)
    /\ bytes' = [bytes EXCEPT ![p] = b]
    /\ cstat' = [cstat EXCEPT ![p] = IF noticed THEN "mtime" ELSE @]
    /\ disposed' = disposed \cup DisposedCopy(p)
    /\ UNCHANGED <<mail, stage, claim, dmail, dclaim, flushed, pc, source, digest, sstat,
                   attempt, final, kept, made, report, live, unlinked>>

\* The kernel writes a directory back of its own accord.
Writeback(d) ==
    /\ SyncDir(d, mail, claim)
    /\ <<dmail', dclaim'>> # <<dmail, dclaim>>
    /\ UNCHANGED <<mail, bytes, stage, claim, flushed, locals, history>>

-----------------------------------------------------------------------------
Staging(p) == Open(p) \/ ReadHeaders(p) \/ Begin(p) \/ StageDir(p) \/ StageFile(p)
              \/ CopyHeader(p) \/ CopyBody(p) \/ PrePublish(p) \/ Publish(p)
              \/ SyncPublished(p) \/ CleanupStage(p) \/ RemoveStage(p)

Claiming(p) == ClaimDir(p) \/ PreClaim(p) \/ Claim(p) \/ VerifyClaim(p) \/ SyncClaim(p)
               \/ FinalDestination(p) \/ FinalSource(p) \/ FinalStat(p) \/ Unlink(p)
               \/ RemoveClaim(p) \/ Close(p)

Done(p) == Fail(p) \/ NothingToRestore(p) \/ RestoreRename(p) \/ RestoreLink(p)
           \/ RestoreUnlink(p) \/ Retain(p) \/ Unstage(p) \/ Remove(p) \/ Return(p)

Step(p) == Staging(p) \/ Claiming(p) \/ Done(p)

Client ==
    \/ \E n \in Names, f \in Files : Deliver(n, f)
    \/ \E m, n \in Names : ClientRename(m, n)
    \/ \E n \in Names : Delete(n)
    \/ \E f \in Files, b \in Bytes, noticed \in BOOLEAN : EditSource(f, b, noticed)
    \/ \E p \in Movers, b \in Bytes, noticed \in BOOLEAN : EditCopy(p, b, noticed)

AllEnded == (\A p \in Movers : pc[p] \in Ended) /\ UNCHANGED vars

Next ==
    \/ \E p \in Movers : Step(p)
    \/ \E p \in Movers : Kill(p)
    \/ Client
    \/ \E d \in Dirs : Writeback(d)
    \/ AllEnded

Spec == Init /\ [][Next]_vars

\* No step of jf_storage_move waits for anybody, so a thread that is scheduled
\* goes on until it returns.
FairSpec == Spec /\ \A p \in Movers : WF_vars(Step(p))

-----------------------------------------------------------------------------
(* Properties *)

\* Types; and jf_storage_move makes no publication attempt past RETRIES.
TypeOK ==
    /\ mail \in [Names -> Inodes \cup {None}]
    /\ bytes \in [Inodes -> Bytes]
    /\ stage \in [Movers -> BOOLEAN]
    /\ claim \in [Movers -> Inodes \cup {None}]
    /\ dmail \in [Names -> Inodes \cup {None}]
    /\ dclaim \in [Movers -> Inodes \cup {None}]
    /\ flushed \in SUBSET Movers
    /\ pc \in [Movers -> Prepare \cup Forward \cup Cleanup \cup Ended]
    /\ source \in [Movers -> Files \cup {None}]
    /\ digest \in [Movers -> Bytes]
    /\ sstat \in [Movers -> {"same", "ctime", "mtime"}]
    /\ cstat \in [Movers -> {"same", "mtime"}]
    /\ attempt \in [Movers -> 0..Retries]
    /\ final \in [Movers -> Names \cup {None}]
    /\ kept \in [Movers -> SUBSET {"stage_message", "claimed_message"}]
    /\ made \in [Movers -> SUBSET {"stage", "claim"}]
    /\ report \in [Movers -> SUBSET {"source", "destination", "temporary"}]
    /\ live \in SUBSET Files
    /\ ops \in 0..MaxClientOps
    /\ unlinked \in SUBSET Movers
    /\ disposed \in SUBSET Files
    /\ \A p \in Movers : pc[p] = "publish" => attempt[p] < Retries

\* The copy of file f that some mover published is public and has f's bytes.
Copied(f) == \E p \in Movers : source[p] = f /\ Public(p) /\ bytes[p] = bytes[f]

\* No message is lost: whatever moves, failures, kills and client operations
\* interleave, the present contents of a message that no client disposed of are
\* under a public name, as the file or as a complete copy, or in a claim
\* directory.  The messages a claim captured by mistake are covered too.
NoLoss ==
    \A f \in live \ disposed :
        Public(f) \/ (\E p \in Movers : claim[p] = f) \/ Copied(f)

\* No message is lost to a power failure at any moment: a message that was on
\* stable storage at the start, and that no client disposed of, is there still
\* or a published copy is, with its data.
DurableNoLoss ==
    \A f \in {MailInit[n] : n \in Names} \ (disposed \cup {None}) :
        \/ \E n \in Names : dmail[n] = f
        \/ \E p \in Movers : dclaim[p] = f
        \/ \E p \in flushed : source[p] = f /\ \E n \in Names : dmail[n] = p

\* One message moves at most once: of several movers of one file at most one
\* gets to unlink it, and then no public name has it any more.
MovedOnce ==
    \A p \in unlinked :
        /\ ~Public(source[p])
        /\ \A q \in unlinked : source[q] = source[p] => q = p

\* A move that ends successfully leaves nothing behind, and one that fails
\* leaves a claim, a staged copy or a published copy only if its diagnostics
\* name it (recovery->source, ->temporary, ->destination).
LeftoversReported ==
    \A p \in Movers :
        /\ pc[p] \in {"moved", "noop"} => made[p] = {} /\ claim[p] = None /\ ~stage[p]
        /\ pc[p] = "failed" =>
              /\ claim[p] # None => "source" \in report[p]
              /\ stage[p] => "temporary" \in report[p]
              /\ final[p] # None => "destination" \in report[p]

\* Neither publication nor rollback replaces an entry: an occupied public name
\* keeps its inode or becomes free.
NoClobber ==
    [][\A n \in Names : mail[n] # None => mail'[n] \in {mail[n], None}]_vars

\* Every move returns, or its process dies: publication retries are bounded and
\* each error path leads out.
Termination == \A p \in Movers : <>(pc[p] \in Ended)
============================================================================
