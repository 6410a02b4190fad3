------------------------------- MODULE Contact -------------------------------
(***************************************************************************)
(* src/src/filter/contact.c: jf_contact_add appends a contact to the       *)
(* address book under an advisory lock, among other invocations, an editor *)
(* that takes no lock, failures, kills and power losses.                   *)
(*                                                                         *)
(* A book is a sequence of items: the [format] section, records with their *)
(* section number and canonical address (None where a record has none),    *)
(* and lines that are neither.  A record is appended with a line break in  *)
(* front, so what a torn append leaves is a prefix of its items, the last  *)
(* of them perhaps a broken line.                                          *)
(***************************************************************************)
EXTENDS Naturals, Sequences, FiniteSetsExt

CONSTANTS
    Writers,       \* invocations that may run at the same time
    Addresses,     \* the contacts they add
    EditorAddress, \* the contact the editor adds
    FirstBooks,    \* the books there may be at first, None for no file
    Inodes,        \* files that may exist, as numbers
    RuleMax,       \* JF_RULE_MAX, the most records a book may have
    IdMax,         \* SIZE_MAX, no valid section number
    MaxFaults, MaxEdits, MaxPower,
    None, Format, Broken

Record == [id : 0..IdMax, email : Addresses \cup {EditorAddress, None}]
Items == Record \cup {Format, Broken}

ASSUME ContactAssumption ==
    /\ RuleMax \in Nat /\ IdMax \in Nat /\ Inodes \subseteq Nat /\ Inodes # {}
    /\ MaxFaults \in Nat /\ MaxEdits \in Nat /\ MaxPower \in Nat
    /\ None \notin Addresses \cup {EditorAddress} /\ None \notin Inodes \cup Writers
    /\ Format \notin Record /\ Broken \notin Record /\ Format # Broken

VARIABLES
    named, file,       \* the inode the book's name leads to; the items of each inode
    dnamed, dfile,     \* what of them is on stable storage
    owner, readers,    \* per inode: who has its write lock, and its read locks
    w,                 \* per invocation: where it stands, and its locals
    loaded,            \* what the editor has loaded
    reported,          \* history: contacts whose append was reported
    faults, edits, power,
    raced,             \* history: an edit overlapped an append
    exposed,           \* history: contacts reported while another creator had yet to make the name durable
    torn               \* history: an append failed half way

book == <<named, file>>
disk == <<dnamed, dfile>>
locks == <<owner, readers>>
env == <<faults, edits, power>>
history == <<reported, raced, exposed, torn>>
vars == <<book, disk, locks, w, loaded, env, history>>

Away == [pc |-> "idle", email |-> None, check |-> FALSE, fd |-> None, created |-> FALSE,
         before |-> 0, id |-> 0, format |-> FALSE]

Init ==
    /\ \E b \in FirstBooks :
         /\ named = IF b = None THEN None ELSE Min(Inodes)
         /\ file = [i \in Inodes |-> IF i = named THEN b ELSE <<>>]
    /\ dnamed = named /\ dfile = file
    /\ owner = [i \in Inodes |-> None] /\ readers = [i \in Inodes |-> {}]
    /\ w = [p \in Writers |-> Away]
    /\ loaded = None
    /\ reported = {}
    /\ faults = 0 /\ edits = 0 /\ power = 0
    /\ raced = FALSE /\ exposed = {} /\ torn = FALSE

-----------------------------------------------------------------------------
(* Reading a book *)

Records(b) == {i \in DOMAIN b : b[i] \notin {Format, Broken}}
Emails(b) == {b[i].email : i \in Records(b)} \ {None}

\* The line makes the book invalid: [format] comes first and once, no number is
\* IdMax, and there are at most RuleMax records.
Invalid(b, i) ==
    \/ b[i] = Broken
    \/ b[i] = Format /\ i > 1
    \/ i \in Records(b) /\ (b[1] # Format \/ b[i].id = IdMax \/ i - 1 > RuleMax)

\* Fault: a full book takes one record more.
FullLate(b) == Cardinality(Records(b)) > RuleMax

Full(b) == Cardinality(Records(b)) = RuleMax

\* The first line that decides: it is invalid, or has the address.
Scan(b, email) ==
    LET stop == {i \in DOMAIN b : Invalid(b, i) \/ (i \in Records(b) /\ b[i].email = email)} IN
    IF stop = {} THEN "absent" ELSE IF Invalid(b, Min(stop)) THEN "invalid" ELSE "present"

\* Fault: [format] is written each time.
HasFormatNever(b) == FALSE

HasFormat(b) == b # <<>>

NextId(b) == IF Records(b) = {} THEN 0 ELSE 1 + Max({b[i].id : i \in Records(b)})

\* No address and no section number is there twice.
Distinct(b) ==
    \A i, j \in Records(b) :
        b[i].id = b[j].id \/ (b[i].email = b[j].email /\ b[i].email # None) => i = j

\* What the properties are about begins with a book that is valid.
ASSUME FirstBooksAssumption ==
    \A b \in FirstBooks \ {None} :
        /\ b \in Seq(Items) /\ Cardinality(Records(b)) <= RuleMax
        /\ Distinct(b) /\ \A i \in DOMAIN b : ~Invalid(b, i)

\* What is appended; an empty book gets its [format] first.
Appended(p) ==
    (IF w[p].format THEN <<>> ELSE <<Format>>) \o <<[id |-> w[p].id, email |-> w[p].email]>>

\* What a short write may leave of it: a prefix, or one whose last line is broken;
\* a record may be there with its number and no address.
Tears(p) ==
    LET whole == Appended(p)
        prefixes == {SubSeq(whole, 1, n) : n \in 0..Len(whole)}
        cut == SubSeq(whole, 1, Len(whole) - 1)
    IN prefixes \cup {Append(s, Broken) : s \in prefixes \ {whole}}
                \cup {Append(cut, [id |-> w[p].id, email |-> None])}

-----------------------------------------------------------------------------
(* jf_contact_add *)

At(p, l) == w[p].pc = l
Goto(p, l) == w' = [w EXCEPT ![p].pc = l]

\* close: the process's locks on the file go.
Close(p) ==
    /\ owner' = [i \in Inodes |-> IF owner[i] = p THEN None ELSE owner[i]]
    /\ readers' = [i \in Inodes |-> readers[i] \ {p}]

Return(p) == w' = [w EXCEPT ![p] = Away] /\ Close(p)

Start(p, email, check) ==
    /\ At(p, "idle")
    /\ w' = [w EXCEPT ![p] = [Away EXCEPT !.pc = IF check THEN "open" ELSE "create",
                                          !.email = email, !.check = check]]
    /\ UNCHANGED <<book, disk, locks, loaded, env, history>>

Fresh == {i \in Inodes : i # named /\ i # dnamed /\ \A p \in Writers : w[p].fd # i}

\* O_CREAT|O_EXCL
Create(p) ==
    /\ At(p, "create")
    /\ IF named # None
       THEN Goto(p, "open") /\ UNCHANGED book
       ELSE \E i \in Fresh :
              /\ i = Min(Fresh)
              /\ named' = i /\ file' = [file EXCEPT ![i] = <<>>]
              /\ w' = [w EXCEPT ![p].pc = "stat", ![p].fd = i, ![p].created = TRUE]
    /\ UNCHANGED <<disk, locks, loaded, env, history>>

\* A book that does not exist has no contact.
Open(p) ==
    /\ At(p, "open")
    /\ IF named = None THEN Return(p)
       ELSE w' = [w EXCEPT ![p].pc = "stat", ![p].fd = named] /\ UNCHANGED locks
    /\ UNCHANGED <<book, disk, loaded, env, history>>

\* fstat, of a file that others may have changed since it was opened or created.
Stat(p) ==
    /\ At(p, "stat")
    /\ w' = [w EXCEPT ![p].pc = "lock", ![p].before = Len(file[w[p].fd])]
    /\ UNCHANGED <<book, disk, locks, loaded, env, history>>

\* Fault: the lock is not waited for, and not looked at.
MayLockAny(p) == TRUE

\* F_SETLK: granted, or busy.
MayLock(p) ==
    LET i == w[p].fd IN owner[i] = None /\ (w[p].check \/ readers[i] = {})

Lock(p) ==
    /\ At(p, "lock")
    /\ IF ~MayLock(p) THEN Return(p)
       ELSE /\ owner' = IF w[p].check THEN owner ELSE [owner EXCEPT ![w[p].fd] = p]
            /\ readers' = IF w[p].check THEN [readers EXCEPT ![w[p].fd] = @ \cup {p}] ELSE readers
            /\ Goto(p, "read")
    /\ UNCHANGED <<book, disk, loaded, env, history>>

\* The whole book is read and scanned: the contact is there, or the book is not valid
\* or full, or there is a record to append.
Read(p) ==
    LET b == file[w[p].fd] IN
    /\ At(p, "read")
    /\ IF w[p].check \/ Scan(b, w[p].email) # "absent" \/ Full(b)
       THEN Return(p)
       ELSE /\ w' = [w EXCEPT ![p].pc = "recheck", ![p].id = NextId(b), ![p].format = HasFormat(b)]
            /\ UNCHANGED locks
    /\ UNCHANGED <<book, disk, loaded, env, history>>

\* Size and times are those of before the lock, and the name still leads to the file.
Unchanged(p) == Len(file[w[p].fd]) = w[p].before /\ named = w[p].fd

Recheck(p) ==
    /\ At(p, "recheck")
    /\ IF Unchanged(p) THEN Goto(p, "write") /\ UNCHANGED locks ELSE Return(p)
    /\ UNCHANGED <<book, disk, loaded, env, history>>

\* One write with O_APPEND.
Write(p) ==
    /\ At(p, "write")
    /\ file' = [file EXCEPT ![w[p].fd] = @ \o Appended(p)]
    /\ Goto(p, "sync")
    /\ UNCHANGED <<named, disk, locks, loaded, env, history>>

\* Fault: fsync is left to the system.
SyncFileNever(p) == UNCHANGED dfile

SyncFile(p) == dfile' = [dfile EXCEPT ![w[p].fd] = file[w[p].fd]]

Success(p) == reported' = reported \cup {w[p].email} /\ Return(p)
Unnamed(p) == ~w[p].created /\ dnamed # w[p].fd

\* fsync; only the creator makes the name durable too.
Sync(p) ==
    /\ At(p, "sync")
    /\ SyncFile(p)
    /\ IF w[p].created THEN Goto(p, "sync_parent") /\ UNCHANGED <<reported, locks>> ELSE Success(p)
    /\ exposed' = exposed \cup (IF Unnamed(p) THEN {w[p].email} ELSE {})
    /\ UNCHANGED <<book, dnamed, loaded, env, raced, torn>>

SyncParent(p) ==
    /\ At(p, "sync_parent")
    /\ dnamed' = named
    /\ Success(p)
    /\ UNCHANGED <<book, dfile, loaded, env, raced, exposed, torn>>

-----------------------------------------------------------------------------
(* Failures, kills, the editor, and power *)

\* A call fails, or the process is killed; a write may have been made in part.
Fail(p) ==
    /\ ~At(p, "idle") /\ faults < MaxFaults
    /\ faults' = faults + 1
    /\ IF At(p, "write")
       THEN /\ \E s \in Tears(p) : file' = [file EXCEPT ![w[p].fd] = @ \o s]
            /\ torn' = TRUE
       ELSE UNCHANGED <<file, torn>>
    /\ Return(p)
    /\ UNCHANGED <<named, disk, loaded, edits, power, reported, raced, exposed>>

\* The editor, which takes no lock, changes the book after the last check.
Races == raced \/ \E p \in Writers : w[p].pc \in {"write", "sync", "sync_parent"}

EditorRecord(b) == [id |-> NextId(b), email |-> EditorAddress]
Edited(b) == b # <<>> /\ EditorAddress \notin Emails(b) /\ ~Full(b) /\ NextId(b) < IdMax
             /\ \A i \in DOMAIN b : ~Invalid(b, i)

\* It appends in place,
EditAppend ==
    /\ edits < MaxEdits /\ named # None /\ Edited(file[named])
    /\ edits' = edits + 1
    /\ file' = [file EXCEPT ![named] = Append(@, EditorRecord(@))]
    /\ raced' = Races
    /\ UNCHANGED <<named, disk, locks, w, loaded, faults, power, reported, exposed, torn>>

\* or loads the book and renames a new file over it.
EditLoad ==
    /\ edits < MaxEdits /\ named # None /\ loaded = None /\ Edited(file[named])
    /\ edits' = edits + 1
    /\ loaded' = file[named]
    /\ UNCHANGED <<book, disk, locks, w, faults, power, history>>

EditSave ==
    /\ loaded # None /\ named # None /\ Fresh # {}
    /\ LET i == Min(Fresh) IN
         /\ named' = i /\ dnamed' = i
         /\ file' = [file EXCEPT ![i] = Append(loaded, EditorRecord(loaded))]
         /\ dfile' = [dfile EXCEPT ![i] = file'[i]]
    /\ raced' = (Races \/ file[named] # loaded)
    /\ loaded' = None
    /\ UNCHANGED <<locks, w, env, reported, exposed, torn>>

\* Contents and names reach the disk on their own.
Writeback ==
    /\ power < MaxPower
    /\ \/ dnamed' = named /\ UNCHANGED dfile
       \/ dfile' = file /\ UNCHANGED dnamed
    /\ UNCHANGED <<book, locks, w, loaded, env, history>>

\* Of an append that was not synced a part may be on the disk.
Remains ==
    {dfile} \cup
    UNION {{[dfile EXCEPT ![w[p].fd] = @ \o s] : s \in Tears(p)} :
             p \in {q \in Writers : At(q, "sync") /\ file[w[q].fd] = dfile[w[q].fd] \o Appended(q)}}

PowerLoss ==
    /\ power < MaxPower
    /\ power' = power + 1
    /\ file' \in Remains /\ dfile' = file' /\ named' = dnamed
    /\ torn' = (torn \/ file' # dfile)
    /\ w' = [p \in Writers |-> Away] /\ loaded' = None
    /\ owner' = [i \in Inodes |-> None] /\ readers' = [i \in Inodes |-> {}]
    /\ UNCHANGED <<dnamed, faults, edits, reported, raced, exposed>>

Step(p) ==
    \/ Create(p) \/ Open(p) \/ Stat(p) \/ Lock(p) \/ Read(p) \/ Recheck(p)
    \/ Write(p) \/ Sync(p) \/ SyncParent(p)

Next ==
    \/ \E p \in Writers :
         Step(p) \/ Fail(p) \/ (\E a \in Addresses, check \in BOOLEAN : Start(p, a, check))
    \/ EditAppend \/ EditLoad \/ EditSave
    \/ Writeback \/ PowerLoss

Spec == Init /\ [][Next]_vars

-----------------------------------------------------------------------------
(* Properties *)

Named == IF named = None THEN <<>> ELSE file[named]
DNamed == IF dnamed = None THEN <<>> ELSE dfile[dnamed]

\* Types; and no book has more than RuleMax records.
TypeOK ==
    /\ named \in Inodes \cup {None} /\ dnamed \in Inodes \cup {None}
    /\ \A i \in Inodes : \A f \in {file[i], dfile[i]} : f \in Seq(Items)
    /\ \A i \in Inodes : ~raced => Cardinality(Records(file[i])) <= RuleMax
    /\ \A p \in Writers : w[p].fd \in Inodes \cup {None} /\ w[p].id \in 0..IdMax
    /\ reported \subseteq Addresses

\* No address and no section number is in the book twice, whatever invocations run at
\* the same time, unless an edit overlapped an append.
Unique == ~raced => Distinct(Named)

\* A contact that was reported added is in the book the name leads to, whole, and on
\* stable storage under that name too, through failures, kills and a power loss; not so,
\* until the power is lost, one reported while the creator of the book had not made its
\* name durable yet.
Kept ==
    ~raced =>
        /\ reported \ (IF power > 0 THEN exposed ELSE {}) \subseteq Emails(Named)
        /\ reported \ exposed \subseteq Emails(DNamed)

\* No append that succeeds makes the book one that is refused from then on, as long as
\* section numbers stay below the last one.
StaysValid ==
    ~torn /\ ~raced /\ (\A i \in Records(Named) : Named[i].id # IdMax) =>
        \A i \in DOMAIN Named : ~Invalid(Named, i)
=============================================================================
