------------------------------ MODULE Snapshot -------------------------------
(***************************************************************************)
(* src/src/filter/snapshot.c: the inputs of the compiler are collected one *)
(* after the other, without a lock that the user's editor would respect,   *)
(* and collected again before anything is published (the loop of           *)
(* jf_compile, and jf_compile_import, in src/src/filter/generation.c).     *)
(* Generation takes a snapshot for one step; this module shows that it may.*)
(*                                                                         *)
(* A content is a number that no file has had before, or Absent.  Prior    *)
(* exports are reused by the digests of what they were made from.          *)
(***************************************************************************)
EXTENDS Naturals, Sequences, SequencesExt

CONSTANTS
    Plain,      \* the inputs read before the accounts: compiler, Filters.txt, Aliases.txt
    Late,       \* those read after them: the profile
    Optional,   \* those of both that need not exist
    Accounts,   \* account files, in the order their names are sorted
    Books,      \* address books, in the order they are read
    Merges,     \* the sets of inputs that an import may have new contents for
    MaxEdits,   \* bound on edits
    Absent, Unread, None

Files == Range(Plain \o Late) \cup Range(Accounts) \cup Range(Books) \cup {"exporter"}
Removable == Optional \cup Range(Accounts) \cup Range(Books)

\* What an import writes.
Imported == MaxEdits + 1
Contents == 0..Imported \cup {Absent}

ASSUME SnapshotAssumption ==
    /\ \A s \in {Plain, Late, Accounts, Books} : s \in Seq(Range(s))
    /\ Plain # <<>> /\ Late # <<>>
    /\ \A i, j \in DOMAIN Books : Books[i] = Books[j] => i = j
    /\ Range(Plain) \cap Range(Late) = {} /\ Range(Plain \o Late) \cap Range(Accounts) = {}
    /\ Range(Books) \cap (Range(Plain \o Late) \cup Range(Accounts)) = {}
    /\ "exporter" \notin Range(Plain \o Late) \cup Range(Accounts) \cup Range(Books)
    /\ Optional \subseteq Range(Plain \o Late)
    /\ Merges \subseteq SUBSET (Range(Plain) \cup Range(Books))
    /\ MaxEdits \in Nat
    /\ Absent \notin 0..Imported /\ Unread \notin 0..Imported /\ Absent # Unread

VARIABLES
    cur,       \* the files' contents
    c,         \* the collection in progress
    run,       \* the invocation: its kind and step, its attempts and snapshots
    selected,  \* the dependencies of the last generation that was published
    ended,     \* how the last invocation ended
    edits,
    current    \* history: the first snapshot was current at an instant since it was complete

vars == <<cur, c, run, selected, ended, edits, current>>

\* The dependencies of a snapshot: a content per input, and the export of each book
\* with the exporter and the book it was made by and from.
NoDeps == [val |-> [f \in Files |-> Unread], export |-> [b \in Range(Books) |-> None]]

NoCollection == [pc |-> "none", todo |-> <<>>, books |-> Books, fd |-> Unread, dirty |-> FALSE,
                 deps |-> NoDeps]
NoRun == [kind |-> "none", step |-> "idle", attempt |-> 0, prior |-> None,
          first |-> None, over |-> {}, overlay |-> None]

Init ==
    /\ \E gone \in {{}, Removable} : cur = [f \in Files |-> IF f \in gone THEN Absent ELSE 0]
    /\ c = NoCollection /\ run = NoRun
    /\ selected = None /\ ended = "none"
    /\ edits = 0 /\ current = FALSE

-----------------------------------------------------------------------------
(* input: lstat, open, fstat, read, fstat *)

At(l) == c.pc = l
Input == Head(c.todo)

\* Where reading goes on once the present list of inputs is done.  The exporter is read
\* when the first book that is there has been.
Done(v) ==
    IF Input \in Range(Plain) THEN "list"
    ELSE IF Input \in Range(Accounts) THEN "profile"
    ELSE IF Input \in Range(Late) THEN "book"
    ELSE IF Input \in Range(Books) /\ v # Absent /\ c.deps.val["exporter"] = Unread THEN "exporter"
    ELSE "export"

\* The next input, with its content recorded.
Recorded(v) ==
    LET rest == Tail(c.todo) IN
    c' = [c EXCEPT !.deps.val[Input] = v, !.todo = rest, !.dirty = FALSE, !.fd = Unread,
                   !.pc = IF rest # <<>> THEN (IF Head(rest) \in Range(Accounts) THEN "lstat" ELSE "open")
                          ELSE Done(v)]

Only(new) == c' = new /\ UNCHANGED <<cur, run, selected, ended, edits, current>>
Same == UNCHANGED <<cur, run, selected, ended, edits, current>>
Stops(l) == Only([c EXCEPT !.pc = l])

\* The contents an import has in hand are not read from the file.
Override ==
    /\ At("open") /\ run.step = "overlay" /\ Input \in run.over
    /\ Recorded(Imported) /\ Same

\* An account that is gone has changed; an optional input is looked for again.
Open ==
    /\ At("open") /\ ~(run.step = "overlay" /\ Input \in run.over)
    /\ IF cur[Input] # Absent THEN Only([c EXCEPT !.pc = "read", !.fd = cur[Input]])
       ELSE IF Input \in Range(Accounts) THEN Stops("changed")
       ELSE IF Input \in Optional \cup Range(Books) THEN Stops("absent")
       ELSE Stops("failed")

\* It is still absent, or the collection fails.
StillAbsent ==
    /\ At("absent")
    /\ IF cur[Input] # Absent THEN Stops("failed")
       ELSE Recorded(Absent) /\ Same

\* The descriptor's size and times are the same as before the bytes were read.
ReadInput ==
    /\ At("read")
    /\ IF c.dirty THEN Stops("changed") ELSE Recorded(c.fd) /\ Same

-----------------------------------------------------------------------------
(* accounts_walk, export_book and collect *)

\* The places of the account files that are there, in the order of the names.
Present == {i \in DOMAIN Accounts : cur[Accounts[i]] # Absent}
Sorted(places) ==
    {s \in UNION {[1..n -> places] : n \in 0..Len(Accounts)} :
        Range(s) = places /\ \A i, j \in DOMAIN s : i < j => s[i] < s[j]}

\* The directory's names; a name that is not there is recorded by not being listed.
List ==
    /\ At("list")
    /\ \E s \in Sorted(Present) :
         Only([c EXCEPT !.todo = [i \in DOMAIN s |-> Accounts[s[i]]],
                        !.pc = IF s = <<>> THEN "profile" ELSE "lstat",
                        !.deps.val = [f \in Files |-> IF f \in Range(Accounts) /\ cur[f] = Absent
                                                      THEN Absent ELSE @[f]]])

AccountLstat == At("lstat") /\ Stops(IF cur[Input] = Absent THEN "changed" ELSE "stat")
AccountStat == At("stat") /\ Stops(IF cur[Input] = Absent THEN "failed" ELSE "open")

Profile == At("profile") /\ Only([c EXCEPT !.todo = Late, !.pc = "open"])

\* The next book, or the end.
Book ==
    /\ At("book")
    /\ IF c.books = <<>> THEN Stops("collected")
       ELSE Only([c EXCEPT !.todo = <<Head(c.books)>>, !.pc = "open"])

Exporter == At("exporter") /\ Only([c EXCEPT !.todo = <<"exporter">>, !.pc = "open"])

\* Fault: an export is reused whatever program made it.
ReusableByBook(prior, deps, b) ==
    prior # None /\ prior.export[b] # None /\ prior.val[b] = deps.val[b]

\* reusable_export: book and exporter are those of the prior snapshot.
Reusable(prior, deps, b) ==
    /\ prior # None /\ prior.export[b] # None
    /\ prior.val[b] = deps.val[b]
    /\ prior.val["exporter"] = deps.val["exporter"]

\* The prior of the collection in progress.
Prior ==
    IF run.step = "collect" THEN run.prior ELSE IF run.step = "overlay" THEN None ELSE run.first

\* The exporter that runs is the one that is there now, on the bytes that were read;
\* a book that is absent has no export.
Export ==
    LET b == Head(c.books) IN
    /\ At("export")
    /\ Only([c EXCEPT !.pc = "book", !.books = Tail(c.books),
               !.deps.export[b] = IF c.deps.val[b] = Absent THEN None
                                  ELSE IF Reusable(Prior, c.deps, b) THEN Prior.export[b]
                                  ELSE [by |-> cur["exporter"], of |-> c.deps.val[b]]])

Collect ==
    Override \/ Open \/ StillAbsent \/ ReadInput \/ List \/ AccountLstat \/ AccountStat
    \/ Profile \/ Book \/ Exporter \/ Export

-----------------------------------------------------------------------------
(* The loop of jf_compile, and jf_compile_import *)

Collecting == [NoCollection EXCEPT !.pc = "open", !.todo = Plain]

\* A published generation's dependencies are the prior of a compile, not of an import.
Start(kind) ==
    /\ run.step = "idle"
    /\ run' = [NoRun EXCEPT !.kind = kind, !.step = "collect",
                            !.prior = IF kind = "compile" THEN selected ELSE None]
    /\ c' = Collecting /\ ended' = "none" /\ current' = FALSE
    /\ UNCHANGED <<cur, selected, edits>>

\* The inputs of a snapshot are all as the files are now.
AsNow(deps, now) == \A f \in Files : deps.val[f] \in {Unread, now[f]}

\* An import merges the script into its inputs; those that the merge changes are overridden.
Collected ==
    /\ At("collected") /\ run.step = "collect"
    /\ \E over \in IF run.kind = "import" THEN Merges ELSE {{}} :
         run' = [run EXCEPT !.first = c.deps, !.over = over,
                            !.step = IF run.kind = "import" THEN "overlay" ELSE "recheck"]
    /\ current' = AsNow(c.deps, cur)
    /\ c' = Collecting
    /\ UNCHANGED <<cur, selected, ended, edits>>

Overlaid ==
    /\ At("collected") /\ run.step = "overlay"
    /\ run' = [run EXCEPT !.overlay = c.deps, !.step = "recheck"]
    /\ c' = Collecting
    /\ UNCHANGED <<cur, selected, ended, edits, current>>

End(how) ==
    /\ ended' = how /\ run' = NoRun /\ c' = NoCollection
    /\ UNCHANGED <<cur, edits, current>>

\* Fault: one attempt too many.
LastAttemptLate == run.kind = "import" \/ run.attempt = 3

LastAttempt == run.kind = "import" \/ run.attempt = 2

\* Another attempt, with what was collected last for its prior.
Retry(prior) ==
    IF LastAttempt
    THEN End("changed") /\ UNCHANGED selected
    ELSE /\ run' = [NoRun EXCEPT !.kind = "compile", !.step = "collect",
                                 !.attempt = run.attempt + 1, !.prior = prior]
         /\ c' = Collecting /\ current' = FALSE
         /\ UNCHANGED <<cur, selected, ended, edits>>

\* Fault: what is built is published without a second look.
AgreeAlways == TRUE

\* The fingerprints of the two collections are equal.
Agree == c.deps = run.first

Disagree == At("collected") /\ run.step \in {"recheck", "again"} /\ ~Agree /\ Retry(c.deps)

\* An import looks once more, when its products are staged.
LookAgain ==
    /\ At("collected") /\ run.step = "recheck" /\ run.kind = "import" /\ Agree
    /\ run' = [run EXCEPT !.step = "again"]
    /\ c' = Collecting
    /\ UNCHANGED <<cur, selected, ended, edits, current>>

\* What is published was built from the first snapshot, or from the overlay.
Publish ==
    LET built == IF run.kind = "import" THEN run.overlay ELSE run.first IN
    /\ At("collected") /\ Agree
    /\ run.step = IF run.kind = "import" THEN "again" ELSE "recheck"
    /\ selected' = built
    /\ cur' = [f \in Files |-> IF f \in run.over THEN Imported ELSE cur[f]]
    /\ ended' = "published" /\ run' = NoRun /\ c' = NoCollection
    /\ UNCHANGED <<edits, current>>

\* The collection noticed a change, or failed.
ChangedInput ==
    /\ At("changed")
    /\ Retry(IF run.step = "collect" THEN run.prior ELSE run.first)

Failed == At("failed") /\ End("failed") /\ UNCHANGED selected

\* The user edits a file in place or replaces it, removes or creates it; no file is
\* again what it was before, so one that was absent once is not removed.
Edit(f, inplace) ==
    /\ edits < MaxEdits
    /\ edits' = edits + 1
    /\ cur' \in {[cur EXCEPT ![f] = edits + 1]} \cup
                 (IF f \in Removable /\ cur[f] = 0 /\ ~inplace THEN {[cur EXCEPT ![f] = Absent]} ELSE {})
    /\ c' = IF At("read") /\ Input = f /\ inplace THEN [c EXCEPT !.dirty = TRUE] ELSE c
    /\ current' = (current \/ (run.first # None /\ AsNow(run.first, cur')))
    /\ UNCHANGED <<run, selected, ended>>

Next ==
    \/ Collect \/ Collected \/ Overlaid \/ Disagree \/ LookAgain \/ Publish \/ ChangedInput \/ Failed
    \/ \E kind \in {"compile", "import"} : Start(kind)
    \/ \E f \in Files, inplace \in BOOLEAN : Edit(f, inplace)

Spec == Init /\ [][Next]_vars

-----------------------------------------------------------------------------
(* Properties *)

DepsOK(deps) ==
    /\ deps.val \in [Files -> Contents \cup {Unread}]
    /\ deps.export \in [Range(Books) -> [by : Contents, of : Contents \ {Absent}] \cup {None}]

\* Types; and the compiler makes at most three attempts.
TypeOK ==
    /\ cur \in [Files -> Contents]
    /\ DepsOK(c.deps)
    /\ \A deps \in {run.prior, run.first, run.overlay, selected} \ {None} : DepsOK(deps)
    /\ run.attempt \in 0..2

\* The import writes the first book: only its overlay reads and runs the exporter.
FirstBook == run.over \cap Range(Books) # {} /\ run.first.val["exporter"] = Unread

\* What is published was built from inputs that were all current at one and the same
\* instant after they had been read, however they were edited meanwhile; an import
\* publishes them with those it overrides replaced, and nothing else but the exporter
\* of the first book.
Consistent ==
    [][Publish =>
          /\ current
          /\ \A f \in Files :
               \/ f = "exporter" /\ FirstBook
               \/ selected'.val[f] = IF f \in run.over THEN Imported ELSE run.first.val[f]]_vars

\* The contacts of these dependencies are those that their exporter gives for their books.
Exact(deps) ==
    \A b \in Range(Books) : deps.val[b] # Absent =>
        deps.export[b] = [by |-> deps.val["exporter"], of |-> deps.val[b]]

\* Unless an import writes the first book, the contacts of the generation it publishes are
\* those that its exporter gives for its books: no export of a program replaced between
\* its reading and its running, or of an earlier book, is kept, be it in a later
\* generation that reuses it; nor is one that the import of a first book got wrong.
ExportCurrent == [][Publish /\ ~FirstBook => Exact(selected')]_vars

\* Any published generation's contacts are those of the exporter it names, since resolved
\* inputs are rechecked before publication (doc/filter-interfaces.md).
ExportBound == selected # None => Exact(selected)
=============================================================================
