--------------------------- MODULE SnapshotProofs ---------------------------
(***************************************************************************)
(* Proofs about Snapshot, for any inputs, accounts and number of edits.    *)
(*                                                                         *)
(* No content of a file comes back once it is gone, so a snapshot whose    *)
(* inputs were never all current at one instant holds a content that is    *)
(* gone when it is complete, and no later collection reads it again.       *)
(***************************************************************************)
EXTENDS Snapshot, SequenceTheorems, TLAPS

-----------------------------------------------------------------------------
(* Types *)

Values == Contents \cup {Unread}
ExportRec == [by : Contents, of : Contents \ {Absent}]
DepsRec == [val : [Files -> Values], export : [Range(Books) -> ExportRec \cup {None}]]

Reading == {"open", "read", "absent", "lstat", "stat"}
AllPcs == Reading \cup {"none", "list", "profile", "book", "exporter", "export", "collected", "changed", "failed"}

CRec == [pc : AllPcs, todo : Seq(Files), books : Seq(Range(Books)), fd : Values, dirty : BOOLEAN, deps : DepsRec]

RunRec == [kind : {"none", "compile", "import"}, step : {"idle", "collect", "overlay", "recheck", "again"},
           attempt : 0..2, prior : DepsRec \cup {None}, first : DepsRec \cup {None},
           over : SUBSET (Range(Plain) \cup Range(Books)), overlay : DepsRec \cup {None}]

Types ==
    /\ cur \in [Files -> Contents] /\ c \in CRec /\ run \in RunRec
    /\ selected \in DepsRec \cup {None} /\ edits \in 0..MaxEdits /\ current \in BOOLEAN

-----------------------------------------------------------------------------
(* How far a collection has come *)

Has(val, S) == \A f \in S : val[f] # Unread

BookThere(d, b) == d.val[b] \notin {Unread, Absent}

\* The exporter is read if and only if some book is there.
Known(d) == d.val["exporter"] # Unread <=> \E b \in Range(Books) : BookThere(d, b)

\* No book is read yet.
NoBook(d, books) ==
    /\ books = Books /\ d.val["exporter"] = Unread
    /\ \A b \in Range(Books) : d.val[b] = Unread

\* The inputs that are read before those of the list that todo is a rest of.
ReadPlain(d, todo) == Has(d.val, Range(Plain) \ Range(todo))
ReadAccounts(d, todo) == Has(d.val, Range(Plain)) /\ Has(d.val, Range(Accounts) \ Range(todo))
ReadLate(d, todo) ==
    Has(d.val, Range(Plain)) /\ Has(d.val, Range(Accounts)) /\ Has(d.val, Range(Late) \ Range(todo))
ReadBooks(d, books) == ReadLate(d, <<>>) /\ Has(d.val, Range(Books) \ Range(books))

\* These books are not read yet.
Left(d, books) == \A b \in Range(books) : d.val[b] = Unread

\* A book is there and the exporter is yet to be read.
ExporterNext(d, books) ==
    /\ books # <<>> /\ ReadBooks(d, books) /\ Left(d, Tail(books))
    /\ BookThere(d, Head(books)) /\ d.val["exporter"] = Unread

Progress(d, todo, books) ==
    /\ todo # <<>>
    /\ \/ Range(todo) \subseteq Range(Plain) /\ NoBook(d, books) /\ ReadPlain(d, todo)
       \/ Range(todo) \subseteq Range(Accounts) /\ NoBook(d, books) /\ ReadAccounts(d, todo)
       \/ Range(todo) \subseteq Range(Late) /\ NoBook(d, books) /\ ReadLate(d, todo)
       \/ books # <<>> /\ todo = <<Head(books)>> /\ ReadBooks(d, books) /\ Left(d, books) /\ Known(d)
       \/ todo = <<"exporter">> /\ ExporterNext(d, books)

\* A collection that is complete.
Whole(d) == Has(d.val, Files \ {"exporter"}) /\ Known(d)

CollectInv ==
    /\ c.pc \in Reading => Progress(c.deps, c.todo, c.books)
    /\ c.pc = "list" => NoBook(c.deps, c.books) /\ ReadPlain(c.deps, <<>>)
    /\ c.pc = "profile" => NoBook(c.deps, c.books) /\ ReadAccounts(c.deps, <<>>)
    /\ c.pc = "book" => ReadBooks(c.deps, c.books) /\ Left(c.deps, c.books) /\ Known(c.deps)
    /\ c.pc = "exporter" => ExporterNext(c.deps, c.books)
    /\ c.pc = "export" =>
          /\ c.books # <<>> /\ ReadBooks(c.deps, c.books) /\ Left(c.deps, Tail(c.books))
          /\ c.deps.val[Head(c.books)] # Unread /\ Known(c.deps)
    /\ c.pc = "collected" => Whole(c.deps) /\ c.books = <<>>

-----------------------------------------------------------------------------
(* Contents that are gone *)

\* v was f's content and will not be again, but for what an import writes.
Gone(f, v) == IF v = Absent THEN cur[f] \notin {0, Absent} ELSE v # cur[f]

\* The contents that there have been.
Past == 0..edits \cup {Imported, Absent, Unread}

\* What was read is there or gone.
Aged(f, v) == v \in Past /\ (v \in {Unread, cur[f]} \/ Gone(f, v))

Overlaying(f) == run.step = "overlay" /\ f \in run.over

AgedInv ==
    /\ \A f \in Files : cur[f] \in Past
    /\ \A f \in Files : IF Overlaying(f) THEN c.deps.val[f] \in {Unread, Imported}
                                         ELSE Aged(f, c.deps.val[f])
    /\ c.pc = "read" => Aged(Input, c.fd) /\ c.fd \notin {Absent, Unread}
    /\ c.pc \in {"read", "absent"} => ~Overlaying(Input)

-----------------------------------------------------------------------------
(* Exports *)

\* An export of the book by the exporter that was read, or that exporter is gone.
Exported(d, b) ==
    /\ BookThere(d, b)
    /\ \E x \in Contents : /\ d.export[b] = [by |-> x, of |-> d.val[b]]
                           /\ x = d.val["exporter"] \/ Gone("exporter", d.val["exporter"])
    /\ d.val["exporter"] \in Past \ {Unread}

ExportOK(d) == \A b \in Range(Books) : d.export[b] = None \/ Exported(d, b)

\* Every book that is there and not among these has its export.
AllExported(d, books) == \A b \in Range(Books) \ Range(books) : d.val[b] # Absent => Exported(d, b)

Distinct(books) == \A i, j \in 1..Len(books) : books[i] = books[j] => i = j

ExportInv ==
    /\ ExportOK(c.deps) /\ AllExported(c.deps, c.books)
    /\ Distinct(c.books) /\ \A b \in Range(c.books) : c.deps.export[b] = None
    /\ run.prior # None => ExportOK(run.prior)
    /\ selected # None => ExportOK(selected)

-----------------------------------------------------------------------------
(* The second look *)

\* A content of the first snapshot is gone, and is not read again.
StaleAt(f) ==
    /\ run.first.val[f] # Unread /\ Gone(f, run.first.val[f])
    /\ run.step # "overlay" =>
          /\ c.deps.val[f] # run.first.val[f]
          /\ c.pc = "read" /\ Input = f => c.fd # run.first.val[f]

Stale == \E f \in Files : StaleAt(f)

\* An overlay differs from the first snapshot only where that is gone.
Differs(f, v) ==
    v # Unread /\ run.first.val[f] # Unread /\ v # run.first.val[f] => Gone(f, run.first.val[f])

Matches(d) ==
    \A f \in Files : \/ f = "exporter" /\ FirstBook
                     \/ d.val[f] = IF f \in run.over THEN Imported ELSE run.first.val[f]

RunInv ==
    /\ run.step = "idle" <=> run.kind = "none"
    /\ run.step = "idle" => c.pc = "none"
    /\ run.step \in {"overlay", "again"} => run.kind = "import"
    /\ run.kind # "import" => run.over = {}
    /\ run.step \in {"overlay", "recheck", "again"} =>
          /\ run.first \in DepsRec /\ Whole(run.first) /\ ExportOK(run.first)
          /\ \A f \in Files : Aged(f, run.first.val[f])
          /\ current \/ Stale
          /\ Exact(run.first) \/ Stale
    /\ run.step = "overlay" =>
          /\ \A f \in Files \ run.over : Differs(f, c.deps.val[f])
          /\ c.pc = "read" => Differs(Input, c.fd)
    /\ run.step \in {"recheck", "again"} /\ run.kind = "import" =>
          /\ run.overlay \in DepsRec /\ ExportOK(run.overlay)
          /\ Matches(run.overlay) \/ Stale
          /\ FirstBook \/ Exact(run.overlay) \/ Stale

IInv == Types /\ CollectInv /\ AgedInv /\ ExportInv /\ RunInv

-----------------------------------------------------------------------------
(* The constants *)

LEMMA FileFacts ==
    /\ Plain \in Seq(Files) /\ Late \in Seq(Files) /\ Accounts \in Seq(Files)
    /\ Books \in Seq(Range(Books)) /\ Range(Books) \subseteq Files /\ "exporter" \in Files
    /\ Files = Range(Plain) \cup Range(Late) \cup Range(Accounts) \cup Range(Books) \cup {"exporter"}
    /\ Range(Plain) \cap Range(Late) = {} /\ Range(Plain) \cap Range(Accounts) = {}
    /\ Range(Late) \cap Range(Accounts) = {}
    /\ Range(Books) \cap (Range(Plain) \cup Range(Late) \cup Range(Accounts)) = {}
    /\ "exporter" \notin Range(Plain) \cup Range(Late) \cup Range(Accounts) \cup Range(Books)
    /\ Optional \subseteq Range(Plain) \cup Range(Late)
    /\ Merges \subseteq SUBSET (Range(Plain) \cup Range(Books))
    /\ Plain # <<>> /\ Late # <<>> /\ Distinct(Books)
<1>1. /\ Plain \in Seq(Range(Plain)) /\ Late \in Seq(Range(Late)) /\ Accounts \in Seq(Range(Accounts))
      /\ Books \in Seq(Range(Books))
  BY SnapshotAssumption
<1>2. Range(Plain \o Late) = Range(Plain) \cup Range(Late)
  <2>1. Plain \in Seq(Range(Plain) \cup Range(Late)) /\ Late \in Seq(Range(Plain) \cup Range(Late))
    BY <1>1
  <2>2. /\ DOMAIN (Plain \o Late) = 1..(Len(Plain) + Len(Late)) /\ Len(Plain) \in Nat /\ Len(Late) \in Nat
        /\ DOMAIN Plain = 1..Len(Plain) /\ DOMAIN Late = 1..Len(Late)
        /\ \A i \in 1..(Len(Plain) + Len(Late)) :
              (Plain \o Late)[i] = IF i <= Len(Plain) THEN Plain[i] ELSE Late[i - Len(Plain)]
    BY <2>1
  <2>3. ASSUME NEW x \in Range(Plain \o Late) PROVE x \in Range(Plain) \cup Range(Late)
    <3>1. PICK i \in 1..(Len(Plain) + Len(Late)) : x = (Plain \o Late)[i]
      BY <2>2 DEF Range
    <3>2. CASE i <= Len(Plain)
      BY <2>2, <3>1, <3>2 DEF Range
    <3>3. CASE ~(i <= Len(Plain))
      <4>1. i - Len(Plain) \in 1..Len(Late) /\ x = Late[i - Len(Plain)]
        BY <2>2, <3>1, <3>3
      <4> QED
        BY <2>2, <4>1 DEF Range
    <3> QED
      BY <3>2, <3>3
  <2>4. ASSUME NEW x \in Range(Plain) PROVE x \in Range(Plain \o Late)
    <3>1. PICK i \in 1..Len(Plain) : x = Plain[i]
      BY <2>2 DEF Range
    <3>2. i \in 1..(Len(Plain) + Len(Late)) /\ (Plain \o Late)[i] = x
      BY <2>2, <3>1
    <3> QED
      BY <2>2, <3>2 DEF Range
  <2>5. ASSUME NEW x \in Range(Late) PROVE x \in Range(Plain \o Late)
    <3>1. PICK i \in 1..Len(Late) : x = Late[i]
      BY <2>2 DEF Range
    <3>2. i + Len(Plain) \in 1..(Len(Plain) + Len(Late)) /\ (Plain \o Late)[i + Len(Plain)] = x
      BY <2>2, <3>1
    <3> QED
      BY <2>2, <3>2 DEF Range
  <2> QED
    BY <2>3, <2>4, <2>5
<1>3. Files = Range(Plain) \cup Range(Late) \cup Range(Accounts) \cup Range(Books) \cup {"exporter"}
  BY <1>2 DEF Files
<1>4. Plain \in Seq(Files) /\ Late \in Seq(Files) /\ Accounts \in Seq(Files)
  BY <1>1, <1>3
<1>5. Distinct(Books)
  BY <1>1, SnapshotAssumption DEF Distinct
<1> QED
  BY <1>1, <1>2, <1>3, <1>4, <1>5, SnapshotAssumption

LEMMA ContentFacts ==
    /\ Absent \in Contents /\ 0 \in Contents /\ Imported \in Contents /\ Unread \notin Contents
    /\ Absent # Unread /\ Absent # 0 /\ Unread # 0 /\ Absent # Imported /\ Unread # Imported
    /\ Imported \in Nat /\ Imported > MaxEdits /\ MaxEdits \in Nat
    /\ \A n \in 0..MaxEdits : n \in Contents /\ n # Absent /\ n # Unread /\ n # Imported
BY SnapshotAssumption DEF Imported, Contents

-----------------------------------------------------------------------------
(* Lists of inputs *)

LEMMA ListFacts ==
    ASSUME NEW S, NEW t \in Seq(S), t # <<>>
    PROVE  /\ Head(t) \in S /\ Tail(t) \in Seq(S) /\ Range(t) = {Head(t)} \cup Range(Tail(t))
           /\ Len(Tail(t)) = Len(t) - 1 /\ \A i \in 1..Len(Tail(t)) : Tail(t)[i] = t[i + 1]
           /\ Head(t) = t[1]
           /\ (Tail(t) = <<>> => Range(t) = {Head(t)})
<1>1. /\ Head(t) \in S /\ Tail(t) \in Seq(S) /\ Head(t) = t[1] /\ Len(t) \in Nat \ {0}
      /\ Len(Tail(t)) = Len(t) - 1 /\ \A i \in 1..Len(Tail(t)) : Tail(t)[i] = t[i + 1]
  BY HeadTailProperties, EmptySeq
<1>2. Range(t) = {Head(t)} \cup Range(Tail(t))
  <2>1. DOMAIN t = 1..Len(t) /\ DOMAIN Tail(t) = 1..Len(Tail(t))
    BY <1>1
  <2>2. ASSUME NEW x \in Range(t) PROVE x = Head(t) \/ x \in Range(Tail(t))
    <3>1. PICK i \in 1..Len(t) : x = t[i]
      BY <2>1 DEF Range
    <3>2. CASE i = 1
      BY <1>1, <3>1, <3>2
    <3>3. CASE i # 1
      <4>1. i - 1 \in 1..Len(Tail(t)) /\ Tail(t)[i - 1] = x
        BY <1>1, <3>1, <3>3
      <4> QED
        BY <2>1, <4>1 DEF Range
    <3> QED
      BY <3>2, <3>3
  <2>3. Head(t) \in Range(t)
    BY <1>1, <2>1 DEF Range
  <2>4. ASSUME NEW x \in Range(Tail(t)) PROVE x \in Range(t)
    <3>1. PICK i \in 1..Len(Tail(t)) : x = Tail(t)[i]
      BY <2>1 DEF Range
    <3>2. i + 1 \in 1..Len(t) /\ x = t[i + 1]
      BY <1>1, <3>1
    <3> QED
      BY <2>1, <3>2 DEF Range
  <2> QED
    BY <2>2, <2>3, <2>4
<1>3. Tail(t) = <<>> => Range(Tail(t)) = {}
  BY DEF Range
<1> QED
  BY <1>1, <1>2, <1>3

\* The first of distinct books is not among the others, which are distinct too.
LEMMA BooksFacts ==
    ASSUME NEW t \in Seq(Range(Books)), t # <<>>, Distinct(t)
    PROVE  /\ Head(t) \in Range(Books) /\ Head(t) \in Files /\ Head(t) \in Range(t) /\ Head(t) \notin Range(Tail(t))
           /\ Tail(t) \in Seq(Range(Books)) /\ Range(t) = {Head(t)} \cup Range(Tail(t)) /\ Distinct(Tail(t))
<1>1. /\ Head(t) \in Range(Books) /\ Tail(t) \in Seq(Range(Books)) /\ Head(t) = t[1]
      /\ Range(t) = {Head(t)} \cup Range(Tail(t)) /\ Len(t) \in Nat \ {0}
      /\ Len(Tail(t)) = Len(t) - 1 /\ \A i \in 1..Len(Tail(t)) : Tail(t)[i] = t[i + 1]
  BY ListFacts, EmptySeq
<1>2. Head(t) \notin Range(Tail(t))
  <2>1. SUFFICES ASSUME Head(t) \in Range(Tail(t)) PROVE FALSE
    OBVIOUS
  <2>2. PICK i \in 1..Len(Tail(t)) : Head(t) = Tail(t)[i]
    BY <1>1, <2>1 DEF Range
  <2>3. t[1] = t[i + 1] /\ 1 \in 1..Len(t) /\ i + 1 \in 1..Len(t) /\ i + 1 # 1
    BY <1>1, <2>2
  <2> QED
    BY <2>3 DEF Distinct
<1>3. Distinct(Tail(t))
  <2>1. SUFFICES ASSUME NEW i \in 1..Len(Tail(t)), NEW j \in 1..Len(Tail(t)), Tail(t)[i] = Tail(t)[j]
                 PROVE  i = j
    BY DEF Distinct
  <2>2. t[i + 1] = t[j + 1] /\ i + 1 \in 1..Len(t) /\ j + 1 \in 1..Len(t)
    BY <1>1, <2>1
  <2>3. i + 1 = j + 1
    BY <2>2 DEF Distinct
  <2> QED
    BY <2>1, <2>3
<1> QED
  BY <1>1, <1>2, <1>3, FileFacts

-----------------------------------------------------------------------------
(* Recording an input *)

LEMMA RecordedFields ==
    ASSUME Types, c.todo # <<>>, NEW v \in Values, Recorded(v)
    PROVE  /\ c' \in CRec /\ c'.todo = Tail(c.todo) /\ c'.books = c.books /\ c'.deps.export = c.deps.export
           /\ c'.deps.val[Input] = v /\ \A f \in Files \ {Input} : c'.deps.val[f] = c.deps.val[f]
           /\ c'.pc = IF Tail(c.todo) = <<>> THEN Done(v)
                      ELSE IF Head(Tail(c.todo)) \in Range(Accounts) THEN "lstat" ELSE "open"
<1> DEFINE rest == Tail(c.todo)
           val == [c.deps.val EXCEPT ![Input] = v]
           deps == [c.deps EXCEPT !.val = val]
           pc == IF rest # <<>> THEN (IF Head(rest) \in Range(Accounts) THEN "lstat" ELSE "open") ELSE Done(v)
           n == [c EXCEPT !.deps = deps, !.todo = rest, !.dirty = FALSE, !.fd = Unread, !.pc = pc]
<1>1. c \in CRec /\ c.todo \in Seq(Files) /\ c.deps \in DepsRec
  BY DEF Types, CRec
<1>2. Input \in Files /\ rest \in Seq(Files)
  BY <1>1, ListFacts DEF Input
<1>3. /\ val \in [Files -> Values] /\ val[Input] = v
      /\ \A f \in Files \ {Input} : val[f] = c.deps.val[f]
  BY <1>1, <1>2 DEF DepsRec
<1>4. c' = n
  BY DEF Recorded
<1>5. pc \in AllPcs
  BY DEF AllPcs, Reading, Done
<1> HIDE DEF val, rest, pc
<1>6. deps \in DepsRec /\ deps.val = val /\ deps.export = c.deps.export
  BY <1>1, <1>3 DEF DepsRec
<1> HIDE DEF deps
<1>7. Unread \in Values
  BY DEF Values
<1>8. n \in CRec /\ n.todo = rest /\ n.books = c.books /\ n.deps = deps /\ n.pc = pc
  BY <1>1, <1>2, <1>5, <1>6, <1>7 DEF CRec
<1> QED
  BY <1>3, <1>4, <1>6, <1>8 DEF rest, pc

\* A book or the exporter that is recorded is that which was to be read.
LEMMA BookFirst ==
    ASSUME Types, CollectInv, c.pc \in Reading
    PROVE  /\ Input \in Range(Books) => c.books # <<>> /\ Input = Head(c.books) /\ c.deps.val[Input] = Unread
           /\ Input = "exporter" => c.deps.val["exporter"] = Unread
<1>1. Progress(c.deps, c.todo, c.books) /\ c.todo \in Seq(Files) /\ c.todo # <<>> /\ c.books \in Seq(Range(Books))
  BY DEF CollectInv, Progress, Types, CRec
<1>2. Input \in Range(c.todo)
  BY <1>1, ListFacts DEF Input
<1>3. CASE c.books # <<>> /\ c.todo = <<Head(c.books)>> /\ Left(c.deps, c.books)
  <2>1. Input = Head(c.books) /\ Head(c.books) \in Range(c.books) /\ Head(c.books) \in Range(Books)
    BY <1>1, <1>3, ListFacts DEF Input
  <2> QED
    BY <1>3, <2>1, FileFacts DEF Left
<1>4. CASE c.todo = <<"exporter">> /\ ExporterNext(c.deps, c.books)
  <2>1. Input = "exporter"
    BY <1>4 DEF Input
  <2> QED
    BY <1>4, <2>1, FileFacts DEF ExporterNext
<1>5. CASE Range(c.todo) \subseteq Range(Plain) \cup Range(Accounts) \cup Range(Late)
  BY <1>2, <1>5, FileFacts
<1> QED
  BY <1>1, <1>3, <1>4, <1>5 DEF Progress

\* The collection goes on with the next input, or with what comes after the list.
LEMMA RecordedProgress ==
    ASSUME Types, CollectInv, Distinct(c.books), c.pc \in Reading, NEW v \in Contents, Recorded(v)
    PROVE  CollectInv'
<1> DEFINE t == c.todo
           r == Tail(c.todo)
           d == c.deps
           e == c'.deps
           bs == c.books
<1>1. Progress(d, t, bs) /\ t \in Seq(Files) /\ t # <<>> /\ d \in DepsRec /\ bs \in Seq(Range(Books))
  BY DEF CollectInv, Progress, Types, CRec
<1>2. v \in Values /\ v # Unread
  BY ContentFacts DEF Values
<1>3. /\ c'.todo = r /\ c'.books = bs
      /\ e.val[Input] = v /\ \A f \in Files \ {Input} : e.val[f] = d.val[f]
      /\ c'.pc = IF r = <<>> THEN Done(v) ELSE IF Head(r) \in Range(Accounts) THEN "lstat" ELSE "open"
  BY <1>1, <1>2, RecordedFields
<1>4. /\ Input \in Files /\ r \in Seq(Files) /\ Range(t) = {Input} \cup Range(r)
      /\ (r = <<>> => Range(r) = {}) /\ Range(<<>>) = {}
  <2>1. Range(<<>>) = {}
    BY DEF Range
  <2> QED
    BY <1>1, <2>1, ListFacts DEF Input
<1> HIDE DEF t, r, d, e, bs
<1>5. ASSUME r # <<>>, Progress(e, r, bs) PROVE CollectInv'
  <2>1. c'.pc \in {"lstat", "open"} /\ Progress(c'.deps, c'.todo, c'.books)
    BY <1>3, <1>5 DEF e
  <2> QED
    BY <2>1 DEF CollectInv, Reading
<1>6. ASSUME Input \notin Range(Books), Input # "exporter", NoBook(d, bs) PROVE NoBook(e, bs)
  BY <1>3, <1>6, FileFacts, SMTT(40) DEF NoBook
<1>7. CASE Range(t) \subseteq Range(Plain) /\ NoBook(d, bs) /\ ReadPlain(d, t)
  <2>1. Input \in Range(Plain) /\ Input # "exporter" /\ Input \notin Range(Books)
    BY <1>4, <1>7, FileFacts
  <2>2. Range(r) \subseteq Range(Plain) /\ NoBook(e, bs)
    BY <1>4, <1>6, <1>7, <2>1
  <2>3. ReadPlain(e, r)
    BY <1>2, <1>3, <1>4, <1>7, FileFacts DEF ReadPlain, Has
  <2>4. CASE r # <<>>
    BY <1>5, <2>2, <2>3, <2>4 DEF Progress
  <2>5. CASE r = <<>>
    <3>1. c'.pc = "list" /\ NoBook(c'.deps, c'.books) /\ ReadPlain(c'.deps, <<>>)
      BY <1>3, <2>1, <2>2, <2>3, <2>5 DEF Done, e
    <3> QED
      BY <3>1 DEF CollectInv, Reading
  <2> QED
    BY <2>4, <2>5
<1>8. CASE Range(t) \subseteq Range(Accounts) /\ NoBook(d, bs) /\ ReadAccounts(d, t)
  <2>1. /\ Input \in Range(Accounts) /\ Input \notin Range(Plain) /\ Input # "exporter"
        /\ Input \notin Range(Books)
    BY <1>4, <1>8, FileFacts
  <2>2. Range(r) \subseteq Range(Accounts) /\ NoBook(e, bs)
    BY <1>4, <1>6, <1>8, <2>1
  <2>3. ReadAccounts(e, r)
    BY <1>2, <1>3, <1>4, <1>8, <2>1, FileFacts DEF ReadAccounts, Has
  <2>4. CASE r # <<>>
    BY <1>5, <2>2, <2>3, <2>4 DEF Progress
  <2>5. CASE r = <<>>
    <3>1. c'.pc = "profile" /\ NoBook(c'.deps, c'.books) /\ ReadAccounts(c'.deps, <<>>)
      BY <1>3, <2>1, <2>2, <2>3, <2>5 DEF Done, e
    <3> QED
      BY <3>1 DEF CollectInv, Reading
  <2> QED
    BY <2>4, <2>5
<1>9. CASE Range(t) \subseteq Range(Late) /\ NoBook(d, bs) /\ ReadLate(d, t)
  <2>1. /\ Input \in Range(Late) /\ Input \notin Range(Plain) \cup Range(Accounts) /\ Input # "exporter"
        /\ Input \notin Range(Books)
    BY <1>4, <1>9, FileFacts
  <2>2. Range(r) \subseteq Range(Late) /\ NoBook(e, bs)
    BY <1>4, <1>6, <1>9, <2>1
  <2>3. ReadLate(e, r)
    BY <1>2, <1>3, <1>4, <1>9, <2>1, FileFacts DEF ReadLate, Has
  <2>4. CASE r # <<>>
    BY <1>5, <2>2, <2>3, <2>4 DEF Progress
  <2>5. CASE r = <<>>
    <3>1. c'.pc = "book"
      BY <1>3, <2>1, <2>5 DEF Done
    <3>2. ReadBooks(e, bs) /\ Left(e, bs) /\ Known(e)
      BY <2>2, <2>3, <2>5 DEF NoBook, ReadBooks, Left, Known, BookThere, Has
    <3> QED
      BY <1>3, <3>1, <3>2 DEF CollectInv, Reading, e
  <2> QED
    BY <2>4, <2>5
<1>10. CASE bs # <<>> /\ t = <<Head(bs)>> /\ ReadBooks(d, bs) /\ Left(d, bs) /\ Known(d)
  <2>1. /\ Input = Head(bs) /\ r = <<>> /\ Input \in Range(Books) /\ Input \notin Range(Tail(bs))
        /\ Range(bs) = {Input} \cup Range(Tail(bs)) /\ Tail(bs) \in Seq(Range(Books))
    BY <1>1, <1>10, BooksFacts DEF Input, t, r, bs
  <2>2. Range(Tail(bs)) \subseteq Range(Books)
    BY <2>1 DEF Range
  <2>3. Input \notin Range(Plain) \cup Range(Accounts) \cup Range(Late) /\ Input # "exporter"
    BY <2>1, FileFacts
  <2>4. ReadBooks(e, bs)
    BY <1>2, <1>3, <1>4, <1>10, <2>3, FileFacts DEF ReadBooks, ReadLate, Has
  <2>5. Left(e, Tail(bs))
    BY <1>3, <1>10, <2>1, <2>2, FileFacts DEF Left
  <2>6. e.val["exporter"] = d.val["exporter"] /\ d.val[Input] = Unread /\ e.val[Input] = v
    BY <1>3, <1>10, <2>1, <2>3, FileFacts DEF Left
  <2>7. CASE v # Absent /\ d.val["exporter"] = Unread
    <3>1. c'.pc = "exporter"
      BY <1>3, <2>1, <2>3, <2>7 DEF Done, d
    <3>2. ExporterNext(e, bs)
      BY <1>2, <1>10, <2>1, <2>4, <2>5, <2>6, <2>7 DEF ExporterNext, BookThere
    <3> QED
      BY <1>3, <3>1, <3>2 DEF CollectInv, Reading, e
  <2>8. CASE ~(v # Absent /\ d.val["exporter"] = Unread)
    <3>1. c'.pc = "export"
      BY <1>3, <2>1, <2>3, <2>8 DEF Done, d
    <3>2. Known(e)
      <4>1. \A b \in Range(Books) \ {Input} : BookThere(e, b) <=> BookThere(d, b)
        BY <1>3, FileFacts DEF BookThere
      <4>2. ~BookThere(d, Input) /\ (v = Absent => ~BookThere(e, Input))
        BY <2>6 DEF BookThere
      <4>3. (\E b \in Range(Books) : BookThere(d, b)) => \E b \in Range(Books) : BookThere(e, b)
        BY <4>1, <4>2
      <4>4. v = Absent => ((\E b \in Range(Books) : BookThere(e, b)) => \E b \in Range(Books) : BookThere(d, b))
        BY <4>1, <4>2
      <4> QED
        BY <1>10, <2>6, <2>8, <4>3, <4>4 DEF Known
    <3>3. e.val[Head(bs)] # Unread
      BY <1>2, <2>1, <2>6
    <3> QED
      BY <1>3, <1>10, <2>4, <2>5, <3>1, <3>2, <3>3 DEF CollectInv, Reading, e
  <2> QED
    BY <2>7, <2>8
<1>11. CASE t = <<"exporter">> /\ ExporterNext(d, bs)
  <2>1. Input = "exporter" /\ r = <<>>
    BY <1>11 DEF Input, t, r
  <2>2. c'.pc = "export"
    BY <1>3, <2>1, FileFacts DEF Done
  <2>3. /\ Head(bs) \in Range(Books) /\ Tail(bs) \in Seq(Range(Books)) /\ Range(Tail(bs)) \subseteq Range(Books)
        /\ "exporter" \notin Range(Books)
    <3>1. Head(bs) \in Range(Books) /\ Tail(bs) \in Seq(Range(Books))
      BY <1>1, <1>11, ListFacts DEF ExporterNext
    <3>2. Range(bs) \subseteq Range(Books) /\ "exporter" \notin Range(Books)
      BY <1>1, FileFacts DEF Range
    <3>3. \A x \in Range(Tail(bs)) : x \in Range(Books)
      BY <3>1, SMTT(40) DEF Range
    <3> QED
      BY <3>1, <3>2, <3>3
  <2>4. \A f \in Range(Plain) \cup Range(Accounts) \cup Range(Late) \cup Range(Books) : e.val[f] = d.val[f]
    BY <1>3, <2>1, FileFacts
  <2>5. ReadBooks(e, bs) /\ Left(e, Tail(bs)) /\ BookThere(e, Head(bs))
    BY <1>11, <2>3, <2>4 DEF ExporterNext, ReadBooks, ReadLate, Has, Left, BookThere
  <2>6. Known(e) /\ e.val[Head(bs)] # Unread
    BY <1>2, <1>3, <2>1, <2>3, <2>5 DEF Known, BookThere
  <2> QED
    BY <1>3, <1>11, <2>2, <2>5, <2>6 DEF CollectInv, Reading, ExporterNext, e
<1> QED
  BY <1>1, <1>7, <1>8, <1>9, <1>10, <1>11 DEF Progress

\* What a step of a collection leaves of the invocation.
LEMMA SameRun ==
    ASSUME RunInv, UNCHANGED <<cur, run, edits, current>>, run.step # "idle",
           run.step \in {"overlay", "recheck", "again"} /\ Stale => Stale',
           run.step = "overlay" => \A f \in Files \ run.over : Differs(f, c'.deps.val[f]),
           run.step = "overlay" /\ c'.pc = "read" => Differs(Input', c'.fd)
    PROVE  RunInv'
<1>1. FirstBook' <=> FirstBook
  BY DEF FirstBook
<1>2. \A f \in Files : Aged(f, run.first.val[f])' <=> Aged(f, run.first.val[f])
  BY DEF Aged, Past, Gone
<1>3. (ExportOK(run.first)' <=> ExportOK(run.first)) /\ (ExportOK(run.overlay)' <=> ExportOK(run.overlay))
  BY DEF ExportOK, Exported, BookThere, Past, Gone
<1>4. Matches(run.overlay)' <=> Matches(run.overlay)
  BY <1>1 DEF Matches
<1>5. run'.step = "overlay" =>
          /\ \A f \in Files \ run'.over : Differs(f, c.deps.val[f])'
          /\ c'.pc = "read" => Differs(Input, c.fd)'
  BY DEF Differs, Gone
<1> HIDE DEF Stale
<1> QED
  BY <1>1, <1>2, <1>3, <1>4, <1>5 DEF RunInv

\* Whatever was recorded, it is known, there or gone, and no content that is gone from
\* the first snapshot.
LEMMA RecordedKeeps ==
    ASSUME IInv, Same, c.pc \in {"open", "read", "absent"}, NEW v \in Contents, Recorded(v),
           IF Overlaying(Input) THEN v = Imported ELSE Aged(Input, v),
           run.step = "overlay" /\ Input \notin run.over => Differs(Input, v),
           run.step \in {"recheck", "again"} /\ StaleAt(Input) => v # run.first.val[Input]
    PROVE  IInv'
<1>1. c.pc \in Reading /\ c.todo # <<>> /\ Types
  BY DEF IInv, CollectInv, Reading, Progress
<1>2. v \in Values /\ UNCHANGED <<cur, run, selected, edits, current>>
  BY DEF Values, Same
<1>3. CollectInv'
  BY <1>1, RecordedProgress DEF IInv, ExportInv
<1>4. /\ c' \in CRec /\ c'.books = c.books /\ c'.deps.export = c.deps.export
      /\ c'.deps.val[Input] = v /\ \A f \in Files \ {Input} : c'.deps.val[f] = c.deps.val[f]
      /\ c'.pc \in {"lstat", "open"} \/ c'.pc = Done(v)
  BY <1>1, <1>2, RecordedFields
<1>5. c'.pc \notin {"read", "absent", "none"}
  BY <1>4 DEF Done
<1>6. Types'
  BY <1>1, <1>2, <1>4 DEF Types
<1>7. AgedInv'
  <2>1. ASSUME NEW f \in Files
        PROVE  IF Overlaying(f) THEN c'.deps.val[f] \in {Unread, Imported} ELSE Aged(f, c'.deps.val[f])
    BY <1>4 DEF IInv, AgedInv
  <2> QED
    BY <1>2, <1>5, <2>1 DEF IInv, AgedInv, Overlaying, Aged, Past, Gone
<1>8. ExportInv'
  <2>1. /\ ExportOK(c.deps) /\ AllExported(c.deps, c.books)
        /\ Distinct(c.books) /\ \A b \in Range(c.books) : c.deps.export[b] = None
    BY DEF IInv, ExportInv
  <2>2. ASSUME NEW b \in Range(Books), Exported(c.deps, b), b # Input PROVE Exported(c.deps, b)'
    <3>1. Input # "exporter"
      BY <1>1, <2>2, BookFirst DEF IInv, Exported
    <3>2. c'.deps.val["exporter"] = c.deps.val["exporter"] /\ c'.deps.val[b] = c.deps.val[b]
      BY <1>4, <2>2, <3>1, FileFacts
    <3> QED
      BY <1>2, <1>4, <2>2, <3>2 DEF Exported, BookThere, Past, Gone
  <2>3. Input \in Range(Books) => Input \in Range(c.books) /\ c.deps.export[Input] = None
    <3>1. Input \in Range(Books) => Input \in Range(c.books)
      BY <1>1, BookFirst, ListFacts DEF IInv, Types, CRec
    <3> QED
      BY <2>1, <3>1
  <2>4. ExportOK(c.deps)'
    BY <1>4, <2>1, <2>2, <2>3 DEF ExportOK
  <2>5. AllExported(c.deps, c.books)'
    <3>1. ASSUME NEW b \in Range(Books) \ Range(c.books), c'.deps.val[b] # Absent PROVE Exported(c.deps, b)'
      <4>1. b # Input /\ c.deps.val[b] # Absent
        BY <1>4, <2>3, <3>1, FileFacts
      <4> QED
        BY <2>1, <2>2, <4>1 DEF AllExported
    <3> QED
      BY <1>4, <3>1 DEF AllExported
  <2>6. (run.prior # None => ExportOK(run.prior))' /\ (selected # None => ExportOK(selected))'
    BY <1>2 DEF IInv, ExportInv, ExportOK, Exported, Past, Gone
  <2> QED
    BY <1>4, <2>1, <2>4, <2>5, <2>6 DEF ExportInv
<1>9. ASSUME run.step \in {"overlay", "recheck", "again"}, Stale PROVE Stale'
  <2>1. PICK f \in Files : StaleAt(f)
    BY <1>9 DEF Stale
  <2>2. StaleAt(f)'
    BY <1>2, <1>4, <1>5, <1>9, <2>1 DEF StaleAt, Gone
  <2> QED
    BY <2>2 DEF Stale
<1>10. RunInv'
  <2>1. run.step = "overlay" => \A f \in Files \ run.over : Differs(f, c'.deps.val[f])
    BY <1>4 DEF IInv, RunInv
  <2>2. run.step # "idle"
    BY <1>1 DEF IInv, RunInv, Reading
  <2> QED
    BY <1>2, <1>5, <1>9, <2>1, <2>2, SameRun DEF IInv
<1> QED
  BY <1>3, <1>6, <1>7, <1>8, <1>10 DEF IInv

-----------------------------------------------------------------------------
(* The steps of a collection *)

\* What reading a list implies of the input at its head.
LEMMA InputFacts ==
    ASSUME IInv, c.pc \in Reading
    PROVE  /\ Input \in Files /\ c.todo # <<>> /\ c.todo \in Seq(Files) /\ run.step # "idle"
           /\ Aged(Input, cur[Input]) /\ cur[Input] \in Contents
<1>1. c.todo \in Seq(Files) /\ c.todo # <<>>
  BY DEF IInv, CollectInv, Progress, Types, CRec
<1>2. Input \in Files
  BY <1>1, ListFacts DEF Input
<1> QED
  BY <1>1, <1>2 DEF IInv, RunInv, Reading, AgedInv, Aged, Types

\* What is there now differs from the first snapshot only where that is gone.
LEMMA NowDiffers ==
    ASSUME IInv, run.step \in {"overlay", "recheck", "again"}, NEW f \in Files
    PROVE  Differs(f, cur[f]) /\ (StaleAt(f) => cur[f] # run.first.val[f])
BY ContentFacts DEF IInv, RunInv, Aged, Differs, StaleAt, Gone

LEMMA OverrideKeeps == IInv /\ Override => IInv'
<1> SUFFICES ASSUME IInv, Override PROVE IInv'
  OBVIOUS
<1>1. c.pc = "open" /\ Overlaying(Input) /\ Recorded(Imported) /\ Same
  BY DEF Override, At, Overlaying
<1>2. Imported \in Contents
  BY ContentFacts
<1>3. run.step = "overlay" /\ Input \in run.over
  BY <1>1 DEF Overlaying
<1> QED
  BY <1>1, <1>2, <1>3, RecordedKeeps

LEMMA ReadInputRecords ==
    ASSUME IInv, At("read"), Recorded(c.fd), Same
    PROVE  IInv'
<1>1. c.pc = "read" /\ c.pc \in Reading
  BY DEF At, Reading
<1>2. Aged(Input, c.fd) /\ c.fd \notin {Absent, Unread} /\ ~Overlaying(Input) /\ c.fd \in Contents
  BY <1>1 DEF IInv, AgedInv, Types, CRec, Values
<1>3. run.step = "overlay" => Differs(Input, c.fd)
  BY <1>1 DEF IInv, RunInv
<1>4. run.step \in {"recheck", "again"} /\ StaleAt(Input) => c.fd # run.first.val[Input]
  BY <1>1 DEF StaleAt
<1> QED
  BY <1>1, <1>2, <1>3, <1>4, RecordedKeeps

LEMMA AbsentRecords ==
    ASSUME IInv, At("absent"), cur[Input] = Absent, Same, Recorded(Absent)
    PROVE  IInv'
<1>1. c.pc = "absent" /\ c.pc \in Reading
  BY DEF At, Reading
<1>2. Aged(Input, Absent) /\ ~Overlaying(Input) /\ Absent \in Contents
  BY <1>1, InputFacts DEF IInv, AgedInv
<1>3. run.step = "overlay" => Differs(Input, Absent)
  BY <1>1, InputFacts, NowDiffers
<1>4. run.step \in {"recheck", "again"} /\ StaleAt(Input) => Absent # run.first.val[Input]
  BY <1>1, InputFacts, NowDiffers
<1> QED
  BY <1>1, <1>2, <1>3, <1>4, RecordedKeeps

\* The collection goes on, with nothing new recorded.
LEMMA SameDeps ==
    ASSUME IInv, Same, run.step # "idle", c' \in CRec, c'.deps = c.deps, c'.books = c.books, CollectInv',
           c'.pc = "read" => c'.fd = cur[Input'] /\ cur[Input'] # Absent /\ Input' \in Files,
           c'.pc \in {"read", "absent"} => ~Overlaying(Input')
    PROVE  IInv'
<1>1. UNCHANGED <<cur, run, selected, edits, current>>
  BY DEF Same
<1>2. Types'
  BY <1>1 DEF IInv, Types
<1>3. AgedInv'
  <2>1. c'.pc = "read" => Aged(Input', cur[Input']) /\ cur[Input'] # Unread
    BY ContentFacts DEF IInv, AgedInv, Types, Aged
  <2> QED
    BY <1>1, <2>1 DEF IInv, AgedInv, Overlaying, Aged, Past, Gone
<1>4. ExportInv'
  BY <1>1 DEF IInv, ExportInv, ExportOK, AllExported, Exported, BookThere, Past, Gone
<1>5. ASSUME run.step \in {"overlay", "recheck", "again"}, Stale PROVE Stale'
  <2>1. PICK f \in Files : StaleAt(f)
    BY <1>5 DEF Stale
  <2>2. c'.pc = "read" /\ Input' = f => c'.fd # run.first.val[f]
    BY <1>5, <2>1, NowDiffers
  <2>3. StaleAt(f)'
    BY <1>1, <2>1, <2>2 DEF StaleAt, Gone
  <2> QED
    BY <2>3 DEF Stale
<1>6. RunInv'
  <2>1. run.step = "overlay" /\ c'.pc = "read" => Differs(Input', c'.fd)
    BY NowDiffers
  <2>2. run.step = "overlay" => \A f \in Files \ run.over : Differs(f, c'.deps.val[f])
    BY DEF IInv, RunInv
  <2> QED
    BY <1>1, <1>5, <2>1, <2>2, SameRun DEF IInv
<1> QED
  BY <1>2, <1>3, <1>4, <1>6 DEF IInv

\* A step that moves the collection to l and changes nothing else of it.
LEMMA StopsFields ==
    ASSUME Types, NEW l \in AllPcs, c' = [c EXCEPT !.pc = l]
    PROVE  /\ c' \in CRec /\ c'.pc = l /\ c'.deps = c.deps /\ c'.todo = c.todo /\ c'.fd = c.fd
           /\ c'.books = c.books
BY DEF Types, CRec

\* Where the collection goes next it has come as far, or it has ended.
LEMMA StopsKeeps ==
    ASSUME IInv, Same, c.pc \in Reading,
           NEW l \in {"open", "absent", "stat", "changed", "failed"},
           c' = [c EXCEPT !.pc = l], l = "absent" => ~Overlaying(Input)
    PROVE  IInv'
<1>1. l \in AllPcs /\ l \notin {"none", "list", "profile", "book", "exporter", "export", "collected", "read"}
  BY DEF AllPcs, Reading
<1>2. c' \in CRec /\ c'.pc = l /\ c'.deps = c.deps /\ c'.todo = c.todo /\ c'.books = c.books
  BY <1>1, StopsFields DEF IInv
<1>3. CollectInv'
  BY <1>1, <1>2 DEF IInv, CollectInv
<1>4. Input' = Input /\ run.step # "idle"
  BY <1>2, InputFacts DEF Input
<1> QED
  BY <1>1, <1>2, <1>3, <1>4, SameDeps

LEMMA OpenKeeps == IInv /\ Open => IInv'
<1> SUFFICES ASSUME IInv, Open PROVE IInv'
  OBVIOUS
<1>1. c.pc = "open" /\ c.pc \in Reading /\ ~Overlaying(Input)
  BY DEF Open, At, Overlaying, Reading
<1>2. CASE cur[Input] # Absent
  <2> DEFINE fd == cur[Input]
             n == [c EXCEPT !.pc = "read", !.fd = fd]
  <2>1. c' = n /\ Same
    BY <1>2 DEF Open, Only, Same
  <2>2. "read" \in AllPcs /\ fd \in Values
    BY <1>1, InputFacts DEF AllPcs, Reading, Values
  <2> HIDE DEF fd
  <2>3. /\ n \in CRec /\ n.pc = "read" /\ n.fd = fd /\ n.todo = c.todo /\ n.deps = c.deps
        /\ n.books = c.books
    BY <2>2 DEF IInv, Types, CRec
  <2>4. CollectInv'
    BY <1>1, <2>1, <2>3 DEF IInv, CollectInv, Reading
  <2>5. Input' = Input /\ Input \in Files /\ run.step # "idle"
    BY <1>1, <2>1, <2>3, InputFacts DEF Input
  <2>6. c'.fd = cur[Input'] /\ cur[Input'] # Absent /\ ~Overlaying(Input')
    BY <1>1, <1>2, <2>1, <2>3, <2>5 DEF fd
  <2> QED
    BY <2>1, <2>3, <2>4, <2>5, <2>6, SameDeps
<1>3. CASE cur[Input] = Absent
  <2>1. PICK l \in {"absent", "changed", "failed"} : c' = [c EXCEPT !.pc = l]
    BY <1>3 DEF Open, Stops, Only
  <2>2. Same
    BY <1>3 DEF Open, Stops, Only, Same
  <2> QED
    BY <1>1, <2>1, <2>2, StopsKeeps
<1> QED
  BY <1>2, <1>3

LEMMA StillAbsentKeeps == IInv /\ StillAbsent => IInv'
<1> SUFFICES ASSUME IInv, StillAbsent PROVE IInv'
  OBVIOUS
<1>1. At("absent") /\ c.pc \in Reading
  BY DEF StillAbsent, At, Reading
<1>2. CASE cur[Input] # Absent
  BY <1>1, <1>2, StopsKeeps DEF StillAbsent, Stops, Only, Same
<1>3. CASE cur[Input] = Absent
  BY <1>1, <1>3, AbsentRecords DEF StillAbsent
<1> QED
  BY <1>2, <1>3

LEMMA ReadInputKeeps == IInv /\ ReadInput => IInv'
<1> SUFFICES ASSUME IInv, ReadInput PROVE IInv'
  OBVIOUS
<1>1. At("read") /\ c.pc \in Reading
  BY DEF ReadInput, At, Reading
<1>2. CASE c.dirty
  BY <1>1, <1>2, StopsKeeps DEF ReadInput, Stops, Only, Same
<1>3. CASE ~c.dirty
  BY <1>1, <1>3, ReadInputRecords DEF ReadInput
<1> QED
  BY <1>2, <1>3

LEMMA AccountLstatKeeps == IInv /\ AccountLstat => IInv'
<1> SUFFICES ASSUME IInv, AccountLstat PROVE IInv'
  OBVIOUS
<1>1. c.pc \in Reading
  BY DEF AccountLstat, At, Reading
<1>2. PICK l \in {"changed", "stat"} : c' = [c EXCEPT !.pc = l]
  BY DEF AccountLstat, Stops, Only
<1>3. Same
  BY DEF AccountLstat, Stops, Only, Same
<1> QED
  BY <1>1, <1>2, <1>3, StopsKeeps

LEMMA AccountStatKeeps == IInv /\ AccountStat => IInv'
<1> SUFFICES ASSUME IInv, AccountStat PROVE IInv'
  OBVIOUS
<1>1. c.pc \in Reading
  BY DEF AccountStat, At, Reading
<1>2. PICK l \in {"failed", "open"} : c' = [c EXCEPT !.pc = l]
  BY DEF AccountStat, Stops, Only
<1>3. Same
  BY DEF AccountStat, Stops, Only, Same
<1> QED
  BY <1>1, <1>2, <1>3, StopsKeeps

\* A new list of inputs.
LEMMA TodoFields ==
    ASSUME Types, NEW t \in Seq(Files), c' = [c EXCEPT !.todo = t, !.pc = "open"]
    PROVE  c' \in CRec /\ c'.pc = "open" /\ c'.deps = c.deps /\ c'.todo = t /\ c'.books = c.books
<1>1. "open" \in AllPcs
  BY DEF AllPcs, Reading
<1> QED
  BY <1>1 DEF Types, CRec

\* The collection goes on with a new list.
LEMMA TodoKeeps ==
    ASSUME IInv, Same, run.step # "idle", NEW t \in Seq(Files), c' = [c EXCEPT !.todo = t, !.pc = "open"],
           Progress(c.deps, t, c.books)
    PROVE  IInv'
<1>1. c' \in CRec /\ c'.pc = "open" /\ c'.deps = c.deps /\ c'.todo = t /\ c'.books = c.books
  BY TodoFields DEF IInv
<1>2. CollectInv'
  BY <1>1 DEF CollectInv
<1> QED
  BY <1>1, <1>2, SameDeps

LEMMA ProfileKeeps == IInv /\ Profile => IInv'
<1> SUFFICES ASSUME IInv, Profile PROVE IInv'
  OBVIOUS
<1>1. c.pc = "profile" /\ Same /\ c' = [c EXCEPT !.todo = Late, !.pc = "open"]
  BY DEF Profile, At, Only, Same
<1>2. NoBook(c.deps, c.books) /\ ReadAccounts(c.deps, <<>>) /\ Range(<<>>) = {} /\ run.step # "idle"
  BY <1>1 DEF IInv, CollectInv, Range, RunInv
<1>3. Progress(c.deps, Late, c.books)
  BY <1>2, FileFacts DEF Progress, ReadAccounts, ReadLate, Has
<1> QED
  BY <1>1, <1>2, <1>3, FileFacts, TodoKeeps

LEMMA BookKeeps == IInv /\ Book => IInv'
<1> SUFFICES ASSUME IInv, Book PROVE IInv'
  OBVIOUS
<1>1. c.pc = "book" /\ Same /\ run.step # "idle" /\ c.books \in Seq(Range(Books)) /\ Distinct(c.books)
  BY DEF Book, At, Stops, Only, Same, IInv, RunInv, Types, CRec, ExportInv
<1>2. ReadBooks(c.deps, c.books) /\ Left(c.deps, c.books) /\ Known(c.deps)
  BY <1>1 DEF IInv, CollectInv
<1>3. CASE c.books = <<>>
  <2>1. c' = [c EXCEPT !.pc = "collected"] /\ "collected" \in AllPcs
    BY <1>3 DEF Book, Stops, Only, AllPcs
  <2>2. c' \in CRec /\ c'.pc = "collected" /\ c'.deps = c.deps /\ c'.books = c.books
    BY <2>1, StopsFields DEF IInv
  <2>3. Range(<<>>) = {}
    BY DEF Range
  <2>4. Whole(c.deps)
    BY <1>2, <1>3, <2>3, FileFacts DEF Whole, ReadBooks, ReadLate, Has
  <2>5. CollectInv'
    BY <1>3, <2>2, <2>4 DEF CollectInv, Reading
  <2> QED
    BY <1>1, <2>2, <2>5, SameDeps
<1>4. CASE c.books # <<>>
  <2> DEFINE t == <<Head(c.books)>>
  <2>1. c' = [c EXCEPT !.todo = t, !.pc = "open"]
    BY <1>4 DEF Book, Only
  <2>2. t \in Seq(Files) /\ t # <<>>
    BY <1>1, <1>4, BooksFacts
  <2>3. Progress(c.deps, t, c.books)
    BY <1>2, <1>4, <2>2 DEF Progress
  <2> HIDE DEF t
  <2> QED
    BY <1>1, <2>1, <2>2, <2>3, TodoKeeps
<1> QED
  BY <1>3, <1>4

LEMMA ExporterKeeps == IInv /\ Exporter => IInv'
<1> SUFFICES ASSUME IInv, Exporter PROVE IInv'
  OBVIOUS
<1> DEFINE t == <<"exporter">>
<1>1. c.pc = "exporter" /\ Same /\ c' = [c EXCEPT !.todo = t, !.pc = "open"]
  BY DEF Exporter, At, Only, Same
<1>2. t \in Seq(Files) /\ t # <<>>
  BY FileFacts
<1>3. Progress(c.deps, t, c.books) /\ run.step # "idle"
  BY <1>1, <1>2 DEF IInv, CollectInv, Progress, RunInv
<1> HIDE DEF t
<1> QED
  BY <1>1, <1>2, <1>3, TodoKeeps

\* What a list records as it is now.
LEMMA ListedKeeps ==
    ASSUME IInv, Same, run.step # "idle", c' \in CRec, CollectInv', c'.pc \notin {"read", "absent"},
           c'.deps.export = c.deps.export, c'.books = c.books,
           \A f \in Files : c'.deps.val[f] = c.deps.val[f]
                            \/ (c'.deps.val[f] = cur[f] /\ f \in Range(Accounts))
    PROVE  IInv'
<1>1. UNCHANGED <<cur, run, selected, edits, current>>
  BY DEF Same
<1>2. Types'
  BY <1>1 DEF IInv, Types
<1>3. run.over \cap Range(Accounts) = {}
  <2>1. run.over \subseteq Range(Plain) \cup Range(Books)
    BY DEF IInv, Types, RunRec
  <2> QED
    BY <2>1, FileFacts
<1>4. AgedInv'
  <2>1. ASSUME NEW f \in Files
        PROVE  IF Overlaying(f) THEN c'.deps.val[f] \in {Unread, Imported} ELSE Aged(f, c'.deps.val[f])
    BY <1>3 DEF IInv, AgedInv, Overlaying, Aged
  <2> QED
    BY <1>1, <2>1 DEF IInv, AgedInv, Overlaying, Aged, Past, Gone
<1>5. ExportInv'
  <2>1. \A f \in Range(Books) \cup {"exporter"} : c'.deps.val[f] = c.deps.val[f]
    BY FileFacts
  <2>2. ASSUME NEW b \in Range(Books) PROVE Exported(c.deps, b)' <=> Exported(c.deps, b)
    BY <1>1, <2>1 DEF Exported, BookThere, Past, Gone
  <2>3. ExportOK(c.deps)' /\ AllExported(c.deps, c.books)'
    BY <2>1, <2>2 DEF IInv, ExportInv, ExportOK, AllExported
  <2>4. (run.prior # None => ExportOK(run.prior))' /\ (selected # None => ExportOK(selected))'
    BY <1>1 DEF IInv, ExportInv, ExportOK, Exported, BookThere, Past, Gone
  <2> QED
    BY <2>3, <2>4 DEF IInv, ExportInv
<1>6. ASSUME run.step \in {"overlay", "recheck", "again"}, Stale PROVE Stale'
  <2>1. PICK f \in Files : StaleAt(f)
    BY <1>6 DEF Stale
  <2>2. run.step # "overlay" => c'.deps.val[f] # run.first.val[f]
    BY <1>6, <2>1, NowDiffers DEF StaleAt
  <2>3. StaleAt(f)'
    BY <1>1, <2>1, <2>2 DEF StaleAt, Gone
  <2> QED
    BY <2>3 DEF Stale
<1>7. RunInv'
  <2>1. run.step = "overlay" => \A f \in Files \ run.over : Differs(f, c'.deps.val[f])
    BY NowDiffers DEF IInv, RunInv
  <2> QED
    BY <1>1, <1>6, <2>1, SameRun DEF IInv
<1> QED
  BY <1>2, <1>4, <1>5, <1>7 DEF IInv

\* The names that are listed are those of the account files that are there.
LEMMA NamesFacts ==
    ASSUME NEW s \in Sorted(Present), NEW t, t = [i \in DOMAIN s |-> Accounts[s[i]]]
    PROVE  /\ t \in Seq(Files) /\ Range(t) = {a \in Range(Accounts) : cur[a] # Absent}
           /\ (s = <<>> <=> t = <<>>)
<1>1. PICK n \in 0..Len(Accounts) : s \in [1..n -> Present]
  BY DEF Sorted
<1>2. Range(s) = Present /\ DOMAIN s = 1..n /\ n \in Nat /\ DOMAIN t = 1..n
  <2>1. Accounts \in Seq(Files)
    BY FileFacts
  <2> QED
    BY <1>1, <2>1 DEF Sorted
<1>3. \A i \in 1..n : s[i] \in DOMAIN Accounts /\ cur[Accounts[s[i]]] # Absent /\ t[i] = Accounts[s[i]]
  BY <1>1, <1>2 DEF Present
<1>4. t \in Seq(Files)
  <2>1. \A i \in DOMAIN Accounts : Accounts[i] \in Files
    BY FileFacts
  <2>2. t \in [1..n -> Files]
    BY <1>2, <1>3, <2>1
  <2> QED
    BY <1>2, <2>2
<1>5. ASSUME NEW a \in Range(t) PROVE a \in Range(Accounts) /\ cur[a] # Absent
  <2>1. PICK i \in 1..n : a = t[i]
    BY <1>2 DEF Range
  <2> QED
    BY <1>3, <2>1 DEF Range
<1>6. ASSUME NEW a \in Range(Accounts), cur[a] # Absent PROVE a \in Range(t)
  <2>1. PICK j \in DOMAIN Accounts : a = Accounts[j]
    BY DEF Range
  <2>2. j \in Range(s)
    BY <1>2, <1>6, <2>1 DEF Present
  <2>3. PICK i \in 1..n : j = s[i]
    BY <1>2, <2>2 DEF Range
  <2> QED
    BY <1>2, <1>3, <2>1, <2>3 DEF Range
<1>7. s = <<>> <=> t = <<>>
  <2>1. s \in Seq(Present) /\ Len(s) = n /\ Len(t) = n
    BY <1>1, <1>2, <1>4
  <2> QED
    BY <1>4, <2>1, EmptySeq
<1> QED
  BY <1>4, <1>5, <1>6, <1>7

LEMMA ListKeeps == IInv /\ List => IInv'
<1> SUFFICES ASSUME IInv, List PROVE IInv'
  OBVIOUS
<1>1. c.pc = "list" /\ Same
  BY DEF List, At, Only, Same
<1>2. PICK s \in Sorted(Present) :
         c' = [c EXCEPT !.todo = [i \in DOMAIN s |-> Accounts[s[i]]],
                        !.pc = IF s = <<>> THEN "profile" ELSE "lstat",
                        !.deps.val = [f \in Files |-> IF f \in Range(Accounts) /\ cur[f] = Absent
                                                      THEN Absent ELSE @[f]]]
  BY DEF List, Only
<1> DEFINE t == [i \in DOMAIN s |-> Accounts[s[i]]]
           pc == IF s = <<>> THEN "profile" ELSE "lstat"
           val == [f \in Files |-> IF f \in Range(Accounts) /\ cur[f] = Absent THEN Absent ELSE c.deps.val[f]]
           deps == [c.deps EXCEPT !.val = val]
           n == [c EXCEPT !.todo = t, !.pc = pc, !.deps = deps]
<1>3. c' = n
  BY <1>2
<1>4. /\ t \in Seq(Files) /\ Range(t) = {a \in Range(Accounts) : cur[a] # Absent}
      /\ (s = <<>> <=> t = <<>>)
  BY <1>2, NamesFacts
<1>5. c \in CRec /\ c.deps \in DepsRec /\ c.deps.val \in [Files -> Values]
  BY DEF IInv, Types, CRec, DepsRec
<1>6. val \in [Files -> Values]
  <2>1. Absent \in Values
    BY ContentFacts DEF Values
  <2> QED
    BY <1>5, <2>1
<1>7. \A f \in Files : val[f] = IF f \in Range(Accounts) /\ cur[f] = Absent THEN Absent ELSE c.deps.val[f]
  OBVIOUS
<1>8. pc \in AllPcs /\ pc = IF t = <<>> THEN "profile" ELSE "lstat"
  BY <1>4 DEF AllPcs, Reading
<1> HIDE DEF t, val, pc
<1>9. deps \in DepsRec /\ deps.val = val /\ deps.export = c.deps.export
  BY <1>5, <1>6 DEF DepsRec
<1> HIDE DEF deps
<1>10. n \in CRec /\ n.todo = t /\ n.books = c.books /\ n.deps = deps /\ n.pc = pc
  BY <1>4, <1>5, <1>8, <1>9 DEF CRec
<1>11. c' \in CRec /\ c'.todo = t /\ c'.books = c.books /\ c'.deps = deps /\ c'.pc = pc
  BY <1>3, <1>10
<1> HIDE DEF n
<1>12. NoBook(c.deps, c.books) /\ ReadPlain(c.deps, <<>>) /\ Range(<<>>) = {}
  BY <1>1 DEF IInv, CollectInv, Range
<1>13. ReadAccounts(deps, t)
  BY <1>4, <1>7, <1>9, <1>12, FileFacts, ContentFacts DEF ReadPlain, ReadAccounts, Has
<1>14. Range(t) \subseteq Range(Accounts) /\ NoBook(deps, c.books)
  BY <1>4, <1>7, <1>9, <1>12, FileFacts DEF NoBook
<1>15. CollectInv'
  BY <1>8, <1>11, <1>13, <1>14 DEF CollectInv, Progress, Reading
<1>16. c'.deps.export = c.deps.export /\ c'.pc \notin {"read", "absent"}
  BY <1>8, <1>9, <1>11
<1>17. \A f \in Files : c'.deps.val[f] = c.deps.val[f] \/ (c'.deps.val[f] = cur[f] /\ f \in Range(Accounts))
  BY <1>7, <1>9, <1>11
<1>18. run.step # "idle"
  BY <1>1 DEF IInv, RunInv
<1> QED
  BY <1>1, <1>11, <1>15, <1>16, <1>17, <1>18, ListedKeeps

-----------------------------------------------------------------------------
(* The export of the book *)

\* An export that was made of this book by this exporter is as good as a new one.
LEMMA ReusedExport ==
    ASSUME NEW p, NEW d, NEW b \in Range(Books), ExportOK(p), Reusable(p, d, b), BookThere(d, b),
           d.export[b] = p.export[b]
    PROVE  Exported(d, b)
BY DEF ExportOK, Reusable, Exported

LEMMA ExportKeeps == IInv /\ Export => IInv'
<1> SUFFICES ASSUME IInv, Export PROVE IInv'
  OBVIOUS
<1> DEFINE b == Head(c.books)
           d == c.deps
           new == [by |-> cur["exporter"], of |-> d.val[b]]
           export == IF d.val[b] = Absent THEN None
                     ELSE IF Reusable(Prior, d, b) THEN Prior.export[b] ELSE new
           exports == [d.export EXCEPT ![b] = export]
           deps == [d EXCEPT !.export = exports]
           n == [c EXCEPT !.pc = "book", !.books = Tail(c.books), !.deps = deps]
<1>1. c.pc = "export" /\ Same /\ c' = n
  BY DEF Export, At, Only, Same
<1>2. /\ c.books # <<>> /\ ReadBooks(d, c.books) /\ Left(d, Tail(c.books)) /\ d.val[b] # Unread /\ Known(d)
      /\ d \in DepsRec /\ c \in CRec /\ run.step # "idle" /\ cur["exporter"] \in Contents
      /\ c.books \in Seq(Range(Books)) /\ Distinct(c.books)
  BY <1>1, FileFacts DEF IInv, CollectInv, Types, CRec, RunInv, ExportInv
<1>3. /\ b \in Range(Books) /\ b \in Files /\ b \in Range(c.books) /\ b \notin Range(Tail(c.books))
      /\ Tail(c.books) \in Seq(Range(Books)) /\ Range(c.books) = {b} \cup Range(Tail(c.books))
      /\ Distinct(Tail(c.books))
  BY <1>2, BooksFacts
<1>4. d.val \in [Files -> Values] /\ d.export \in [Range(Books) -> ExportRec \cup {None}]
  BY <1>2 DEF DepsRec
<1>5. Prior # None => ExportOK(Prior) /\ Prior \in DepsRec
  BY <1>2 DEF Prior, IInv, ExportInv, RunInv, Types, RunRec
<1>6. export \in ExportRec \cup {None}
  <2>1. CASE d.val[b] # Absent /\ Reusable(Prior, d, b)
    BY <1>3, <1>5, <2>1 DEF Reusable, DepsRec
  <2>2. CASE d.val[b] # Absent /\ ~Reusable(Prior, d, b)
    <3>1. d.val[b] \in Contents \ {Absent}
      BY <1>2, <1>3, <1>4, <2>2 DEF Values
    <3> QED
      BY <1>2, <2>2, <3>1 DEF ExportRec
  <2> QED
    BY <2>1, <2>2
<1> HIDE DEF export, b, d
<1>7. /\ exports \in [Range(Books) -> ExportRec \cup {None}] /\ exports[b] = export
      /\ \A x \in Range(Books) \ {b} : exports[x] = d.export[x]
  BY <1>3, <1>4, <1>6
<1> HIDE DEF exports
<1>8. deps \in DepsRec /\ deps.val = d.val /\ deps.export = exports
  BY <1>2, <1>7 DEF DepsRec
<1> HIDE DEF deps
<1>9. n \in CRec /\ n.deps = deps /\ n.pc = "book" /\ n.books = Tail(c.books)
  <2>1. "book" \in AllPcs
    BY DEF AllPcs
  <2> QED
    BY <1>2, <1>3, <1>8, <2>1 DEF CRec
<1>10. c' \in CRec /\ c'.deps = deps /\ c'.pc = "book" /\ c'.books = Tail(c.books)
  BY <1>1, <1>9
<1> HIDE DEF n
<1>11. d.val[b] # Absent => Exported(deps, b)
  <2>1. SUFFICES ASSUME d.val[b] # Absent PROVE Exported(deps, b)
    OBVIOUS
  <2>2. BookThere(deps, b) /\ BookThere(d, b) /\ d.val["exporter"] # Unread
    BY <1>2, <1>3, <1>8, <2>1 DEF BookThere, Known
  <2>3. CASE Reusable(Prior, d, b)
    <3>1. ExportOK(Prior) /\ Reusable(Prior, deps, b) /\ deps.export[b] = Prior.export[b]
      BY <1>5, <1>7, <1>8, <2>1, <2>3 DEF Reusable, export
    <3> QED
      BY <1>3, <2>2, <3>1, ReusedExport
  <2>4. CASE ~Reusable(Prior, d, b)
    <3>1. deps.export[b] = [by |-> cur["exporter"], of |-> deps.val[b]]
      BY <1>7, <1>8, <2>1, <2>4 DEF export
    <3>2. Aged("exporter", d.val["exporter"])
      <4>1. "exporter" \notin run.over
        BY FileFacts DEF IInv, Types, RunRec
      <4> QED
        BY <4>1, FileFacts DEF IInv, AgedInv, Overlaying, d
    <3>3. /\ deps.val["exporter"] \in Past \ {Unread}
          /\ cur["exporter"] = deps.val["exporter"] \/ Gone("exporter", deps.val["exporter"])
      BY <1>8, <2>2, <3>2 DEF Aged
    <3> QED
      BY <1>2, <2>2, <3>1, <3>3 DEF Exported
  <2> QED
    BY <2>3, <2>4
<1>12. \A x \in Range(Books) \ {b} : Exported(d, x) => Exported(deps, x)
  BY <1>7, <1>8 DEF Exported, BookThere
<1>13. UNCHANGED <<cur, run, selected, edits, current>>
  BY <1>1 DEF Same
<1>14. Types'
  BY <1>10, <1>13 DEF IInv, Types
<1>15. CollectInv'
  <2>1. ReadBooks(deps, Tail(c.books))
    BY <1>2, <1>3, <1>8 DEF ReadBooks, ReadLate, Has
  <2>2. Left(deps, Tail(c.books)) /\ Known(deps)
    BY <1>2, <1>8 DEF Left, Known, BookThere
  <2> QED
    BY <1>10, <2>1, <2>2 DEF CollectInv, Reading
<1>16. AgedInv'
  BY <1>8, <1>10, <1>13 DEF IInv, AgedInv, Overlaying, Aged, Past, Gone, d
<1>17. ExportInv'
  <2>1. /\ ExportOK(d) /\ AllExported(d, c.books) /\ \A x \in Range(c.books) : d.export[x] = None
    BY DEF IInv, ExportInv, d
  <2>2. ExportOK(deps)
    <3>1. ASSUME NEW x \in Range(Books) PROVE deps.export[x] = None \/ Exported(deps, x)
      <4>1. CASE x = b
        BY <1>7, <1>8, <1>11, <4>1 DEF export
      <4>2. CASE x # b
        BY <1>7, <1>8, <1>12, <2>1, <4>2 DEF ExportOK
      <4> QED
        BY <4>1, <4>2
    <3> QED
      BY <3>1 DEF ExportOK
  <2>3. AllExported(deps, Tail(c.books))
    <3>1. ASSUME NEW x \in Range(Books) \ Range(Tail(c.books)), deps.val[x] # Absent PROVE Exported(deps, x)
      <4>1. CASE x = b
        BY <1>8, <1>11, <3>1, <4>1
      <4>2. CASE x # b
        BY <1>3, <1>8, <1>12, <2>1, <3>1, <4>2 DEF AllExported
      <4> QED
        BY <4>1, <4>2
    <3> QED
      BY <3>1 DEF AllExported
  <2>4. \A x \in Range(Tail(c.books)) : deps.export[x] = None
    <3>1. Range(Tail(c.books)) \subseteq Range(Books)
      BY <1>3 DEF Range
    <3> QED
      BY <1>3, <1>7, <1>8, <2>1, <3>1
  <2>5. ExportOK(c.deps)' /\ AllExported(c.deps, c.books)'
    BY <1>10, <1>13, <2>2, <2>3 DEF ExportOK, AllExported, Exported, BookThere, Past, Gone
  <2>6. (run.prior # None => ExportOK(run.prior))' /\ (selected # None => ExportOK(selected))'
    BY <1>13, SMTT(40) DEF IInv, ExportInv, ExportOK, Exported, BookThere, Past, Gone
  <2> QED
    BY <1>3, <1>10, <2>4, <2>5, <2>6 DEF ExportInv
<1>18. ASSUME run.step \in {"overlay", "recheck", "again"}, Stale PROVE Stale'
  BY <1>8, <1>10, <1>13, <1>18 DEF Stale, StaleAt, Gone, d
<1>19. RunInv'
  <2>1. run.step = "overlay" => \A f \in Files \ run.over : Differs(f, c'.deps.val[f])
    BY <1>8, <1>10 DEF IInv, RunInv, d
  <2>2. c'.pc # "read"
    BY <1>10
  <2> QED
    BY <1>2, <1>13, <1>18, <2>1, <2>2, SameRun DEF IInv
<1> QED
  BY <1>14, <1>15, <1>16, <1>17, <1>19 DEF IInv

-----------------------------------------------------------------------------
(* A collection that begins, or none *)

\* Nothing is read yet.
Blank(d) == (\A f \in Files : d.val[f] = Unread) /\ \A b \in Range(Books) : d.export[b] = None

LEMMA BlankFacts ==
    /\ Collecting \in CRec /\ Collecting.pc = "open" /\ Collecting.todo = Plain /\ Collecting.books = Books
    /\ Blank(Collecting.deps)
    /\ NoCollection \in CRec /\ NoCollection.pc = "none" /\ NoCollection.books = Books /\ Blank(NoCollection.deps)
<1>1. NoDeps \in DepsRec /\ Blank(NoDeps)
  BY DEF NoDeps, DepsRec, Values, Blank
<1>2. /\ "none" \in AllPcs /\ "open" \in AllPcs /\ Unread \in Values /\ <<>> \in Seq(Files) /\ Plain \in Seq(Files)
      /\ Books \in Seq(Range(Books))
  BY FileFacts DEF AllPcs, Reading, Values
<1>3. NoCollection \in CRec /\ NoCollection.pc = "none" /\ NoCollection.books = Books /\ NoCollection.deps = NoDeps
  BY <1>1, <1>2 DEF NoCollection, CRec
<1>4. /\ Collecting \in CRec /\ Collecting.pc = "open" /\ Collecting.todo = Plain /\ Collecting.books = Books
      /\ Collecting.deps = NoDeps
  BY <1>1, <1>2, <1>3 DEF Collecting, CRec
<1> QED
  BY <1>1, <1>3, <1>4

LEMMA BeginFacts ==
    ASSUME c' = Collecting \/ c' = NoCollection
    PROVE  /\ c' \in CRec /\ c'.pc \in {"open", "none"} /\ Blank(c'.deps) /\ CollectInv' /\ c'.books = Books
           /\ (c' = NoCollection => c'.pc = "none")
<1>1. /\ c' \in CRec /\ c'.pc \in {"open", "none"} /\ Blank(c'.deps) /\ (c'.pc = "open" => c'.todo = Plain)
      /\ (c' = NoCollection => c'.pc = "none") /\ c'.books = Books
  BY BlankFacts
<1>2. c'.pc = "open" => Progress(c'.deps, c'.todo, c'.books)
  <2>1. NoBook(c'.deps, c'.books)
    BY <1>1, FileFacts DEF Blank, NoBook
  <2> QED
    BY <1>1, <2>1, FileFacts DEF Progress, ReadPlain, Has
<1> QED
  BY <1>1, <1>2 DEF CollectInv, Reading

\* What a collection that begins leaves to show.
LEMMA BeginKeeps ==
    ASSUME AgedInv, UNCHANGED <<cur, edits>>, c' = Collecting \/ c' = NoCollection,
           run'.prior # None => ExportOK(run'.prior), selected' # None => ExportOK(selected')
    PROVE  AgedInv' /\ ExportInv'
<1>1. c'.pc \notin {"read", "absent", "collected"} /\ Blank(c'.deps) /\ c'.books = Books
  BY BeginFacts
<1>2. ASSUME NEW f \in Files
      PROVE  IF Overlaying(f)' THEN c'.deps.val[f] \in {Unread, Imported} ELSE Aged(f, c'.deps.val[f])
  BY <1>1 DEF Blank, Aged, Past
<1>3. AgedInv'
  BY <1>1, <1>2 DEF AgedInv, Aged, Gone, Past
<1>4. /\ ExportOK(c.deps)' /\ AllExported(c.deps, c.books)' /\ Distinct(c'.books)
      /\ \A b \in Range(c'.books) : c'.deps.export[b] = None
  BY <1>1, FileFacts DEF Blank, ExportOK, AllExported
<1>5. (run.prior # None => ExportOK(run.prior))' /\ (selected # None => ExportOK(selected))'
  BY DEF ExportOK, Exported, BookThere, Past, Gone
<1> QED
  BY <1>3, <1>4, <1>5 DEF ExportInv

\* A content that is gone from the first snapshot is so for every collection that begins.
LEMMA BeginStale ==
    ASSUME UNCHANGED cur, c' = Collecting, NEW f \in Files,
           run'.first.val[f] # Unread, Gone(f, run'.first.val[f])
    PROVE  Stale'
<1>1. c'.pc = "open" /\ c'.deps.val[f] = Unread
  BY BlankFacts DEF Blank
<1>2. StaleAt(f)'
  BY <1>1 DEF StaleAt, Gone
<1> QED
  BY <1>2 DEF Stale

-----------------------------------------------------------------------------
(* The steps of an invocation *)

LEMMA NoRunFacts ==
    /\ NoRun \in RunRec /\ NoRun.kind = "none" /\ NoRun.step = "idle" /\ NoRun.prior = None
    /\ NoRun.first = None /\ NoRun.over = {} /\ NoRun.overlay = None
BY DEF NoRun, RunRec

\* A first snapshot is to be collected.
LEMMA CollectKeeps ==
    ASSUME IInv, c' = Collecting, UNCHANGED <<cur, selected, edits>>, current' \in BOOLEAN,
           NEW kind \in {"compile", "import"}, NEW prior, prior # None => ExportOK(prior),
           run' \in RunRec, run'.kind = kind, run'.step = "collect", run'.prior = prior, run'.over = {}
    PROVE  IInv'
<1>1. c' \in CRec /\ CollectInv'
  BY BeginFacts
<1>2. Types'
  BY <1>1 DEF IInv, Types
<1>3. AgedInv' /\ ExportInv'
  BY BeginKeeps DEF IInv, ExportInv
<1>4. RunInv'
  BY DEF RunInv
<1> QED
  BY <1>1, <1>2, <1>3, <1>4 DEF IInv

\* The invocation ends and nothing is published.
LEMMA EndKeeps == ASSUME IInv, NEW how, End(how), UNCHANGED selected PROVE IInv'
<1>1. run' = NoRun /\ c' = NoCollection /\ UNCHANGED <<cur, selected, edits, current>>
  BY DEF End
<1>2. /\ run' \in RunRec /\ run'.kind = "none" /\ run'.step = "idle" /\ run'.prior = None /\ run'.over = {}
      /\ c' \in CRec /\ CollectInv' /\ c'.pc = "none"
  BY <1>1, NoRunFacts, BeginFacts
<1>3. Types'
  BY <1>1, <1>2 DEF IInv, Types
<1>4. AgedInv' /\ ExportInv'
  BY <1>1, <1>2, BeginKeeps DEF IInv, ExportInv
<1>5. RunInv'
  BY <1>2 DEF RunInv
<1> QED
  BY <1>2, <1>3, <1>4, <1>5 DEF IInv

LEMMA StartKeeps == ASSUME IInv, NEW kind \in {"compile", "import"}, Start(kind) PROVE IInv'
<1> DEFINE prior == IF kind = "compile" THEN selected ELSE None
<1>1. prior \in DepsRec \cup {None} /\ (prior # None => ExportOK(prior))
  BY DEF IInv, Types, ExportInv
<1>2. run' = [NoRun EXCEPT !.kind = kind, !.step = "collect", !.prior = prior]
  BY DEF Start
<1> HIDE DEF prior
<1>3. run' \in RunRec /\ run'.kind = kind /\ run'.step = "collect" /\ run'.prior = prior /\ run'.over = {}
  BY <1>1, <1>2, NoRunFacts DEF RunRec
<1>4. c' = Collecting /\ UNCHANGED <<cur, selected, edits>> /\ current' \in BOOLEAN
  BY DEF Start
<1> QED
  BY <1>1, <1>3, <1>4, CollectKeeps

LEMMA RetryKeeps ==
    ASSUME IInv, NEW prior \in DepsRec \cup {None}, prior # None => ExportOK(prior), Retry(prior)
    PROVE  IInv'
<1>1. CASE LastAttempt
  BY <1>1, EndKeeps DEF Retry
<1>2. CASE ~LastAttempt
  <2> DEFINE attempt == run.attempt + 1
  <2>1. attempt \in 0..2
    BY <1>2 DEF LastAttempt, IInv, Types, RunRec
  <2>2. /\ run' = [NoRun EXCEPT !.kind = "compile", !.step = "collect", !.attempt = attempt, !.prior = prior]
        /\ c' = Collecting /\ UNCHANGED <<cur, selected, edits>> /\ current' \in BOOLEAN
    BY <1>2 DEF Retry
  <2> HIDE DEF attempt
  <2>3. /\ run' \in RunRec /\ run'.kind = "compile" /\ run'.step = "collect" /\ run'.prior = prior
        /\ run'.over = {}
    BY <2>1, <2>2, NoRunFacts DEF RunRec
  <2> QED
    BY <2>2, <2>3, CollectKeeps
<1> QED
  BY <1>1, <1>2

LEMMA DisagreeKeeps == IInv /\ Disagree => IInv'
<1> SUFFICES ASSUME IInv, Disagree PROVE IInv'
  OBVIOUS
<1>1. c.deps \in DepsRec \cup {None} /\ ExportOK(c.deps) /\ Retry(c.deps)
  BY DEF Disagree, IInv, Types, CRec, ExportInv
<1> QED
  BY <1>1, RetryKeeps

LEMMA ChangedInputKeeps == IInv /\ ChangedInput => IInv'
<1> SUFFICES ASSUME IInv, ChangedInput PROVE IInv'
  OBVIOUS
<1> DEFINE prior == IF run.step = "collect" THEN run.prior ELSE run.first
<1>1. run.step # "idle" /\ run \in RunRec
  BY DEF ChangedInput, At, IInv, RunInv, Types
<1>2. prior \in DepsRec \cup {None} /\ (prior # None => ExportOK(prior))
  BY <1>1 DEF RunRec, IInv, RunInv, ExportInv
<1>3. Retry(prior)
  BY DEF ChangedInput
<1> HIDE DEF prior
<1> QED
  BY <1>2, <1>3, RetryKeeps

LEMMA FailedKeeps == IInv /\ Failed => IInv'
BY EndKeeps DEF Failed

\* The inputs of a complete snapshot were current at one instant, or one is gone.
LEMMA CollectedKeeps == IInv /\ Collected => IInv'
<1> SUFFICES ASSUME IInv, Collected PROVE IInv'
  OBVIOUS
<1> DEFINE step == IF run.kind = "import" THEN "overlay" ELSE "recheck"
<1>1. /\ c.pc = "collected" /\ run.step = "collect" /\ c' = Collecting /\ UNCHANGED <<cur, selected, edits>>
      /\ current' = AsNow(c.deps, cur)
  BY DEF Collected, At
<1>2. PICK over \in IF run.kind = "import" THEN Merges ELSE {{}} :
         run' = [run EXCEPT !.first = c.deps, !.over = over, !.step = step]
  BY DEF Collected
<1>3. /\ step \in {"overlay", "recheck"} /\ (step = "overlay" <=> run.kind = "import")
      /\ over \in SUBSET (Range(Plain) \cup Range(Books)) /\ (run.kind # "import" => over = {})
  BY FileFacts
<1> HIDE DEF step
<1>4. /\ run \in RunRec /\ c.deps \in DepsRec /\ Whole(c.deps) /\ ExportOK(c.deps)
      /\ (\A b \in Range(Books) : c.deps.val[b] # Absent => Exported(c.deps, b))
      /\ \A f \in Files : Aged(f, c.deps.val[f])
  <2>1. c.books = <<>> /\ Range(<<>>) = {}
    BY <1>1 DEF IInv, CollectInv, Range
  <2> QED
    BY <1>1, <2>1 DEF IInv, Types, CRec, CollectInv, ExportInv, AllExported, AgedInv, Overlaying
<1>5. /\ run' \in RunRec /\ run'.first = c.deps /\ run'.step = step /\ run'.kind = run.kind
      /\ run'.prior = run.prior /\ run'.over = over
  BY <1>2, <1>3, <1>4 DEF RunRec
<1>6. c' \in CRec /\ CollectInv' /\ c'.pc = "open" /\ Blank(c'.deps)
  BY <1>1, BeginFacts, BlankFacts
<1>7. Types'
  BY <1>1, <1>5, <1>6 DEF IInv, Types, AsNow
<1>8. AgedInv' /\ ExportInv'
  BY <1>1, <1>5, BeginKeeps DEF IInv, ExportInv
<1>9. ASSUME NEW f \in Files, c.deps.val[f] # Unread, Gone(f, c.deps.val[f]) PROVE Stale'
  BY <1>1, <1>5, <1>9, BeginStale
<1>10. current' \/ Stale'
  <2>1. CASE ~AsNow(c.deps, cur)
    <3>1. PICK f \in Files : c.deps.val[f] \notin {Unread, cur[f]}
      BY <2>1 DEF AsNow
    <3>2. Gone(f, c.deps.val[f])
      BY <1>4, <3>1 DEF Aged
    <3> QED
      BY <1>9, <3>1, <3>2
  <2> QED
    BY <1>1, <2>1
<1>11. Exact(c.deps) \/ Stale'
  <2>1. SUFFICES ASSUME ~Stale', NEW b \in Range(Books), c.deps.val[b] # Absent
                 PROVE  c.deps.export[b] = [by |-> c.deps.val["exporter"], of |-> c.deps.val[b]]
    BY DEF Exact
  <2>2. Exported(c.deps, b) /\ c.deps.val["exporter"] # Unread
    BY <1>4, <2>1 DEF Exported
  <2>3. ~Gone("exporter", c.deps.val["exporter"])
    BY <1>9, <2>1, <2>2, FileFacts
  <2> QED
    BY <2>2, <2>3 DEF Exported
<1>12. RunInv'
  <2>1. run.kind # "none" /\ run.kind \in {"none", "compile", "import"}
    BY <1>1 DEF IInv, RunInv, Types, RunRec
  <2>2. ~(run'.step \in {"recheck", "again"} /\ run'.kind = "import")
    BY <1>3, <1>5
  <2>3. /\ run'.first \in DepsRec /\ Whole(run'.first) /\ ExportOK(run.first)'
        /\ \A f \in Files : Aged(f, run.first.val[f])'
    BY <1>1, <1>4, <1>5 DEF Aged, Past, Gone, ExportOK, Exported, BookThere
  <2>4. \A f \in Files : Differs(f, c.deps.val[f])'
    BY <1>6 DEF Blank, Differs
  <2>5. Exact(run'.first) \/ Stale'
    BY <1>5, <1>11
  <2> HIDE DEF Stale
  <2> QED
    BY <1>3, <1>5, <1>6, <1>10, <2>1, <2>2, <2>3, <2>4, <2>5 DEF RunInv
<1> QED
  BY <1>6, <1>7, <1>8, <1>12 DEF IInv

\* An invocation that goes on to look again at its inputs.
LEMMA LookKeeps ==
    ASSUME IInv, c' = Collecting, UNCHANGED <<cur, selected, edits, current>>,
           run.step \in {"overlay", "recheck"}, run' \in RunRec, run'.step \in {"recheck", "again"},
           run'.kind = run.kind, run.kind = "import", run'.prior = run.prior, run'.first = run.first,
           run'.over = run.over, run'.overlay \in DepsRec, ExportOK(run'.overlay),
           Matches(run'.overlay) \/ Stale', FirstBook \/ Exact(run'.overlay) \/ Stale'
    PROVE  IInv'
<1>1. c' \in CRec /\ CollectInv' /\ c'.pc = "open" /\ Blank(c'.deps)
  BY BeginFacts, BlankFacts
<1>2. Types'
  BY <1>1 DEF IInv, Types
<1>3. AgedInv' /\ ExportInv'
  BY BeginKeeps DEF IInv, ExportInv
<1>4. ASSUME Stale PROVE Stale'
  <2>1. PICK f \in Files : StaleAt(f)
    BY <1>4 DEF Stale
  <2> QED
    BY <2>1, BeginStale DEF StaleAt
<1>5. /\ run.first \in DepsRec /\ Whole(run.first) /\ ExportOK(run.first)
      /\ \A f \in Files : Aged(f, run.first.val[f])
      /\ current \/ Stale'
      /\ Exact(run.first) \/ Stale'
  BY <1>4 DEF IInv, RunInv
<1>6. (FirstBook' <=> FirstBook) /\ (Matches(run.overlay)' <=> Matches(run'.overlay))
  BY DEF Matches, FirstBook
<1>7. ExportOK(run.first)' /\ ExportOK(run.overlay)' /\ \A f \in Files : Aged(f, run.first.val[f])'
  BY <1>5 DEF Aged, Past, Gone, ExportOK, Exported, BookThere
<1>8. RunInv'
  <2> HIDE DEF Stale
  <2> QED
    BY <1>1, <1>5, <1>6, <1>7 DEF RunInv
<1> QED
  BY <1>1, <1>2, <1>3, <1>8 DEF IInv

LEMMA LookAgainKeeps == IInv /\ LookAgain => IInv'
<1> SUFFICES ASSUME IInv, LookAgain PROVE IInv'
  OBVIOUS
<1>1. /\ run.step = "recheck" /\ run.kind = "import" /\ c' = Collecting
      /\ UNCHANGED <<cur, selected, edits, current>> /\ run' = [run EXCEPT !.step = "again"]
  BY DEF LookAgain
<1>2. /\ run' \in RunRec /\ run'.step = "again" /\ run'.kind = run.kind /\ run'.prior = run.prior
      /\ run'.first = run.first /\ run'.over = run.over /\ run'.overlay = run.overlay
  BY <1>1 DEF IInv, Types, RunRec
<1>3. ASSUME Stale PROVE Stale'
  <2>1. PICK f \in Files : StaleAt(f)
    BY <1>3 DEF Stale
  <2> QED
    BY <1>1, <1>2, <2>1, BeginStale DEF StaleAt
<1>4. /\ run.overlay \in DepsRec /\ ExportOK(run.overlay) /\ (Matches(run.overlay) \/ Stale)
      /\ (FirstBook \/ Exact(run.overlay) \/ Stale)
  BY <1>1 DEF IInv, RunInv
<1> QED
  BY <1>1, <1>2, <1>3, <1>4, LookKeeps

\* An overlay has what the import writes and, for the rest, the first snapshot's contents,
\* or one of these is gone; the exporter is read for a book that was not there.
LEMMA OverlaidKeeps == IInv /\ Overlaid => IInv'
<1> SUFFICES ASSUME IInv, Overlaid PROVE IInv'
  OBVIOUS
<1> DEFINE d == c.deps
           p == run.first
<1>1. /\ c.pc = "collected" /\ run.step = "overlay" /\ c' = Collecting
      /\ UNCHANGED <<cur, selected, edits, current>>
      /\ run' = [run EXCEPT !.overlay = d, !.step = "recheck"]
  BY DEF Overlaid, At
<1>2. /\ run \in RunRec /\ d \in DepsRec /\ Whole(d) /\ ExportOK(d) /\ run.kind = "import"
      /\ (\A b \in Range(Books) : d.val[b] # Absent => Exported(d, b)) /\ Whole(p)
  <2>1. c.books = <<>> /\ Range(<<>>) = {}
    BY <1>1 DEF IInv, CollectInv, Range
  <2> QED
    BY <1>1, <2>1 DEF IInv, Types, CRec, CollectInv, ExportInv, AllExported, RunInv
<1>3. \A f \in Files \ run.over : Differs(f, d.val[f])
  BY <1>1 DEF IInv, RunInv
<1>4. /\ run' \in RunRec /\ run'.step = "recheck" /\ run'.kind = run.kind /\ run'.prior = run.prior
      /\ run'.first = run.first /\ run'.over = run.over /\ run'.overlay = d
  BY <1>1, <1>2 DEF RunRec
<1>5. "exporter" \in Files \ run.over /\ Range(Books) \subseteq Files \ {"exporter"}
  BY <1>2, FileFacts DEF RunRec
<1>6. \A f \in run.over : f \in Files \ {"exporter"} /\ d.val[f] = Imported
  <2>1. run.over \subseteq Files \ {"exporter"}
    BY <1>2, FileFacts DEF RunRec
  <2>2. ASSUME NEW f \in run.over PROVE d.val[f] = Imported
    BY <1>1, <1>2, <2>1 DEF IInv, AgedInv, Overlaying, Whole, Has
  <2> QED
    BY <2>1, <2>2
<1> HIDE DEF d
<1>7. ASSUME NEW f \in Files, p.val[f] # Unread, Gone(f, p.val[f]) PROVE Stale'
  BY <1>1, <1>4, <1>7, BeginStale
<1>8. ASSUME NEW f \in Files \ run.over, d.val[f] # Unread, p.val[f] # Unread, d.val[f] # p.val[f]
      PROVE  Stale'
  BY <1>3, <1>7, <1>8 DEF Differs
<1>9. ASSUME ~FirstBook, d.val["exporter"] # p.val["exporter"] PROVE Stale'
  <2>1. \A b \in Range(Books) : d.val[b] # Unread /\ p.val[b] # Unread
    BY <1>2, <1>5 DEF Whole, Has
  <2>2. CASE d.val["exporter"] # Unread /\ p.val["exporter"] # Unread
    BY <1>5, <1>8, <1>9, <2>2
  <2>3. CASE d.val["exporter"] = Unread
    <3>1. PICK b \in Range(Books) : BookThere(p, b) /\ ~BookThere(d, b)
      BY <1>2, <1>9, <2>3 DEF Whole, Known
    <3>2. d.val[b] # p.val[b] /\ d.val[b] = Absent
      BY <2>1, <3>1 DEF BookThere
    <3>3. b \notin run.over
      BY <1>6, <3>2, ContentFacts
    <3> QED
      BY <1>5, <1>8, <2>1, <3>2, <3>3
  <2>4. CASE p.val["exporter"] = Unread
    <3>1. PICK b \in Range(Books) : BookThere(d, b) /\ ~BookThere(p, b)
      BY <1>2, <1>9, <2>4 DEF Whole, Known
    <3>2. d.val[b] # p.val[b]
      BY <2>1, <3>1 DEF BookThere
    <3>3. b \notin run.over
      BY <1>9, <2>4 DEF FirstBook
    <3> QED
      BY <1>5, <1>8, <2>1, <3>2, <3>3
  <2> QED
    BY <2>2, <2>3, <2>4
<1>10. Matches(d) \/ Stale'
  <2>1. SUFFICES ASSUME ~Stale', NEW f \in Files, ~(f = "exporter" /\ FirstBook)
                 PROVE  d.val[f] = IF f \in run.over THEN Imported ELSE p.val[f]
    BY DEF Matches
  <2>2. CASE f \in run.over
    BY <1>6, <2>2
  <2>3. CASE f \notin run.over /\ f # "exporter"
    <3>1. d.val[f] # Unread /\ p.val[f] # Unread
      BY <1>2, <2>3 DEF Whole, Has
    <3> QED
      BY <1>8, <2>1, <2>3, <3>1
  <2>4. CASE f = "exporter"
    BY <1>5, <1>9, <2>1, <2>4
  <2> QED
    BY <2>2, <2>3, <2>4
<1>11. FirstBook \/ Exact(d) \/ Stale'
  <2>1. SUFFICES ASSUME ~Stale', ~FirstBook, NEW b \in Range(Books), d.val[b] # Absent
                 PROVE  d.export[b] = [by |-> d.val["exporter"], of |-> d.val[b]]
    BY DEF Exact
  <2>2. Exported(d, b) /\ d.val["exporter"] # Unread /\ d.val["exporter"] = p.val["exporter"]
    BY <1>2, <1>9, <2>1 DEF Exported
  <2>3. ~Gone("exporter", d.val["exporter"])
    BY <1>5, <1>7, <2>1, <2>2
  <2> QED
    BY <2>2, <2>3 DEF Exported
<1> QED
  BY <1>1, <1>2, <1>4, <1>10, <1>11, LookKeeps

\* A collection that agrees with the first snapshot has none of its contents gone.
LEMMA AgreeFacts ==
    ASSUME IInv, At("collected"), Agree, run.step \in {"recheck", "again"}
    PROVE  /\ current /\ run.first \in DepsRec /\ ExportOK(run.first) /\ Exact(run.first)
           /\ (run.kind # "import" => run.over = {})
           /\ run.kind = "import" =>
                 /\ run.overlay \in DepsRec /\ ExportOK(run.overlay)
                 /\ Matches(run.overlay) /\ (FirstBook \/ Exact(run.overlay))
<1>1. ~Stale
  BY DEF Agree, Stale, StaleAt
<1> QED
  BY <1>1 DEF IInv, RunInv

LEMMA PublishKeeps == IInv /\ Publish => IInv'
<1> SUFFICES ASSUME IInv, Publish PROVE IInv'
  OBVIOUS
<1> DEFINE built == IF run.kind = "import" THEN run.overlay ELSE run.first
<1>1. At("collected") /\ Agree /\ run.step \in {"recheck", "again"} /\ selected' = built
  BY DEF Publish
<1>2. built \in DepsRec /\ ExportOK(built)
  BY <1>1, AgreeFacts
<1> HIDE DEF built
<1>3. run' = NoRun /\ c' = NoCollection /\ UNCHANGED <<edits, current>>
  BY DEF Publish
<1>4. /\ cur' \in [Files -> Contents] /\ cur'["exporter"] = cur["exporter"]
      /\ \A f \in Files : cur'[f] \in Past
  <2>1. cur' = [f \in Files |-> IF f \in run.over THEN Imported ELSE cur[f]] /\ "exporter" \notin run.over
    BY FileFacts DEF Publish, IInv, Types, RunRec
  <2> QED
    BY <2>1, FileFacts, ContentFacts DEF IInv, Types, AgedInv, Past
<1>5. /\ run' \in RunRec /\ run'.kind = "none" /\ run'.step = "idle" /\ run'.prior = None /\ run'.over = {}
      /\ c' \in CRec /\ CollectInv' /\ c'.pc = "none" /\ Blank(c'.deps) /\ c'.books = Books
  BY <1>3, NoRunFacts, BeginFacts
<1>6. Types'
  BY <1>1, <1>2, <1>3, <1>4, <1>5 DEF IInv, Types
<1>7. AgedInv'
  BY <1>3, <1>4, <1>5 DEF AgedInv, Overlaying, Blank, Aged, Past
<1>8. ExportInv'
  <2>1. ExportOK(selected)'
    BY <1>1, <1>2, <1>3, <1>4 DEF ExportOK, Exported, BookThere, Past, Gone
  <2>2. /\ ExportOK(c.deps)' /\ AllExported(c.deps, c.books)' /\ Distinct(c'.books)
        /\ \A b \in Range(c'.books) : c'.deps.export[b] = None
    BY <1>5, FileFacts DEF Blank, ExportOK, AllExported
  <2> QED
    BY <1>5, <2>1, <2>2 DEF ExportInv
<1>9. RunInv'
  BY <1>5 DEF RunInv
<1> QED
  BY <1>5, <1>6, <1>7, <1>8, <1>9 DEF IInv

-----------------------------------------------------------------------------
(* The user's edits *)

\* What is gone stays so, and what was read is there or gone.
LEMMA Aging ==
    ASSUME Types, AgedInv, NEW e \in Files, edits < MaxEdits, edits' = edits + 1,
           \/ cur' = [cur EXCEPT ![e] = edits + 1]
           \/ cur[e] = 0 /\ cur' = [cur EXCEPT ![e] = Absent]
    PROVE  /\ cur' \in [Files -> Contents] /\ edits' \in 0..MaxEdits
           /\ \A f \in Files : cur'[f] \in Past'
           /\ \A v \in Past : v \in Past'
           /\ \A f \in Files : \A v \in Past : Gone(f, v) => Gone(f, v)'
           /\ \A f \in Files : \A v \in Past : Aged(f, v) => Aged(f, v)'
<1>1. edits \in Nat /\ cur \in [Files -> Contents] /\ MaxEdits \in Nat /\ edits + 1 \in 0..MaxEdits
  BY ContentFacts DEF Types
<1>2. /\ edits + 1 \in Contents /\ edits + 1 \notin {0, Absent, Unread, Imported}
      /\ edits + 1 \notin 0..edits /\ edits + 1 \notin Past
  BY <1>1, ContentFacts DEF Past
<1>3. Absent \in Contents /\ Absent # 0 /\ Absent # Unread
  BY ContentFacts
<1>4. cur' \in [Files -> Contents] /\ \A f \in Files \ {e} : cur'[f] = cur[f]
  BY <1>1, <1>2, <1>3
<1>5. cur'[e] = edits + 1 \/ (cur[e] = 0 /\ cur'[e] = Absent)
  BY <1>1
<1>6. (\A v \in Past : v \in Past') /\ edits + 1 \in Past' /\ Absent \in Past'
  BY <1>1 DEF Past
<1>7. \A f \in Files : cur'[f] \in Past'
  BY <1>4, <1>5, <1>6 DEF AgedInv
<1>8. ASSUME NEW f \in Files, NEW v \in Past, Gone(f, v) PROVE Gone(f, v)'
  <2>1. CASE f # e
    BY <1>4, <1>8, <2>1 DEF Gone
  <2>2. CASE f = e
    BY <1>2, <1>3, <1>5, <1>8, <2>2 DEF Gone
  <2> QED
    BY <2>1, <2>2
<1>9. ASSUME NEW f \in Files, NEW v \in Past, Aged(f, v) PROVE Aged(f, v)'
  <2>1. CASE Gone(f, v)
    BY <1>6, <1>8, <2>1 DEF Aged
  <2>2. CASE v = Unread \/ (v = cur[f] /\ f # e)
    BY <1>4, <1>6, <2>2 DEF Aged
  <2>3. CASE v = cur[f] /\ f = e
    <3>1. Gone(e, v)'
      BY <1>2, <1>3, <1>5, <2>3 DEF Gone
    <3> QED
      BY <1>6, <2>3, <3>1 DEF Aged
  <2> QED
    BY <1>9, <2>1, <2>2, <2>3 DEF Aged
<1> QED
  BY <1>1, <1>4, <1>6, <1>7, <1>8, <1>9

LEMMA EditKeeps == ASSUME IInv, NEW e \in Files, NEW inplace \in BOOLEAN, Edit(e, inplace) PROVE IInv'
<1>1. /\ edits < MaxEdits /\ edits' = edits + 1 /\ UNCHANGED <<run, selected>>
      /\ \/ cur' = [cur EXCEPT ![e] = edits + 1]
         \/ cur[e] = 0 /\ cur' = [cur EXCEPT ![e] = Absent]
      /\ current' \in BOOLEAN /\ (current => current')
  BY DEF Edit, IInv, Types, AsNow
<1>2. /\ c' \in CRec /\ c'.pc = c.pc /\ c'.todo = c.todo /\ c'.books = c.books /\ c'.fd = c.fd
      /\ c'.deps = c.deps /\ Input' = Input
  BY DEF Edit, IInv, Types, CRec, Input
<1>3. /\ cur' \in [Files -> Contents] /\ edits' \in 0..MaxEdits
      /\ \A f \in Files : cur'[f] \in Past'
      /\ \A v \in Past : v \in Past'
      /\ \A f \in Files : \A v \in Past : Gone(f, v) => Gone(f, v)'
      /\ \A f \in Files : \A v \in Past : Aged(f, v) => Aged(f, v)'
  BY <1>1, Aging DEF IInv
<1>4. Types'
  BY <1>1, <1>2, <1>3 DEF IInv, Types
<1>5. CollectInv'
  BY <1>2 DEF IInv, CollectInv
<1>9. AgedInv'
  <2>1. \A f \in Files : Overlaying(f)' <=> Overlaying(f)
    BY <1>1 DEF Overlaying
  <2>2. ASSUME NEW f \in Files
        PROVE  IF Overlaying(f)' THEN c'.deps.val[f] \in {Unread, Imported} ELSE Aged(f, c.deps.val[f])'
    <3>1. Aged(f, c.deps.val[f]) => Aged(f, c.deps.val[f])'
      BY <1>2, <1>3 DEF Aged, Gone, Past
    <3> QED
      BY <1>2, <2>1, <3>1 DEF IInv, AgedInv
  <2>3. c'.pc = "read" => Aged(Input, c.fd)' /\ c'.fd \notin {Absent, Unread}
    <3>1. c.pc = "read" => Aged(Input, c.fd) /\ c.fd \notin {Absent, Unread} /\ Input \in Files
      BY InputFacts DEF IInv, AgedInv, Reading
    <3> QED
      BY <1>2, <1>3, <3>1 DEF Aged, Gone, Past
  <2>4. c'.pc \in {"read", "absent"} => ~Overlaying(Input)'
    BY <1>1, <1>2 DEF IInv, AgedInv, Overlaying
  <2> QED
    BY <1>3, <2>2, <2>3, <2>4 DEF AgedInv
<1>10. ExportInv'
  <2>1. ExportOK(c.deps)' /\ AllExported(c.deps, c.books)'
    <3>1. c'.deps = c.deps /\ c'.books = c.books /\ ExportOK(c.deps) /\ AllExported(c.deps, c.books)
      BY <1>2 DEF IInv, ExportInv
    <3>2. ASSUME NEW b \in Range(Books), Exported(c.deps, b) PROVE Exported(c.deps, b)'
      BY <1>3, <3>1, <3>2, FileFacts DEF Exported, BookThere, Gone, Past
    <3> QED
      BY <3>1, <3>2 DEF ExportOK, AllExported
  <2>2. run'.prior # None => ExportOK(run.prior)'
    <3>1. run'.prior = run.prior /\ (run.prior # None => ExportOK(run.prior))
      BY <1>1 DEF IInv, ExportInv
    <3>2. ASSUME NEW b \in Range(Books), Exported(run.prior, b) PROVE Exported(run.prior, b)'
      BY <1>1, <1>3, <3>2, FileFacts DEF Exported, BookThere, Gone, Past
    <3> QED
      BY <3>1, <3>2 DEF ExportOK
  <2>3. selected' # None => ExportOK(selected)'
    <3>1. selected' = selected /\ (selected # None => ExportOK(selected))
      BY <1>1 DEF IInv, ExportInv
    <3>2. ASSUME NEW b \in Range(Books), Exported(selected, b) PROVE Exported(selected, b)'
      BY <1>1, <1>3, <3>2, FileFacts DEF Exported, BookThere, Gone, Past
    <3> QED
      BY <3>1, <3>2 DEF ExportOK
  <2> QED
    BY <1>2, <2>1, <2>2, <2>3 DEF IInv, ExportInv
<1>11. ASSUME run.step \in {"overlay", "recheck", "again"}, Stale PROVE Stale'
  <2>1. PICK f \in Files : StaleAt(f)
    BY <1>11 DEF Stale
  <2>2. run.first.val[f] \in Past
    BY <1>11 DEF IInv, RunInv, Aged
  <2>3. Gone(f, run.first.val[f])'
    BY <1>1, <1>3, <2>1, <2>2 DEF StaleAt, Gone
  <2>4. StaleAt(f)'
    BY <1>1, <1>2, <2>1, <2>3 DEF StaleAt
  <2> QED
    BY <2>4 DEF Stale
<1>12. RunInv'
  <2>1. run.step \in {"overlay", "recheck", "again"} =>
          /\ run.first \in DepsRec /\ Whole(run.first) /\ ExportOK(run.first)'
          /\ \A f \in Files : Aged(f, run.first.val[f])'
          /\ current' \/ Stale'
          /\ Exact(run.first) \/ Stale'
    <3>1. SUFFICES ASSUME run.step \in {"overlay", "recheck", "again"}
                   PROVE  /\ ExportOK(run.first)' /\ \A f \in Files : Aged(f, run.first.val[f])'
      BY <1>1, <1>11 DEF IInv, RunInv
    <3>2. ExportOK(run.first) /\ \A f \in Files : Aged(f, run.first.val[f])
      BY <3>1 DEF IInv, RunInv
    <3>3. ExportOK(run.first)'
      <4>1. ASSUME NEW b \in Range(Books), Exported(run.first, b) PROVE Exported(run.first, b)'
        BY <1>1, <1>3, <4>1, FileFacts DEF Exported, BookThere, Gone, Past
      <4> QED
        BY <1>1, <3>2, <4>1 DEF ExportOK
    <3>4. \A f \in Files : Aged(f, run.first.val[f])'
      BY <1>1, <1>3, <3>2 DEF Aged, Gone, Past
    <3> QED
      BY <3>3, <3>4
  <2>2. ASSUME run.step = "overlay", NEW f \in Files, NEW v, Differs(f, v) PROVE Differs(f, v)'
    <3>1. run.first.val[f] \in Past
      BY <2>2 DEF IInv, RunInv, Aged
    <3> QED
      BY <1>1, <1>3, <2>2, <3>1 DEF Differs, Gone
  <2>3. run.step = "overlay" => \A f \in Files \ run.over : Differs(f, c.deps.val[f])'
    <3>1. run.step = "overlay" => \A f \in Files \ run.over : Differs(f, c.deps.val[f])
      BY DEF IInv, RunInv
    <3> QED
      BY <1>1, <1>2, <2>2, <3>1 DEF Differs, Gone
  <2>4. run.step = "overlay" /\ c'.pc = "read" => Differs(Input, c.fd)'
    <3>1. run.step = "overlay" /\ c.pc = "read" => Differs(Input, c.fd) /\ Input \in Files
      BY InputFacts DEF IInv, RunInv, Reading
    <3> QED
      BY <1>1, <1>2, <2>2, <3>1 DEF Differs, Gone
  <2>5. run.step \in {"recheck", "again"} /\ run.kind = "import" =>
          /\ run.overlay \in DepsRec /\ ExportOK(run.overlay)'
          /\ Matches(run.overlay) \/ Stale'
          /\ FirstBook \/ Exact(run.overlay) \/ Stale'
    <3>1. SUFFICES ASSUME run.step \in {"recheck", "again"}, run.kind = "import"
                   PROVE  ExportOK(run.overlay)'
      BY <1>11 DEF IInv, RunInv
    <3>2. ExportOK(run.overlay)
      BY <3>1 DEF IInv, RunInv
    <3> QED
      <4>1. run' = run
        BY <1>1
      <4>2. ASSUME NEW b \in Range(Books), Exported(run.overlay, b) PROVE Exported(run.overlay, b)'
        BY <1>1, <1>3, <4>2, FileFacts DEF Exported, BookThere, Gone, Past
      <4> QED
        BY <3>2, <4>1, <4>2 DEF ExportOK
  <2>6. /\ run.step = "idle" <=> run.kind = "none"
        /\ run.step = "idle" => c.pc = "none"
        /\ run.step \in {"overlay", "again"} => run.kind = "import"
        /\ run.kind # "import" => run.over = {}
    BY DEF IInv, RunInv
  <2>7. (FirstBook' <=> FirstBook) /\ (Matches(run.overlay)' <=> Matches(run.overlay))
    BY <1>1 DEF FirstBook, Matches
  <2> HIDE DEF Stale
  <2> QED
    BY <1>1, <1>2, <2>1, <2>3, <2>4, <2>5, <2>6, <2>7 DEF RunInv
<1> QED
  BY <1>4, <1>5, <1>9, <1>10, <1>12 DEF IInv

-----------------------------------------------------------------------------
(* The theorems *)

LEMMA InitHolds == Init => IInv
<1> SUFFICES ASSUME Init PROVE IInv
  OBVIOUS
<1>1. /\ c = NoCollection /\ run = NoRun /\ selected = None /\ edits = 0 /\ current = FALSE
      /\ \E gone \in {{}, Removable} : cur = [f \in Files |-> IF f \in gone THEN Absent ELSE 0]
  BY DEF Init
<1>2. /\ run \in RunRec /\ run.kind = "none" /\ run.step = "idle" /\ run.prior = None /\ run.over = {}
      /\ c \in CRec /\ c.pc = "none" /\ Blank(c.deps) /\ c.books = Books
  BY <1>1, NoRunFacts, BlankFacts
<1>3. cur \in [Files -> Contents] /\ \A f \in Files : cur[f] \in Past
  BY <1>1, ContentFacts DEF Past
<1>4. Types
  <2>1. 0 \in 0..MaxEdits /\ FALSE \in BOOLEAN
    BY ContentFacts
  <2> QED
    BY <1>1, <1>2, <1>3, <2>1, Zenon DEF Types
<1>5. CollectInv /\ ExportInv /\ RunInv
  BY <1>1, <1>2, FileFacts DEF CollectInv, ExportInv, RunInv, Reading, ExportOK, AllExported, Blank
<1>6. AgedInv
  BY <1>2, <1>3 DEF AgedInv, Overlaying, Blank, Aged, Past
<1> QED
  BY <1>4, <1>5, <1>6 DEF IInv

LEMMA StutterKeeps == IInv /\ UNCHANGED vars => IInv'
<1> SUFFICES ASSUME IInv, UNCHANGED vars PROVE IInv'
  OBVIOUS
<1>1. UNCHANGED <<cur, c, run, selected, edits, current>>
  BY DEF vars
<1>2. Types' /\ CollectInv'
  BY <1>1, Zenon DEF IInv, Types, CollectInv
<1>3. AgedInv'
  BY <1>1, Zenon DEF IInv, AgedInv, Aged, Past, Gone, Overlaying, Input
<1>4. ExportInv'
  BY <1>1, ZenonT(60) DEF IInv, ExportInv, ExportOK, AllExported, Exported, BookThere, Past, Gone
<1>5. RunInv'
  <2>1. Stale' <=> Stale
    BY <1>1, Zenon DEF Stale, StaleAt, Gone, Input
  <2>2. (\A f \in Files : Aged(f, run.first.val[f])') <=> (\A f \in Files : Aged(f, run.first.val[f]))
    BY <1>1, Zenon DEF Aged, Past, Gone
  <2>3. (ExportOK(run.first)' <=> ExportOK(run.first)) /\ (ExportOK(run.overlay)' <=> ExportOK(run.overlay))
    BY <1>1, Zenon DEF ExportOK, Exported, Past, Gone
  <2>4. /\ (\A f \in Files \ run.over : Differs(f, c.deps.val[f])')
              <=> (\A f \in Files \ run.over : Differs(f, c.deps.val[f]))
        /\ Differs(Input, c.fd)' <=> Differs(Input, c.fd)
    BY <1>1, Zenon DEF Differs, Gone, Input
  <2>5. (Matches(run.overlay)' <=> Matches(run.overlay)) /\ (FirstBook' <=> FirstBook)
    BY <1>1, Zenon DEF Matches, FirstBook
  <2> QED
    BY <1>1, <2>1, <2>2, <2>3, <2>4, <2>5, Zenon DEF IInv, RunInv
<1> QED
  BY <1>2, <1>3, <1>4, <1>5 DEF IInv

LEMMA StepKeeps == IInv /\ [Next]_vars => IInv'
BY OverrideKeeps, OpenKeeps, StillAbsentKeeps, ReadInputKeeps, ListKeeps, AccountLstatKeeps,
   AccountStatKeeps, ProfileKeeps, BookKeeps, ExporterKeeps, ExportKeeps, CollectedKeeps, OverlaidKeeps,
   DisagreeKeeps, LookAgainKeeps, PublishKeeps, ChangedInputKeeps, FailedKeeps, StartKeeps, EditKeeps,
   StutterKeeps
   DEF Next, Collect

LEMMA Invariance == Spec => []IInv
BY InitHolds, StepKeeps, PTL DEF Spec

\* Every content, collection and snapshot is well formed, and no more than three attempts
\* are made (snapshot.c, the loop of jf_compile).
THEOREM TypeCorrect == Spec => []TypeOK
<1>1. IInv => TypeOK
  <2>1. ASSUME NEW d \in DepsRec PROVE DepsOK(d)
    BY DEF DepsRec, ExportRec, Values, DepsOK
  <2> QED
    BY <2>1 DEF IInv, Types, CRec, RunRec, TypeOK
<1> QED
  BY <1>1, Invariance, PTL

\* The contacts of what is published are the exports of its books by its exporter, whether
\* they were exported anew or reused, unless an import writes the first book (export_book
\* and reusable_export; only the overlay of such an import runs the exporter).
THEOREM ContactsCurrent == Spec => ExportCurrent
<1>1. IInv /\ [Next]_vars => [Publish /\ ~FirstBook => Exact(selected')]_vars
  <2> SUFFICES ASSUME IInv, Publish, ~FirstBook PROVE Exact(selected')
    OBVIOUS
  <2>1. /\ At("collected") /\ Agree /\ run.step \in {"recheck", "again"}
        /\ selected' = IF run.kind = "import" THEN run.overlay ELSE run.first
    BY DEF Publish
  <2> QED
    BY <2>1, AgreeFacts
<1> QED
  BY <1>1, Invariance, PTL DEF Spec, ExportCurrent

\* What is published was built from inputs that were all current at one instant after
\* they had been read, with those that an import overrides replaced (jf_compile and
\* jf_compile_import); the exporter of a first book that an import writes is read later.
THEOREM PublishesOneInstant == Spec => Consistent
<1> DEFINE P == Publish =>
          /\ current
          /\ \A f \in Files :
               \/ f = "exporter" /\ FirstBook
               \/ selected'.val[f] = IF f \in run.over THEN Imported ELSE run.first.val[f]
<1>1. IInv /\ [Next]_vars => [P]_vars
  <2> SUFFICES ASSUME IInv, Publish PROVE P
    OBVIOUS
  <2>1. /\ At("collected") /\ Agree /\ run.step \in {"recheck", "again"}
        /\ selected' = IF run.kind = "import" THEN run.overlay ELSE run.first
    BY DEF Publish
  <2> QED
    BY <2>1, AgreeFacts DEF Matches
<1> QED
  BY <1>1, Invariance, PTL DEF Spec, Consistent
=============================================================================
