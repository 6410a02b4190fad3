--------------------------- MODULE ContactProofs ----------------------------
(***************************************************************************)
(* Proofs about Contact, for any number of invocations, addresses, files,  *)
(* records, failures, edits and power losses.                              *)
(***************************************************************************)
EXTENDS Contact, SequenceTheorems, FiniteSetTheorems, WellFoundedInduction, TLAPS

-----------------------------------------------------------------------------
(* Types *)

Pcs == {"idle", "create", "open", "stat", "lock", "read", "recheck", "write", "sync", "sync_parent"}

WRec == [pc : Pcs, email : Addresses \cup {None}, check : BOOLEAN, fd : Inodes \cup {None},
         created : BOOLEAN, before : Nat, id : 0..IdMax, format : BOOLEAN]

Types ==
    /\ named \in Inodes \cup {None} /\ dnamed \in Inodes \cup {None}
    /\ file \in [Inodes -> Seq(Items)] /\ dfile \in [Inodes -> Seq(Items)]
    /\ owner \in [Inodes -> Writers \cup {None}] /\ readers \in [Inodes -> SUBSET Writers]
    /\ w \in [Writers -> WRec]
    /\ loaded # None => loaded \in Seq(Items) /\ Edited(loaded)
    /\ reported \subseteq Addresses
    /\ power \in Nat
    /\ raced \in BOOLEAN /\ torn \in BOOLEAN

-----------------------------------------------------------------------------
(* The books *)

\* A book that is valid unless it has the last section number.
ValidBook(b) == (\A i \in Records(b) : b[i].id # IdMax) => \A i \in DOMAIN b : ~Invalid(b, i)

SmallBook(b) == Cardinality(Records(b)) <= RuleMax

GoodBook(b) == Distinct(b) /\ SmallBook(b) /\ (~torn => ValidBook(b))

BookInv ==
    ~raced => /\ \A i \in Inodes : GoodBook(file[i]) /\ GoodBook(dfile[i])
              /\ loaded # None => GoodBook(loaded)

-----------------------------------------------------------------------------
(* The invocations *)

\* What an invocation that is to append has read.
HasRead(p, b) ==
    /\ \A i \in DOMAIN b : ~Invalid(b, i)
    /\ w[p].email \notin Emails(b) /\ ~Full(b)
    /\ w[p].id = NextId(b) /\ w[p].format = HasFormat(b)

Appending == {"recheck", "write", "sync", "sync_parent"}
Past == {"write", "sync", "sync_parent"}

WInv(p) ==
    /\ w[p].pc # "idle" => w[p].email \in Addresses
    /\ w[p].pc \in {"create", "open"} => w[p].before = 0
    /\ w[p].pc \in {"stat", "lock", "read"} \cup Appending => w[p].fd \in Inodes
    /\ w[p].pc \in {"lock", "read"} => Len(file[w[p].fd]) >= w[p].before
    /\ w[p].pc = "read" /\ ~w[p].check => owner[w[p].fd] = p
    /\ w[p].pc \in Appending => owner[w[p].fd] = p
    /\ w[p].pc = "recheck" => \/ HasRead(p, file[w[p].fd]) /\ Len(file[w[p].fd]) >= w[p].before
                              \/ Len(file[w[p].fd]) > w[p].before

WriterInv == \A p \in Writers : WInv(p)

\* From the last check on the book is what was read, unless it was edited.
AInv(p) ==
    /\ w[p].pc \in Past => named = w[p].fd
    /\ w[p].pc = "write" => HasRead(p, file[w[p].fd])
    /\ w[p].pc \in {"sync", "sync_parent"} => w[p].email \in Emails(file[w[p].fd])
    /\ w[p].pc = "sync_parent" => w[p].email \in Emails(dfile[w[p].fd])

AppendInv == ~raced => \A p \in Writers : AInv(p)

-----------------------------------------------------------------------------
(* What was reported *)

KeptInv ==
    /\ Kept
    /\ ~raced /\ dnamed # named => dnamed = None /\ reported \subseteq exposed

IInv == Types /\ BookInv /\ WriterInv /\ AppendInv /\ KeptInv

-----------------------------------------------------------------------------
(* Items and books *)

LEMMA ItemFacts ==
    /\ Format \in Items /\ Broken \in Items
    /\ \A x \in Items : x \in Record <=> x \notin {Format, Broken}
BY ContactAssumption DEF Items

LEMMA BookFacts ==
    ASSUME NEW b \in Seq(Items)
    PROVE  /\ Len(b) \in Nat /\ DOMAIN b = 1..Len(b) /\ Records(b) \subseteq 1..Len(b)
           /\ \A i \in Records(b) : b[i] \in Record
           /\ IsFiniteSet(Records(b)) /\ Cardinality(Records(b)) \in Nat
<1>1. Len(b) \in Nat /\ DOMAIN b = 1..Len(b) /\ \A i \in 1..Len(b) : b[i] \in Items
  OBVIOUS
<1>2. Records(b) \subseteq 1..Len(b) /\ \A i \in Records(b) : b[i] \in Record
  BY <1>1, ItemFacts DEF Records
<1>3. IsFiniteSet(1..Len(b))
  BY <1>1, FS_Interval
<1> QED
  BY <1>1, <1>2, <1>3, FS_Subset, FS_CardinalityType

\* A line more.
LEMMA AppendFacts ==
    ASSUME NEW b \in Seq(Items), NEW x \in Items
    PROVE  /\ Append(b, x) \in Seq(Items) /\ Len(Append(b, x)) = Len(b) + 1 /\ Append(b, x) # <<>>
           /\ DOMAIN Append(b, x) = 1..(Len(b) + 1)
           /\ Append(b, x)[Len(b) + 1] = x /\ \A i \in 1..Len(b) : Append(b, x)[i] = b[i]
           /\ Len(b) + 1 \notin Records(b)
           /\ Records(Append(b, x)) = IF x \in Record THEN Records(b) \cup {Len(b) + 1} ELSE Records(b)
           /\ Emails(b) \subseteq Emails(Append(b, x))
           /\ (x \notin Record => Emails(Append(b, x)) = Emails(b))
           /\ (x \in Record /\ x.email # None => x.email \in Emails(Append(b, x)))
<1> DEFINE a == Append(b, x)
<1>1. /\ Len(b) \in Nat /\ DOMAIN b = 1..Len(b) /\ Records(b) \subseteq 1..Len(b)
  BY BookFacts
<1>2. /\ a \in Seq(Items) /\ Len(a) = Len(b) + 1 /\ DOMAIN a = 1..(Len(b) + 1)
      /\ a[Len(b) + 1] = x /\ \A i \in 1..Len(b) : a[i] = b[i]
  BY <1>1
<1>3. a # <<>> /\ Len(b) + 1 \notin Records(b)
  BY <1>1, <1>2
<1> HIDE DEF a
<1>4. Records(a) = IF x \in Record THEN Records(b) \cup {Len(b) + 1} ELSE Records(b)
  <2>1. x \in Record <=> x \notin {Format, Broken}
    BY ItemFacts
  <2>2. \A i \in 1..(Len(b) + 1) : i \in 1..Len(b) \/ i = Len(b) + 1
    BY <1>1
  <2>3. \A i \in 1..Len(b) : i \in 1..(Len(b) + 1)
    BY <1>1
  <2>4. Len(b) + 1 \in 1..(Len(b) + 1)
    BY <1>1
  <2>5. \A i \in 1..Len(b) : i \in Records(a) <=> i \in Records(b)
    BY <1>1, <1>2, <2>3 DEF Records
  <2>6. Len(b) + 1 \in Records(a) <=> x \in Record
    BY <1>2, <2>1, <2>4 DEF Records
  <2>7. Records(a) \subseteq 1..(Len(b) + 1)
    BY <1>2 DEF Records
  <2>8. ASSUME NEW i \in Records(a) PROVE i \in Records(b) \/ (x \in Record /\ i = Len(b) + 1)
    BY <2>2, <2>5, <2>6, <2>7
  <2>9. \A i \in Records(b) : i \in Records(a)
    BY <1>1, <2>5
  <2> HIDE DEF Records
  <2>10. CASE x \in Record
    BY <2>6, <2>8, <2>9, <2>10
  <2>11. CASE x \notin Record
    BY <2>8, <2>9, <2>11
  <2> QED
    BY <2>10, <2>11
<1>5. \A i \in Records(b) : i \in Records(a) /\ a[i] = b[i]
  BY <1>1, <1>2, <1>4
<1>6. Emails(b) \subseteq Emails(a)
  BY <1>5 DEF Emails
<1>7. x \notin Record => Emails(a) = Emails(b)
  BY <1>4, <1>5 DEF Emails
<1>8. x \in Record /\ x.email # None => x.email \in Emails(a)
  BY <1>2, <1>4 DEF Emails
<1> QED
  BY <1>2, <1>3, <1>4, <1>6, <1>7, <1>8 DEF a

LEMMA AppendCount ==
    ASSUME NEW b \in Seq(Items), NEW x \in Items
    PROVE  Cardinality(Records(Append(b, x))) = Cardinality(Records(b)) + (IF x \in Record THEN 1 ELSE 0)
BY AppendFacts, BookFacts, FS_AddElement, SMTT(40)

LEMMA ShortSeqs ==
    ASSUME NEW x, NEW y
    PROVE  /\ <<>> \o <<x>> = <<x>> /\ <<x>> \o <<y>> = <<x, y>>
           /\ Append(<<>>, x) = <<x>> /\ Append(<<x>>, y) = <<x, y>>
           /\ SubSeq(<<x>>, 1, 0) = <<>> /\ SubSeq(<<x>>, 1, 1) = <<x>>
           /\ SubSeq(<<x, y>>, 1, 0) = <<>> /\ SubSeq(<<x, y>>, 1, 1) = <<x>>
           /\ SubSeq(<<x, y>>, 1, 2) = <<x, y>>
<1> DEFINE S == {x, y}
<1>1. <<x>> \in Seq(S) /\ <<y>> \in Seq(S) /\ <<x, y>> \in Seq(S) /\ Len(<<x>>) = 1 /\ Len(<<x, y>>) = 2
  OBVIOUS
<1>2. <<>> \o <<x>> = <<x>> /\ Append(<<>>, x) = <<x>>
  BY <1>1
<1>3. <<x>> \o <<y>> = <<x, y>>
  <2>1. <<x>> \o <<y>> \in Seq(S) /\ Len(<<x>> \o <<y>>) = 2 /\ (<<x>> \o <<y>>)[1] = x /\ (<<x>> \o <<y>>)[2] = y
    BY <1>1
  <2>2. \A i \in 1..2 : (<<x>> \o <<y>>)[i] = <<x, y>>[i]
    BY <2>1
  <2> HIDE DEF S
  <2> QED
    BY <1>1, <2>1, <2>2, SeqEqual
<1>4. Append(<<x>>, y) = <<x, y>>
  <2>1. Append(<<x>>, y) \in Seq(S) /\ Len(Append(<<x>>, y)) = 2 /\ Append(<<x>>, y)[1] = x /\ Append(<<x>>, y)[2] = y
    BY <1>1
  <2>2. \A i \in 1..2 : Append(<<x>>, y)[i] = <<x, y>>[i]
    BY <2>1
  <2> HIDE DEF S
  <2> QED
    BY <1>1, <2>1, <2>2, SeqEqual
<1>5. SubSeq(<<x>>, 1, 0) = <<>> /\ SubSeq(<<x, y>>, 1, 0) = <<>>
  BY SubSeqEmpty
<1>6. SubSeq(<<x>>, 1, 1) = <<x>> /\ SubSeq(<<x, y>>, 1, 2) = <<x, y>>
  <2> HIDE DEF S
  <2> QED
    BY <1>1, SubSeqFull
<1>7. SubSeq(<<x, y>>, 1, 1) = <<x>>
  <2> DEFINE z == SubSeq(<<x, y>>, 1, 1)
  <2>1. \A i \in 1..1 : <<x, y>>[i] \in S
    OBVIOUS
  <2>2. z \in Seq(S) /\ Len(z) = IF 1 <= 1 THEN 1 - 1 + 1 ELSE 0
    BY <2>1, SubSeqProperties
  <2>3. \A i \in 1..(1 - 1 + 1) : z[i] = <<x, y>>[1 + i - 1]
    BY <2>1, SubSeqProperties
  <2> HIDE DEF z, S
  <2>4. Len(z) = 1 /\ \A i \in 1..1 : z[i] = <<x>>[i]
    BY <2>2, <2>3
  <2>5. Len(z) = Len(<<x>>) /\ \A i \in 1..Len(z) : z[i] = <<x>>[i]
    BY <1>1, <2>4
  <2> QED
    BY <1>1, <2>2, <2>5, SeqEqual DEF z
<1> QED
  BY <1>2, <1>3, <1>4, <1>5, <1>6, <1>7

LEMMA Concatenations ==
    ASSUME NEW b \in Seq(Items), NEW x \in Items, NEW y \in Items
    PROVE  b \o <<>> = b /\ b \o <<x>> = Append(b, x) /\ b \o <<x, y>> = Append(Append(b, x), y)
<1>1. b \o <<>> = b /\ b \o <<x>> = Append(b, x)
  OBVIOUS
<1>2. b \o <<x, y>> = Append(Append(b, x), y)
  OBVIOUS
<1> QED
  BY <1>1, <1>2

-----------------------------------------------------------------------------
(* The next section number.  The greatest is found by the least difference. *)

LEMMA Least ==
    ASSUME NEW T \in SUBSET Nat, T # {}
    PROVE  \E x \in T : \A y \in T : x <= y
<1>1. IsWellFoundedOn(OpToRel(<, Nat), Nat)
  BY NatLessThanWellFounded, Zenon
<1>2. PICK x \in T : \A y \in T : ~(<<y, x>> \in OpToRel(<, Nat))
  BY <1>1, WFMin, Zenon
<1>3. \A y \in T : ~(y < x)
  BY <1>2 DEF OpToRel
<1> QED
  BY <1>3

LEMMA MinFacts == ASSUME NEW T \in SUBSET Nat, T # {} PROVE Min(T) \in T /\ \A y \in T : Min(T) <= y
BY Least DEF Min

LEMMA MaxFacts ==
    ASSUME NEW T \in SUBSET (0..IdMax), T # {}
    PROVE  Max(T) \in T /\ \A y \in T : y <= Max(T)
<1> DEFINE D == {IdMax - x : x \in T}
<1>1. IdMax \in Nat
  BY ContactAssumption
<1>2. D \in SUBSET Nat /\ D # {}
  <2>1. \A x \in 0..IdMax : IdMax - x \in Nat
    BY <1>1
  <2> QED
    BY <2>1
<1>3. PICK d \in D : \A e \in D : d <= e
  BY <1>2, Least
<1>4. PICK x \in T : d = IdMax - x
  BY <1>3
<1>5. \A y \in T : y <= x
  <2>1. SUFFICES ASSUME NEW y \in T PROVE y <= x
    OBVIOUS
  <2>2. IdMax - y \in D
    OBVIOUS
  <2>3. IdMax - x <= IdMax - y
    BY <1>3, <1>4, <2>2
  <2>4. x \in 0..IdMax /\ y \in 0..IdMax
    BY <1>4
  <2> QED
    BY <1>1, <2>3, <2>4
<1>6. \A y \in T : x >= y
  BY <1>1, <1>5
<1> QED
  BY <1>1, <1>5, <1>6 DEF Max

LEMMA NextIdFacts ==
    ASSUME NEW b \in Seq(Items)
    PROVE  /\ NextId(b) \in Nat /\ \A i \in Records(b) : b[i].id < NextId(b) /\ b[i].id \in 0..IdMax
           /\ (\A i \in Records(b) : b[i].id # IdMax) => NextId(b) \in 0..IdMax
<1> DEFINE T == {b[i].id : i \in Records(b)}
<1>1. IdMax \in Nat /\ \A i \in Records(b) : b[i] \in Record
  BY ContactAssumption, BookFacts
<1>2. \A i \in Records(b) : b[i].id \in 0..IdMax
  BY <1>1 DEF Record
<1>3. T \in SUBSET (0..IdMax)
  BY <1>2
<1>4. CASE Records(b) = {}
  BY <1>1, <1>4 DEF NextId
<1>5. CASE Records(b) # {}
  <2>1. T # {} /\ NextId(b) = 1 + Max(T)
    BY <1>5 DEF NextId
  <2>2. Max(T) \in T /\ \A y \in T : y <= Max(T)
    BY <1>3, <2>1, MaxFacts
  <2>3. Max(T) \in 0..IdMax
    BY <1>3, <2>2
  <2>4. (\A i \in Records(b) : b[i].id # IdMax) => Max(T) # IdMax
    BY <2>2
  <2>5. \A i \in Records(b) : b[i].id <= Max(T)
    BY <2>2
  <2> HIDE DEF T
  <2> QED
    BY <1>1, <1>2, <2>1, <2>3, <2>4, <2>5
<1> QED
  BY <1>4, <1>5

-----------------------------------------------------------------------------
(* Books that grow *)

\* t has no record that b has not, but perhaps without its address.
Weaker(t, b) ==
    /\ Records(t) \subseteq Records(b)
    /\ \A i \in Records(t) : t[i].id = b[i].id /\ t[i].email \in {b[i].email, None}

LEMMA WeakerGood ==
    ASSUME NEW t \in Seq(Items), NEW b \in Seq(Items), Weaker(t, b), Distinct(b), SmallBook(b)
    PROVE  Distinct(t) /\ SmallBook(t)
<1>1. Distinct(t)
  BY DEF Weaker, Distinct
<1>2. Cardinality(Records(t)) <= Cardinality(Records(b))
  BY BookFacts, FS_Subset DEF Weaker
<1>3. Cardinality(Records(t)) \in Nat /\ Cardinality(Records(b)) \in Nat /\ RuleMax \in Nat
  BY BookFacts, ContactAssumption
<1> QED
  BY <1>1, <1>2, <1>3 DEF SmallBook

\* A book all of whose lines are valid: [format], then records.
LEMMA ValidShape ==
    ASSUME NEW b \in Seq(Items), \A i \in DOMAIN b : ~Invalid(b, i)
    PROVE  /\ b # <<>> => b[1] = Format
           /\ Records(b) = 2..Len(b)
           /\ (\A i \in Records(b) : b[i].id # IdMax /\ i - 1 <= RuleMax)
           /\ b # <<>> => Cardinality(Records(b)) = Len(b) - 1
<1>1. Len(b) \in Nat /\ DOMAIN b = 1..Len(b) /\ Records(b) \subseteq 1..Len(b) /\ RuleMax \in Nat
  BY BookFacts, ContactAssumption
<1>2. \A i \in 1..Len(b) : b[i] # Broken /\ (b[i] = Format => ~(i > 1))
                           /\ (i \in Records(b) => b[1] = Format /\ b[i].id # IdMax /\ ~(i - 1 > RuleMax))
  BY <1>1 DEF Invalid
<1>3. \A i \in 1..Len(b) : i \in Records(b) <=> b[i] # Format
  BY <1>1, <1>2 DEF Records
<1>4. b # <<>> => b[1] = Format
  <2>1. SUFFICES ASSUME b # <<>> PROVE b[1] = Format
    OBVIOUS
  <2>2. 1 \in 1..Len(b)
    BY <1>1, <2>1
  <2> QED
    BY <1>2, <1>3, <2>2
<1>5. Records(b) = 2..Len(b)
  <2>1. ASSUME NEW i \in Records(b) PROVE i \in 2..Len(b)
    <3>1. i \in 1..Len(b) /\ b[1] = Format /\ b[i] # Format
      BY <1>1, <1>2, <1>3
    <3> QED
      BY <1>1, <3>1
  <2>2. ASSUME NEW i \in 2..Len(b) PROVE i \in Records(b)
    <3>1. i \in 1..Len(b) /\ i > 1
      BY <1>1
    <3> QED
      BY <1>2, <1>3, <3>1
  <2> QED
    BY <2>1, <2>2
<1>6. b # <<>> => Cardinality(Records(b)) = Len(b) - 1
  <2>1. b # <<>> => Len(b) >= 1
    BY <1>1
  <2>2. 2 \in Int /\ Len(b) \in Int
    BY <1>1
  <2>3. Cardinality(2..Len(b)) = IF 2 > Len(b) THEN 0 ELSE Len(b) - 2 + 1
    BY <2>2, FS_Interval
  <2> QED
    BY <1>1, <1>5, <2>1, <2>3
<1>7. \A i \in Records(b) : b[i].id # IdMax /\ i - 1 <= RuleMax
  BY <1>1, <1>2
<1> QED
  BY <1>4, <1>5, <1>6, <1>7

\* A record with a new number and a new address or none is added to a valid book that
\* has room.
LEMMA GrowGood ==
    ASSUME NEW b \in Seq(Items), NEW r \in Record, b # <<>>,
           \A i \in DOMAIN b : ~Invalid(b, i), Distinct(b), SmallBook(b), ~Full(b),
           r.id = NextId(b), r.email \notin Emails(b)
    PROVE  Distinct(Append(b, r)) /\ SmallBook(Append(b, r)) /\ ValidBook(Append(b, r))
<1> DEFINE a == Append(b, r)
           n == Len(b) + 1
<1>1. r \in Items
  BY DEF Items
<1>2. /\ a \in Seq(Items) /\ DOMAIN a = 1..n /\ a[n] = r /\ (\A i \in 1..Len(b) : a[i] = b[i])
      /\ Records(a) = Records(b) \cup {n} /\ n \notin Records(b)
  BY <1>1, AppendFacts
<1>3. Len(b) \in Nat /\ DOMAIN b = 1..Len(b) /\ Records(b) \subseteq 1..Len(b) /\ RuleMax \in Nat
      /\ Cardinality(Records(b)) \in Nat
  BY BookFacts, ContactAssumption
<1>4. /\ b[1] = Format /\ Records(b) = 2..Len(b) /\ Cardinality(Records(b)) = Len(b) - 1
      /\ \A i \in Records(b) : b[i].id # IdMax /\ i - 1 <= RuleMax
  BY ValidShape
<1>5. \A i \in Records(b) : b[i].id # r.id /\ (b[i].email = r.email => r.email = None)
  <2>1. \A i \in Records(b) : b[i].id < NextId(b) /\ b[i].id \in 0..IdMax
    BY NextIdFacts
  <2>2. \A i \in Records(b) : b[i].id # r.id
    BY <2>1
  <2>3. \A i \in Records(b) : b[i].email # None => b[i].email \in Emails(b)
    BY DEF Emails
  <2> QED
    BY <2>2, <2>3
<1>6. Cardinality(Records(a)) = Cardinality(Records(b)) + 1
  BY <1>1, AppendCount
<1> HIDE DEF a
<1>7. Distinct(a)
  <2>1. SUFFICES ASSUME NEW i \in Records(a), NEW j \in Records(a),
                        a[i].id = a[j].id \/ (a[i].email = a[j].email /\ a[i].email # None)
                 PROVE  i = j
    BY DEF Distinct
  <2>2. \A k \in Records(b) : a[k] = b[k]
    BY <1>2, <1>3
  <2>3. CASE i \in Records(b) /\ j \in Records(b)
    BY <2>1, <2>2, <2>3 DEF Distinct
  <2>4. CASE i \in Records(b) /\ j = n
    BY <1>2, <1>5, <2>1, <2>2, <2>4
  <2>5. CASE i = n /\ j \in Records(b)
    BY <1>2, <1>5, <2>1, <2>2, <2>5
  <2> QED
    BY <1>2, <2>3, <2>4, <2>5
<1>8. SmallBook(a)
  BY <1>3, <1>6 DEF SmallBook, Full
<1>9. ValidBook(a)
  <2>1. SUFFICES ASSUME \A i \in Records(a) : a[i].id # IdMax, NEW i \in DOMAIN a PROVE ~Invalid(a, i)
    BY DEF ValidBook
  <2>2. 1 \in 1..Len(b) /\ a[1] = Format
    <3>1. 1 \in 1..Len(b)
      BY <1>3
    <3> QED
      BY <1>2, <1>4, <3>1
  <2>3. CASE i = n
    <3>1. a[i] \notin {Format, Broken}
      BY <1>2, <2>3, ItemFacts, <1>1
    <3>2. ~(i - 1 > RuleMax)
      BY <1>3, <1>4, <2>2, <2>3 DEF SmallBook, Full
    <3> QED
      BY <1>2, <2>1, <2>2, <2>3, <3>1, <3>2 DEF Invalid
  <2>4. CASE i \in 1..Len(b)
    <3>1. ~Invalid(b, i) /\ a[i] = b[i]
      BY <1>2, <1>3, <2>4
    <3>2. i \in Records(a) => i \in Records(b)
      BY <1>2, <1>3, <2>4
    <3> QED
      BY <1>4, <2>1, <2>2, <3>1, <3>2 DEF Invalid
  <2>5. i = n \/ i \in 1..Len(b)
    BY <1>2, <1>3
  <2> QED
    BY <2>3, <2>4, <2>5
<1> QED
  BY <1>7, <1>8, <1>9 DEF a

-----------------------------------------------------------------------------
(* What an invocation appends, and what a torn append leaves *)

Rec(p) == [id |-> w[p].id, email |-> w[p].email]
Bare(p) == [id |-> w[p].id, email |-> None]
Started(p, b) == IF w[p].format THEN b ELSE Append(b, Format)

LEMMA AppendedForm ==
    ASSUME Types, NEW p \in Writers, w[p].email \in Addresses, NEW b \in Seq(Items)
    PROVE  /\ Rec(p) \in Record /\ Bare(p) \in Record /\ Started(p, b) \in Seq(Items)
           /\ Records(Started(p, b)) = Records(b) /\ Emails(Started(p, b)) = Emails(b)
           /\ Len(Started(p, b)) >= Len(b) /\ (Started(p, b) = b \/ Len(Started(p, b)) > Len(b))
           /\ Appended(p) = IF w[p].format THEN <<Rec(p)>> ELSE <<Format, Rec(p)>>
           /\ b \o Appended(p) = Append(Started(p, b), Rec(p))
<1>1. w[p].id \in 0..IdMax /\ w[p].format \in BOOLEAN
  BY DEF Types, WRec
<1>2. Rec(p) \in Record /\ Bare(p) \in Record
  BY <1>1 DEF Rec, Bare, Record
<1>3. Rec(p) \in Items /\ Format \in Items /\ Format \notin Record /\ Len(b) \in Nat
  BY <1>2, ItemFacts, ContactAssumption DEF Items
<1>4. Appended(p) = IF w[p].format THEN <<Rec(p)>> ELSE <<Format, Rec(p)>>
  <2>1. <<>> \o <<Rec(p)>> = <<Rec(p)>> /\ <<Format>> \o <<Rec(p)>> = <<Format, Rec(p)>>
    BY ShortSeqs
  <2> QED
    BY <2>1 DEF Appended, Rec
<1> HIDE DEF Rec, Bare
<1>5. b \o <<Rec(p)>> = Append(b, Rec(p)) /\ b \o <<Format, Rec(p)>> = Append(Append(b, Format), Rec(p))
  BY <1>3, Concatenations
<1>6. b \o Appended(p) = Append(Started(p, b), Rec(p))
  BY <1>4, <1>5 DEF Started
<1>7. /\ Append(b, Format) \in Seq(Items) /\ Len(Append(b, Format)) = Len(b) + 1
      /\ Records(Append(b, Format)) = Records(b) /\ Emails(Append(b, Format)) = Emails(b)
  BY <1>3, AppendFacts
<1> QED
  BY <1>2, <1>3, <1>4, <1>6, <1>7 DEF Started

LEMMA Prefixes ==
    ASSUME NEW x \in Items, NEW y \in Items
    PROVE  /\ \A n \in 0..Len(<<x>>) : SubSeq(<<x>>, 1, n) \in {<<>>, <<x>>}
           /\ \A n \in 0..Len(<<x, y>>) : SubSeq(<<x, y>>, 1, n) \in {<<>>, <<x>>, <<x, y>>}
           /\ SubSeq(<<x>>, 1, Len(<<x>>) - 1) = <<>> /\ SubSeq(<<x, y>>, 1, Len(<<x, y>>) - 1) = <<x>>
<1>1. /\ SubSeq(<<x>>, 1, 0) = <<>> /\ SubSeq(<<x>>, 1, 1) = <<x>>
      /\ SubSeq(<<x, y>>, 1, 0) = <<>> /\ SubSeq(<<x, y>>, 1, 1) = <<x>>
      /\ SubSeq(<<x, y>>, 1, 2) = <<x, y>>
  BY ShortSeqs
<1>2. Len(<<x>>) = 1 /\ Len(<<x, y>>) = 2
  OBVIOUS
<1>3. (\A n \in 0..1 : n = 0 \/ n = 1) /\ (\A n \in 0..2 : n = 0 \/ n = 1 \/ n = 2) /\ 1 - 1 = 0 /\ 2 - 1 = 1
  OBVIOUS
<1> QED
  BY <1>1, <1>2, <1>3, Zenon

LEMMA TearForms ==
    ASSUME Types, NEW p \in Writers, w[p].email \in Addresses, NEW b \in Seq(Items), NEW s \in Tears(p)
    PROVE  b \o s \in {b, Append(b, Broken), Started(p, b), Append(Started(p, b), Broken),
                       Append(Started(p, b), Rec(p)), Append(Started(p, b), Bare(p))}
<1> DEFINE whole == Appended(p)
           prefixes == {SubSeq(whole, 1, n) : n \in 0..Len(whole)}
           cut == SubSeq(whole, 1, Len(whole) - 1)
<1>1. s \in prefixes \/ (\E t \in prefixes \ {whole} : s = Append(t, Broken)) \/ s = Append(cut, Bare(p))
  BY DEF Tears, Bare
<1>2. /\ Rec(p) \in Items /\ Bare(p) \in Items /\ Broken \in Items /\ Format \in Items
      /\ whole = IF w[p].format THEN <<Rec(p)>> ELSE <<Format, Rec(p)>>
  BY AppendedForm, ItemFacts DEF Items
<1>3. Started(p, b) = IF w[p].format THEN b ELSE Append(b, Format)
  BY DEF Started
<1> HIDE DEF Rec, Bare, Started, whole
<1>4. CASE w[p].format
  <2>1. whole = <<Rec(p)>> /\ Started(p, b) = b
    BY <1>2, <1>3, <1>4
  <2>2. prefixes \subseteq {<<>>, <<Rec(p)>>} /\ cut = <<>>
    BY <1>2, <2>1, Prefixes, SMTT(40)
  <2>3. Append(<<>>, Broken) = <<Broken>> /\ Append(<<>>, Bare(p)) = <<Bare(p)>>
    OBVIOUS
  <2>4. s \in {<<>>, <<Rec(p)>>, <<Broken>>, <<Bare(p)>>}
    BY <1>1, <2>1, <2>2, <2>3
  <2> QED
    BY <1>2, <2>1, <2>4, Concatenations, ZenonT(60)
<1>5. CASE ~w[p].format
  <2>1. whole = <<Format, Rec(p)>> /\ Started(p, b) = Append(b, Format)
    BY <1>2, <1>3, <1>5
  <2>2. prefixes \subseteq {<<>>, <<Format>>, <<Format, Rec(p)>>} /\ cut = <<Format>>
    <3>1. /\ \A n \in 0..Len(whole) : SubSeq(whole, 1, n) \in {<<>>, <<Format>>, <<Format, Rec(p)>>}
          /\ SubSeq(whole, 1, Len(whole) - 1) = <<Format>>
      BY <1>2, <2>1, Prefixes, Zenon
    <3> QED
      BY <3>1, Zenon
  <2>3. /\ Append(<<>>, Broken) = <<Broken>> /\ Append(<<Format>>, Broken) = <<Format, Broken>>
        /\ Append(<<Format>>, Bare(p)) = <<Format, Bare(p)>>
    BY ShortSeqs
  <2>4. s \in {<<>>, <<Format>>, <<Format, Rec(p)>>, <<Broken>>, <<Format, Broken>>, <<Format, Bare(p)>>}
    BY <1>1, <2>1, <2>2, <2>3
  <2>5. /\ b \o <<>> = b /\ b \o <<Format>> = Append(b, Format) /\ b \o <<Broken>> = Append(b, Broken)
        /\ b \o <<Format, Rec(p)>> = Append(Append(b, Format), Rec(p))
        /\ b \o <<Format, Broken>> = Append(Append(b, Format), Broken)
        /\ b \o <<Format, Bare(p)>> = Append(Append(b, Format), Bare(p))
    BY <1>2, Concatenations
  <2> QED
    BY <2>1, <2>4, <2>5, Zenon
<1> QED
  BY <1>4, <1>5

\* A torn append is weaker than the whole one, and takes nothing from the book.
LEMMA TearFacts ==
    ASSUME Types, NEW p \in Writers, w[p].email \in Addresses, NEW b \in Seq(Items), NEW s \in Tears(p)
    PROVE  /\ b \o s \in Seq(Items) /\ Weaker(b \o s, b \o Appended(p))
           /\ Emails(b) \subseteq Emails(b \o s) /\ (b \o s = b \/ Len(b \o s) > Len(b))
<1> DEFINE f == Started(p, b)
           a == Append(f, Rec(p))
<1>1. /\ Rec(p) \in Record /\ Bare(p) \in Record /\ f \in Seq(Items) /\ b \o Appended(p) = a
      /\ Records(f) = Records(b) /\ Emails(f) = Emails(b) /\ (f = b \/ Len(f) > Len(b)) /\ Len(f) >= Len(b)
  BY AppendedForm
<1>2. Rec(p) \in Items /\ Bare(p) \in Items /\ Broken \in Items /\ Broken \notin Record
  BY <1>1, ItemFacts, ContactAssumption DEF Items
<1>3. /\ \A i \in Records(b) : f[i] = b[i]
      /\ Len(f) \in Nat /\ Len(b) \in Nat /\ Records(b) \subseteq 1..Len(b) /\ Records(b) \subseteq 1..Len(f)
  <2>1. Format \in Items
    BY ItemFacts
  <2>2. Records(b) \subseteq 1..Len(b) /\ Len(b) \in Nat /\ Len(f) \in Nat
    BY <1>1, BookFacts
  <2>3. \A i \in 1..Len(b) : Append(b, Format)[i] = b[i]
    BY <2>1, AppendFacts
  <2> QED
    BY <1>1, <2>2, <2>3 DEF Started
<1>4. Rec(p).id = Bare(p).id /\ Bare(p).email = None
  BY DEF Rec, Bare
<1> HIDE DEF f, Rec, Bare
<1>5. /\ a \in Seq(Items) /\ Records(a) = Records(b) \cup {Len(f) + 1} /\ a[Len(f) + 1] = Rec(p)
      /\ \A i \in Records(b) : a[i] = b[i]
      /\ Emails(b) \subseteq Emails(a) /\ Len(a) > Len(b)
  BY <1>1, <1>2, <1>3, AppendFacts
<1>6. CASE b \o s = b
  BY <1>1, <1>3, <1>5, <1>6 DEF Weaker
<1>7. CASE b \o s = f
  BY <1>1, <1>3, <1>5, <1>7 DEF Weaker
<1>8. CASE b \o s = Append(b, Broken)
  <2>1. /\ Append(b, Broken) \in Seq(Items) /\ Records(Append(b, Broken)) = Records(b)
        /\ \A i \in Records(b) : Append(b, Broken)[i] = b[i]
        /\ Emails(b) \subseteq Emails(Append(b, Broken)) /\ Len(Append(b, Broken)) = Len(b) + 1
    BY <1>2, <1>3, AppendFacts
  <2> QED
    BY <1>1, <1>3, <1>5, <1>8, <2>1 DEF Weaker
<1>9. CASE b \o s = Append(f, Broken)
  <2>1. /\ Append(f, Broken) \in Seq(Items) /\ Records(Append(f, Broken)) = Records(b)
        /\ \A i \in Records(b) : Append(f, Broken)[i] = b[i]
        /\ Emails(b) \subseteq Emails(Append(f, Broken)) /\ Len(Append(f, Broken)) = Len(f) + 1
    BY <1>1, <1>2, <1>3, AppendFacts
  <2> QED
    BY <1>1, <1>3, <1>5, <1>9, <2>1 DEF Weaker
<1>10. CASE b \o s = a
  BY <1>1, <1>3, <1>5, <1>10 DEF Weaker
<1>11. CASE b \o s = Append(f, Bare(p))
  <2> DEFINE z == Append(f, Bare(p))
  <2>1. /\ z \in Seq(Items) /\ Records(z) = Records(b) \cup {Len(f) + 1}
        /\ (\A i \in Records(b) : z[i] = b[i]) /\ z[Len(f) + 1] = Bare(p)
        /\ Emails(b) \subseteq Emails(z) /\ Len(z) = Len(f) + 1
    BY <1>1, <1>2, <1>3, AppendFacts
  <2> HIDE DEF z
  <2>2. Weaker(z, a)
    BY <1>4, <1>5, <2>1 DEF Weaker
  <2> QED
    BY <1>1, <1>3, <1>11, <2>1, <2>2 DEF z
<1> QED
  BY <1>6, <1>7, <1>8, <1>9, <1>10, <1>11, TearForms DEF f

\* What is appended to the book that was read leaves it good.
LEMMA AppendedGood ==
    ASSUME Types, NEW p \in Writers, w[p].email \in Addresses, NEW b \in Seq(Items), HasRead(p, b),
           Distinct(b), SmallBook(b)
    PROVE  LET a == b \o Appended(p) IN
           Distinct(a) /\ SmallBook(a) /\ ValidBook(a)
<1> DEFINE f == Started(p, b)
<1>1. /\ Rec(p) \in Record /\ f \in Seq(Items) /\ b \o Appended(p) = Append(f, Rec(p))
      /\ Records(f) = Records(b) /\ Emails(f) = Emails(b)
  BY AppendedForm
<1>2. Rec(p).id = w[p].id /\ Rec(p).email = w[p].email
  BY DEF Rec
<1>3. CASE w[p].format
  <2>1. f = b /\ b # <<>>
    BY <1>3 DEF Started, HasRead, HasFormat
  <2> QED
    BY <1>1, <1>2, <2>1, GrowGood DEF HasRead
<1>4. CASE ~w[p].format
  <2>1. b = <<>> /\ f = Append(b, Format)
    BY <1>4 DEF Started, HasRead, HasFormat
  <2>2. Format \in Items /\ Format \notin Record
    BY ItemFacts, ContactAssumption
  <2>3. Records(b) = {} /\ Records(f) = {}
    BY <1>1, <2>1 DEF Records
  <2>4. f # <<>> /\ DOMAIN f = {1} /\ f[1] = Format
    <3>1. Append(<<>>, Format) = <<Format>>
      OBVIOUS
    <3> QED
      BY <2>1, <3>1
  <2>5. \A i \in DOMAIN f : ~Invalid(f, i)
    BY <2>3, <2>4, ContactAssumption DEF Invalid
  <2>6. Distinct(f) /\ SmallBook(f) /\ ~Full(f) /\ NextId(f) = NextId(b)
    BY <2>3 DEF Distinct, SmallBook, Full, NextId, HasRead
  <2> QED
    BY <1>1, <1>2, <2>4, <2>5, <2>6, GrowGood DEF HasRead
<1> QED
  BY <1>3, <1>4 DEF HasRead, HasFormat

LEMMA AppendedHas ==
    ASSUME Types, NEW p \in Writers, w[p].email \in Addresses, NEW b \in Seq(Items)
    PROVE  LET a == b \o Appended(p) IN
           /\ a \in Seq(Items) /\ w[p].email \in Emails(a) /\ Emails(b) \subseteq Emails(a) /\ Len(a) > Len(b)
<1> DEFINE f == Started(p, b)
<1>1. /\ Rec(p) \in Record /\ f \in Seq(Items) /\ b \o Appended(p) = Append(f, Rec(p))
      /\ Emails(f) = Emails(b) /\ Len(f) >= Len(b) /\ Len(b) \in Nat /\ Len(f) \in Nat
  BY AppendedForm, BookFacts
<1>2. Rec(p) \in Items /\ Rec(p).email = w[p].email /\ Rec(p).email # None
  BY <1>1, ContactAssumption DEF Rec, Items
<1> HIDE DEF f, Rec
<1> QED
  BY <1>1, <1>2, AppendFacts

-----------------------------------------------------------------------------
(* What a step leaves of the others *)

LEMMA WriterTypes ==
    ASSUME Types, NEW p \in Writers
    PROVE  /\ w[p] \in WRec /\ w[p].before \in Nat /\ w[p].format \in BOOLEAN /\ w[p].check \in BOOLEAN
           /\ w[p].fd \in Inodes \cup {None} /\ w[p].pc \in Pcs
           /\ \A i \in Inodes : file[i] \in Seq(Items) /\ Len(file[i]) \in Nat
           /\ \A i \in Inodes : dfile[i] \in Seq(Items)
BY DEF Types, WRec

\* Two invocations that append have different files.
LEMMA OneAppends ==
    ASSUME WriterInv, NEW p \in Writers, NEW q \in Writers, p # q,
           w[p].pc \in Appending, w[q].pc \in Appending
    PROVE  w[p].fd # w[q].fd
BY DEF WriterInv, WInv

LEMMA OtherWriter ==
    ASSUME Types, Types', WriterInv, NEW q \in Writers, w'[q] = w[q],
           \A i \in Inodes : owner[i] = q => owner'[i] = q,
           w[q].fd \in Inodes => \/ file'[w[q].fd] = file[w[q].fd]
                                 \/ Len(file'[w[q].fd]) > Len(file[w[q].fd])
    PROVE  WInv(q)'
<1> DEFINE b == file[w[q].fd]
           c == file'[w[q].fd]
<1>1. WInv(q)
  BY DEF WriterInv
<1>2. w[q].fd \in Inodes => Len(b) \in Nat /\ Len(c) \in Nat /\ w[q].before \in Nat /\ (c = b \/ Len(c) > Len(b))
  <2>1. \A i \in Inodes : Len(file[i]) \in Nat /\ Len(file'[i]) \in Nat
    <3>1. file \in [Inodes -> Seq(Items)] /\ file' \in [Inodes -> Seq(Items)]
      BY DEF Types
    <3> QED
      BY <3>1
  <2>2. w[q].before \in Nat
    BY WriterTypes
  <2> QED
    BY <2>1, <2>2
<1>3. ASSUME NEW x PROVE HasRead(q, x)' <=> HasRead(q, x)
  BY Zenon DEF HasRead
<1>4. w[q].pc \in {"lock", "read"} => Len(c) >= w[q].before
  <2>1. w[q].pc \in {"lock", "read"} => w[q].fd \in Inodes /\ Len(b) >= w[q].before
    BY <1>1 DEF WInv
  <2> HIDE DEF b, c
  <2> QED
    BY <1>2, <2>1
<1>5. w[q].pc = "recheck" => (HasRead(q, c) /\ Len(c) >= w[q].before) \/ Len(c) > w[q].before
  <2>1. w[q].pc = "recheck" => /\ w[q].fd \in Inodes
                               /\ (HasRead(q, b) /\ Len(b) >= w[q].before) \/ Len(b) > w[q].before
    BY <1>1 DEF WInv, Appending
  <2> HIDE DEF b, c
  <2> QED
    BY <1>2, <2>1
<1>6. w[q].pc = "recheck" => (HasRead(q, file[w[q].fd])' /\ Len(c) >= w[q].before) \/ Len(c) > w[q].before
  BY <1>5, Zenon DEF HasRead
<1> QED
  BY <1>1, <1>4, <1>6, Zenon DEF WInv, Appending

LEMMA OtherAppend ==
    ASSUME AppendInv, NEW q \in Writers, w'[q] = w[q], raced => raced',
           ~raced' /\ w[q].pc \in Past =>
              /\ named' = named /\ file'[w[q].fd] = file[w[q].fd]
              /\ dfile'[w[q].fd] \in {dfile[w[q].fd], file[w[q].fd]}
    PROVE  ~raced' => AInv(q)'
<1> SUFFICES ASSUME ~raced' PROVE AInv(q)'
  OBVIOUS
<1>1. AInv(q)
  BY DEF AppendInv
<1>2. CASE w[q].pc \notin Past
  BY <1>2 DEF AInv, Past
<1>3. CASE w[q].pc \in Past
  <2>1. named' = named /\ file'[w[q].fd] = file[w[q].fd] /\ dfile'[w[q].fd] \in {dfile[w[q].fd], file[w[q].fd]}
    BY <1>3
  <2>2. w[q].pc = "write" => HasRead(q, file[w[q].fd])'
    BY <1>1, <2>1, Zenon DEF AInv, HasRead
  <2> QED
    BY <1>1, <2>1, <2>2 DEF AInv
<1> QED
  BY <1>2, <1>3

\* A step of p that changes its locals and locks and nothing else.
LEMMA Quiet ==
    ASSUME IInv, NEW p \in Writers, NEW r \in WRec, w' = [w EXCEPT ![p] = r],
           owner' \in [Inodes -> Writers \cup {None}], readers' \in [Inodes -> SUBSET Writers],
           \A q \in Writers \ {p} : \A i \in Inodes : owner[i] = q => owner'[i] = q,
           UNCHANGED <<book, disk, loaded, power, reported, raced, exposed, torn>>,
           WInv(p)', ~raced' => AInv(p)'
    PROVE  IInv'
<1>1. UNCHANGED <<named, file, dnamed, dfile, loaded, power, reported, raced, exposed, torn>>
  BY DEF book, disk
<1>2. w' \in [Writers -> WRec] /\ \A q \in Writers \ {p} : w'[q] = w[q]
  BY DEF IInv, Types
<1>3. Types'
  BY <1>1, <1>2 DEF IInv, Types
<1>4. BookInv'
  BY <1>1 DEF IInv, BookInv, GoodBook
<1>5. KeptInv'
  BY <1>1 DEF IInv, KeptInv, Kept, Named, DNamed
<1>6. ASSUME NEW q \in Writers \ {p} PROVE WInv(q)' /\ (~raced' => AInv(q)')
  BY <1>1, <1>2, <1>3, OtherWriter, OtherAppend DEF IInv
<1>7. WriterInv' /\ AppendInv'
  BY <1>6 DEF WriterInv, AppendInv
<1> QED
  BY <1>3, <1>4, <1>5, <1>7 DEF IInv

-----------------------------------------------------------------------------
(* Steps that leave the book alone *)

LEMMA AwayFacts == Away \in WRec /\ Away.pc = "idle" /\ Away.before = 0
BY ContactAssumption DEF Away, WRec, Pcs

LEMMA IdleFacts ==
    ASSUME NEW p \in Writers, w'[p].pc = "idle"
    PROVE  WInv(p)' /\ AInv(p)'
BY DEF WInv, AInv, Appending, Past

LEMMA CloseFacts ==
    ASSUME Types, NEW p \in Writers, Close(p)
    PROVE  /\ owner' \in [Inodes -> Writers \cup {None}] /\ readers' \in [Inodes -> SUBSET Writers]
           /\ \A q \in Writers \ {p} : \A i \in Inodes : owner[i] = q => owner'[i] = q
BY DEF Types, Close

LEMMA ReturnFacts ==
    ASSUME Types, NEW p \in Writers, Return(p)
    PROVE  /\ w' = [w EXCEPT ![p] = Away] /\ w' \in [Writers -> WRec] /\ w'[p] = Away
           /\ \A q \in Writers \ {p} : w'[q] = w[q]
           /\ WInv(p)' /\ AInv(p)'
           /\ owner' \in [Inodes -> Writers \cup {None}] /\ readers' \in [Inodes -> SUBSET Writers]
           /\ \A q \in Writers \ {p} : \A i \in Inodes : owner[i] = q => owner'[i] = q
<1>1. /\ w' = [w EXCEPT ![p] = Away] /\ w' \in [Writers -> WRec] /\ w'[p] = Away
      /\ \A q \in Writers \ {p} : w'[q] = w[q]
  BY AwayFacts DEF Return, Types
<1>2. w'[p].pc = "idle"
  BY <1>1, AwayFacts
<1>3. Close(p)
  BY DEF Return
<1> QED
  BY <1>1, <1>2, <1>3, IdleFacts, CloseFacts

LEMMA ReturnKeeps ==
    ASSUME IInv, NEW p \in Writers, Return(p),
           UNCHANGED <<book, disk, loaded, power, reported, raced, exposed, torn>>
    PROVE  IInv'
<1>1. Types
  BY DEF IInv
<1> QED
  BY <1>1, ReturnFacts, AwayFacts, Quiet

\* p goes to l and its other locals stay.
LEMMA GotoFacts ==
    ASSUME Types, NEW p \in Writers, NEW l \in Pcs, Goto(p, l)
    PROVE  /\ [w[p] EXCEPT !.pc = l] \in WRec /\ w' = [w EXCEPT ![p] = [w[p] EXCEPT !.pc = l]]
           /\ w'[p].pc = l /\ w'[p].email = w[p].email /\ w'[p].check = w[p].check /\ w'[p].fd = w[p].fd
           /\ w'[p].created = w[p].created /\ w'[p].before = w[p].before /\ w'[p].id = w[p].id
           /\ w'[p].format = w[p].format
           /\ w' \in [Writers -> WRec] /\ \A q \in Writers \ {p} : w'[q] = w[q]
<1> DEFINE r == [w[p] EXCEPT !.pc = l]
<1>1. w[p] \in WRec
  BY WriterTypes
<1>2. /\ r \in WRec /\ r.pc = l /\ r.email = w[p].email /\ r.check = w[p].check /\ r.fd = w[p].fd
      /\ r.created = w[p].created /\ r.before = w[p].before /\ r.id = w[p].id /\ r.format = w[p].format
  BY <1>1 DEF WRec
<1>3. w' = [w EXCEPT ![p] = r]
  BY DEF Goto
<1> HIDE DEF r
<1>4. w' \in [Writers -> WRec] /\ w'[p] = r /\ \A q \in Writers \ {p} : w'[q] = w[q]
  BY <1>2, <1>3 DEF Types
<1> QED
  BY <1>2, <1>3, <1>4 DEF r

LEMMA StartKeeps ==
    ASSUME IInv, NEW p \in Writers, NEW a \in Addresses, NEW check \in BOOLEAN, Start(p, a, check)
    PROVE  IInv'
<1> DEFINE r == [Away EXCEPT !.pc = IF check THEN "open" ELSE "create", !.email = a, !.check = check]
<1>1. r \in WRec /\ r.pc \in {"open", "create"} /\ r.email = a /\ r.before = 0
  BY AwayFacts DEF WRec, Pcs
<1>2. w' = [w EXCEPT ![p] = r] /\ UNCHANGED <<book, disk, locks, loaded, env, history>>
  BY DEF Start
<1> HIDE DEF r
<1>3. w'[p] = r
  BY <1>2 DEF IInv, Types
<1>4. WInv(p)' /\ AInv(p)'
  BY <1>1, <1>3 DEF WInv, AInv, Appending, Past
<1>5. UNCHANGED <<book, disk, loaded, power, reported, raced, exposed, torn, owner, readers>>
  BY <1>2 DEF locks, env, history
<1>6. owner' \in [Inodes -> Writers \cup {None}] /\ readers' \in [Inodes -> SUBSET Writers]
  BY <1>5 DEF IInv, Types
<1> QED
  BY <1>1, <1>2, <1>4, <1>5, <1>6, Quiet

LEMMA QuietGoto ==
    ASSUME IInv, NEW p \in Writers, NEW l \in Pcs, Goto(p, l),
           owner' \in [Inodes -> Writers \cup {None}], readers' \in [Inodes -> SUBSET Writers],
           \A q \in Writers \ {p} : \A i \in Inodes : owner[i] = q => owner'[i] = q,
           UNCHANGED <<book, disk, loaded, power, reported, raced, exposed, torn>>,
           WInv(p)', ~raced' => AInv(p)'
    PROVE  IInv'
<1> DEFINE r == [w[p] EXCEPT !.pc = l]
<1>1. r \in WRec /\ w' = [w EXCEPT ![p] = r]
  BY GotoFacts DEF IInv
<1> HIDE DEF r
<1> QED
  BY <1>1, Quiet

LEMMA OpenKeeps == ASSUME IInv, NEW p \in Writers, Open(p) PROVE IInv'
<1>1. /\ w[p].pc = "open" /\ UNCHANGED <<book, disk, loaded, power, reported, raced, exposed, torn>>
      /\ w[p].email \in Addresses /\ w[p] \in WRec /\ Types
  <2>1. w[p].pc = "open" /\ WInv(p)
    BY DEF Open, At, IInv, WriterInv
  <2> QED
    BY <2>1, WriterTypes DEF Open, IInv, WInv, env, history
<1>2. CASE named = None
  BY <1>1, <1>2, ReturnKeeps DEF Open
<1>3. CASE named # None
  <2> DEFINE r == [w[p] EXCEPT !.pc = "stat", !.fd = named]
  <2>1. named \in Inodes
    BY <1>3 DEF IInv, Types
  <2>2. r \in WRec /\ r.pc = "stat" /\ r.fd = named /\ r.email = w[p].email
    BY <1>1, <2>1 DEF WRec, Pcs
  <2>3. w' = [w EXCEPT ![p] = r] /\ UNCHANGED <<owner, readers>>
    BY <1>3 DEF Open, locks
  <2> HIDE DEF r
  <2>4. w'[p] = r
    BY <2>3 DEF IInv, Types
  <2>6. WInv(p)' /\ AInv(p)'
    BY <1>1, <2>1, <2>2, <2>4 DEF WInv, AInv, Appending, Past
  <2>7. owner' \in [Inodes -> Writers \cup {None}] /\ readers' \in [Inodes -> SUBSET Writers]
    BY <2>3 DEF IInv, Types
  <2> QED
    BY <1>1, <2>2, <2>3, <2>6, <2>7, Quiet
<1> QED
  BY <1>2, <1>3

LEMMA StatKeeps == ASSUME IInv, NEW p \in Writers, Stat(p) PROVE IInv'
<1>1. /\ w[p].pc = "stat" /\ UNCHANGED <<book, disk, loaded, power, reported, raced, exposed, torn, owner, readers>>
      /\ w[p].email \in Addresses /\ w[p].fd \in Inodes /\ w[p] \in WRec /\ Types
  <2>1. w[p].pc = "stat" /\ WInv(p)
    BY DEF Stat, At, IInv, WriterInv
  <2> QED
    BY <2>1, WriterTypes DEF Stat, IInv, WInv, env, history, locks
<1> DEFINE b == Len(file[w[p].fd])
           r == [w[p] EXCEPT !.pc = "lock", !.before = b]
<1>2. b \in Nat
  BY <1>1 DEF Types
<1>3. w' = [w EXCEPT ![p] = r]
  BY DEF Stat
<1> HIDE DEF b
<1>4. r \in WRec /\ r.pc = "lock" /\ r.fd = w[p].fd /\ r.before = b /\ r.email = w[p].email
  BY <1>1, <1>2 DEF WRec, Pcs
<1> HIDE DEF r
<1>5. w'[p] = r
  BY <1>3 DEF IInv, Types
<1>6. file' = file
  BY <1>1 DEF book
<1>7. WInv(p)' /\ AInv(p)'
  BY <1>1, <1>2, <1>4, <1>5, <1>6 DEF WInv, AInv, Appending, Past, b
<1>8. owner' \in [Inodes -> Writers \cup {None}] /\ readers' \in [Inodes -> SUBSET Writers]
  BY <1>1 DEF Types
<1> QED
  BY <1>1, <1>3, <1>4, <1>7, <1>8, Quiet

LEMMA LockKeeps == ASSUME IInv, NEW p \in Writers, Lock(p) PROVE IInv'
<1>1. /\ w[p].pc = "lock" /\ UNCHANGED <<book, disk, loaded, power, reported, raced, exposed, torn>>
      /\ w[p].email \in Addresses /\ w[p].fd \in Inodes /\ Len(file[w[p].fd]) >= w[p].before /\ Types
  <2>1. w[p].pc = "lock" /\ WInv(p)
    BY DEF Lock, At, IInv, WriterInv
  <2> QED
    BY <2>1 DEF Lock, IInv, WInv, env, history
<1>2. CASE ~MayLock(p)
  BY <1>1, <1>2, ReturnKeeps DEF Lock
<1>3. CASE MayLock(p)
  <2>1. /\ owner' = IF w[p].check THEN owner ELSE [owner EXCEPT ![w[p].fd] = p]
        /\ readers' = IF w[p].check THEN [readers EXCEPT ![w[p].fd] = @ \cup {p}] ELSE readers
        /\ Goto(p, "read") /\ owner[w[p].fd] = None
    BY <1>3 DEF Lock, MayLock
  <2>2. "read" \in Pcs
    BY DEF Pcs
  <2>3. owner' \in [Inodes -> Writers \cup {None}] /\ readers' \in [Inodes -> SUBSET Writers]
    BY <1>1, <2>1 DEF Types
  <2>4. \A q \in Writers \ {p} : \A i \in Inodes : owner[i] = q => owner'[i] = q
    BY <1>1, <2>1, ContactAssumption DEF Types
  <2>5. /\ w'[p].pc = "read" /\ w'[p].email = w[p].email /\ w'[p].check = w[p].check
        /\ w'[p].fd = w[p].fd /\ w'[p].before = w[p].before
    BY <1>1, <2>1, <2>2, GotoFacts
  <2>6. ~w[p].check => owner'[w[p].fd] = p
    BY <1>1, <2>1 DEF Types
  <2>7. file' = file
    BY <1>1 DEF book
  <2>8. WInv(p)' /\ AInv(p)'
    BY <1>1, <2>5, <2>6, <2>7 DEF WInv, AInv, Appending, Past
  <2> QED
    BY <1>1, <2>1, <2>2, <2>3, <2>4, <2>8, QuietGoto
<1> QED
  BY <1>2, <1>3

\* A scan that finds neither the address nor an invalid line.
LEMMA ScanFacts ==
    ASSUME NEW b \in Seq(Items), NEW email, Scan(b, email) = "absent"
    PROVE  (\A i \in DOMAIN b : ~Invalid(b, i)) /\ email \notin Emails(b)
<1> DEFINE stop == {i \in DOMAIN b : Invalid(b, i) \/ (i \in Records(b) /\ b[i].email = email)}
<1>1. stop = {}
  BY DEF Scan
<1>2. \A i \in DOMAIN b : ~Invalid(b, i) /\ ~(i \in Records(b) /\ b[i].email = email)
  BY <1>1
<1>3. Records(b) \subseteq DOMAIN b
  BY DEF Records
<1> QED
  BY <1>2, <1>3 DEF Emails

LEMMA ReadKeeps == ASSUME IInv, NEW p \in Writers, Read(p) PROVE IInv'
<1> DEFINE b == file[w[p].fd]
<1>1. /\ w[p].pc = "read" /\ UNCHANGED <<book, disk, loaded, power, reported, raced, exposed, torn>>
      /\ w[p].email \in Addresses /\ w[p].fd \in Inodes /\ Len(b) >= w[p].before /\ Types /\ w[p] \in WRec
      /\ (~w[p].check => owner[w[p].fd] = p)
  <2>1. w[p].pc = "read" /\ WInv(p)
    BY DEF Read, At, IInv, WriterInv
  <2> QED
    BY <2>1, WriterTypes DEF Read, IInv, WInv, env, history
<1>2. CASE w[p].check \/ Scan(b, w[p].email) # "absent" \/ Full(b)
  BY <1>1, <1>2, ReturnKeeps DEF Read
<1>3. CASE ~(w[p].check \/ Scan(b, w[p].email) # "absent" \/ Full(b))
  <2> DEFINE id == NextId(b)
             fm == HasFormat(b)
             r == [w[p] EXCEPT !.pc = "recheck", !.id = id, !.format = fm]
  <2>1. b \in Seq(Items)
    BY <1>1 DEF Types
  <2>2. (\A i \in DOMAIN b : ~Invalid(b, i)) /\ w[p].email \notin Emails(b)
    BY <1>3, <2>1, ScanFacts
  <2>3. \A i \in Records(b) : b[i].id # IdMax
    BY <2>2 DEF Invalid, Records
  <2>4. id \in 0..IdMax /\ fm \in BOOLEAN
    BY <2>1, <2>3, NextIdFacts DEF HasFormat
  <2>5. w' = [w EXCEPT ![p] = r] /\ UNCHANGED <<owner, readers>>
    BY <1>3 DEF Read, locks
  <2>6. file' = file
    BY <1>1 DEF book
  <2>7. id = NextId(file[w[p].fd]) /\ fm = HasFormat(file[w[p].fd])
    OBVIOUS
  <2> HIDE DEF id, fm, b
  <2>8. /\ r \in WRec /\ r.pc = "recheck" /\ r.id = id /\ r.format = fm /\ r.email = w[p].email
        /\ r.fd = w[p].fd /\ r.before = w[p].before
    BY <1>1, <2>4 DEF WRec, Pcs
  <2> HIDE DEF r
  <2>9. w'[p] = r
    BY <2>5 DEF IInv, Types
  <2>10. HasRead(p, file[w[p].fd])'
    BY <1>3, <2>2, <2>6, <2>7, <2>8, <2>9 DEF HasRead, b
  <2>11. WInv(p)' /\ AInv(p)'
    BY <1>1, <1>3, <2>5, <2>6, <2>8, <2>9, <2>10 DEF WInv, AInv, Appending, Past, b
  <2>12. owner' \in [Inodes -> Writers \cup {None}] /\ readers' \in [Inodes -> SUBSET Writers]
    BY <2>5 DEF IInv, Types
  <2> QED
    BY <1>1, <2>5, <2>8, <2>11, <2>12, Quiet
<1> QED
  BY <1>2, <1>3

LEMMA RecheckKeeps == ASSUME IInv, NEW p \in Writers, Recheck(p) PROVE IInv'
<1> DEFINE b == file[w[p].fd]
<1>1. /\ w[p].pc = "recheck" /\ UNCHANGED <<book, disk, loaded, power, reported, raced, exposed, torn>>
      /\ w[p].email \in Addresses /\ w[p].fd \in Inodes /\ Types /\ w[p] \in WRec /\ owner[w[p].fd] = p
      /\ (HasRead(p, b) \/ Len(b) > w[p].before)
  <2>1. w[p].pc = "recheck" /\ WInv(p)
    BY DEF Recheck, At, IInv, WriterInv
  <2> QED
    BY <2>1, WriterTypes DEF Recheck, IInv, WInv, env, history, Appending
<1>2. CASE ~Unchanged(p)
  BY <1>1, <1>2, ReturnKeeps DEF Recheck
<1>3. CASE Unchanged(p)
  <2>1. Goto(p, "write") /\ UNCHANGED <<owner, readers>> /\ named = w[p].fd /\ Len(b) = w[p].before
    BY <1>3 DEF Recheck, Unchanged, locks
  <2>2. HasRead(p, b)
    <3>1. Len(b) \in Nat
      BY <1>1, WriterTypes
    <3> QED
      BY <1>1, <2>1, <3>1
  <2>3. "write" \in Pcs
    BY DEF Pcs
  <2>4. /\ w'[p].pc = "write" /\ w'[p].email = w[p].email /\ w'[p].fd = w[p].fd
        /\ w'[p].id = w[p].id /\ w'[p].format = w[p].format
    BY <1>1, <2>1, <2>3, GotoFacts
  <2>5. file' = file /\ named' = named
    BY <1>1 DEF book
  <2>6. HasRead(p, file[w[p].fd])'
    BY <2>2, <2>4, <2>5 DEF HasRead
  <2>7. WInv(p)' /\ AInv(p)'
    BY <1>1, <2>1, <2>4, <2>5, <2>6 DEF WInv, AInv, Appending, Past
  <2>8. owner' \in [Inodes -> Writers \cup {None}] /\ readers' \in [Inodes -> SUBSET Writers]
    BY <2>1 DEF IInv, Types
  <2> QED
    BY <1>1, <2>1, <2>3, <2>7, <2>8, QuietGoto
<1> QED
  BY <1>2, <1>3

-----------------------------------------------------------------------------
(* Steps that change the book *)

LEMMA EmptyBook ==
    /\ <<>> \in Seq(Items) /\ Len(<<>>) = 0 /\ Records(<<>>) = {} /\ Emails(<<>>) = {} /\ GoodBook(<<>>)
<1>1. <<>> \in Seq(Items) /\ Len(<<>>) = 0 /\ DOMAIN <<>> = {} /\ Records(<<>>) = {}
  BY DEF Records
<1>2. Emails(<<>>) = {} /\ Distinct(<<>>) /\ ValidBook(<<>>)
  BY <1>1 DEF Emails, Distinct, ValidBook
<1>3. SmallBook(<<>>)
  <2>1. Cardinality(Records(<<>>)) = 0
    BY <1>1, FS_EmptySet
  <2>2. 0 <= RuleMax
    BY ContactAssumption
  <2> QED
    BY <2>1, <2>2, Zenon DEF SmallBook
<1> QED
  BY <1>1, <1>2, <1>3 DEF GoodBook

\* Who is past the last check has the file that the name leads to.
LEMMA PastFacts ==
    ASSUME IInv, ~raced, NEW q \in Writers, w[q].pc \in Past
    PROVE  named = w[q].fd /\ w[q].fd \in Inodes /\ owner[w[q].fd] = q /\ named # None
<1>1. WInv(q) /\ AInv(q) /\ w[q].pc \in Appending
  BY DEF IInv, WriterInv, AppendInv, Past, Appending
<1> QED
  BY <1>1, ContactAssumption DEF WInv, AInv

\* Nobody else is past the last check then.
LEMMA OnePast ==
    ASSUME IInv, ~raced, NEW p \in Writers, NEW q \in Writers, w[p].pc \in Past, w[q].pc \in Past
    PROVE  p = q
BY PastFacts

LEMMA FreshFacts ==
    ASSUME Fresh # {}
    PROVE  /\ Min(Fresh) \in Inodes /\ Min(Fresh) # named /\ Min(Fresh) # dnamed
           /\ \A q \in Writers : w[q].fd # Min(Fresh)
<1>1. Fresh \in SUBSET Nat
  BY ContactAssumption DEF Fresh
<1>2. Min(Fresh) \in Fresh
  BY <1>1, MinFacts
<1> QED
  BY <1>2 DEF Fresh

LEMMA CreateKeeps == ASSUME IInv, NEW p \in Writers, Create(p) PROVE IInv'
<1>1. /\ w[p].pc = "create" /\ UNCHANGED <<disk, loaded, power, reported, raced, exposed, torn, owner, readers>>
      /\ w[p].email \in Addresses /\ w[p].before = 0 /\ Types /\ w[p] \in WRec
  <2>1. w[p].pc = "create" /\ WInv(p)
    BY DEF Create, At, IInv, WriterInv
  <2> QED
    BY <2>1, WriterTypes DEF Create, IInv, WInv, env, history, locks
<1>2. owner' \in [Inodes -> Writers \cup {None}] /\ readers' \in [Inodes -> SUBSET Writers]
  BY <1>1 DEF Types
<1>3. CASE named # None
  <2>1. Goto(p, "open") /\ UNCHANGED book
    BY <1>3 DEF Create
  <2>2. "open" \in Pcs
    BY DEF Pcs
  <2>3. w'[p].pc = "open" /\ w'[p].email = w[p].email /\ w'[p].before = w[p].before
    BY <1>1, <2>1, <2>2, GotoFacts
  <2>4. WInv(p)' /\ AInv(p)'
    BY <1>1, <2>3 DEF WInv, AInv, Appending, Past
  <2> QED
    BY <1>1, <1>2, <2>1, <2>2, <2>4, QuietGoto
<1>4. CASE named = None
  <2> DEFINE i == Min(Fresh)
             r == [w[p] EXCEPT !.pc = "stat", !.fd = i, !.created = TRUE]
  <2>1. Fresh # {} /\ named' = i /\ file' = [file EXCEPT ![i] = <<>>] /\ w' = [w EXCEPT ![p] = r]
    BY <1>4 DEF Create
  <2>2. i \in Inodes /\ i # dnamed /\ \A q \in Writers : w[q].fd # i
    BY <2>1, FreshFacts
  <2> HIDE DEF i
  <2>3. r \in WRec /\ r.pc = "stat" /\ r.fd = i /\ r.email = w[p].email /\ r.before = w[p].before
    BY <1>1, <2>2 DEF WRec, Pcs
  <2> HIDE DEF r
  <2>4. w' \in [Writers -> WRec] /\ w'[p] = r /\ \A q \in Writers \ {p} : w'[q] = w[q]
    BY <1>1, <2>1, <2>3 DEF Types
  <2>5. file' \in [Inodes -> Seq(Items)] /\ file'[i] = <<>> /\ \A j \in Inodes \ {i} : file'[j] = file[j]
    BY <1>1, <2>1, <2>2, EmptyBook DEF Types
  <2>6. Types'
    BY <1>1, <1>2, <2>1, <2>2, <2>4, <2>5 DEF Types, disk
  <2>7. WInv(p)' /\ AInv(p)'
    BY <1>1, <2>2, <2>3, <2>4, <2>5, EmptyBook DEF WInv, AInv, Appending, Past
  <2>8. ASSUME NEW q \in Writers \ {p} PROVE WInv(q)' /\ (~raced' => AInv(q)')
    <3>1. WInv(q)'
      BY <1>1, <2>2, <2>4, <2>5, <2>6, OtherWriter DEF IInv
    <3>2. ~(~raced' /\ w[q].pc \in Past)
      BY <1>1, <1>4, PastFacts
    <3>3. ~raced' => AInv(q)'
      BY <1>1, <2>4, <3>2, OtherAppend DEF IInv
    <3> QED
      BY <3>1, <3>3
  <2>9. WriterInv' /\ AppendInv'
    BY <2>7, <2>8 DEF WriterInv, AppendInv
  <2>10. BookInv'
    <3>1. ASSUME ~raced, NEW j \in Inodes PROVE GoodBook(file'[j])
      BY <2>5, <3>1, EmptyBook DEF IInv, BookInv
    <3> QED
      BY <1>1, <3>1 DEF IInv, BookInv, GoodBook, disk
  <2>11. KeptInv'
    <3>1. Named = <<>> /\ Named' = <<>> /\ DNamed' = DNamed
      BY <1>1, <1>4, <2>1, <2>2, <2>5, ContactAssumption DEF Named, DNamed, disk
    <3>2. ~raced => dnamed = None /\ reported \subseteq exposed
      <4>1. ~raced => dnamed = None
        BY <1>4 DEF IInv, KeptInv
      <4> QED
        BY <4>1, EmptyBook DEF IInv, KeptInv, Kept, DNamed
    <3> QED
      BY <1>1, <3>1, <3>2 DEF IInv, KeptInv, Kept, disk
  <2> QED
    BY <2>6, <2>9, <2>10, <2>11 DEF IInv
<1> QED
  BY <1>3, <1>4

\* The file of an invocation, or the one the name leads to, grows.
LEMMA GrowKeeps ==
    ASSUME IInv, NEW i \in Inodes, NEW b \in Seq(Items), file' = [file EXCEPT ![i] = b],
           Emails(file[i]) \subseteq Emails(b), raced => raced', torn => torn',
           ~raced' => Distinct(b) /\ SmallBook(b) /\ (~torn' => ValidBook(b)),
           UNCHANGED <<named, dnamed, dfile, reported, power, exposed>>, loaded' \in {loaded, None}
    PROVE  /\ file' \in [Inodes -> Seq(Items)] /\ file'[i] = b
           /\ (\A j \in Inodes \ {i} : file'[j] = file[j])
           /\ BookInv' /\ KeptInv'
<1>1. file \in [Inodes -> Seq(Items)] /\ named \in Inodes \cup {None}
  BY DEF IInv, Types
<1>2. file' \in [Inodes -> Seq(Items)] /\ file'[i] = b /\ \A j \in Inodes \ {i} : file'[j] = file[j]
  BY <1>1
<1>3. ASSUME NEW x, GoodBook(x) PROVE GoodBook(x)'
  BY <1>3 DEF GoodBook
<1>4. BookInv'
  <2> SUFFICES ASSUME ~raced'
               PROVE  /\ \A j \in Inodes : GoodBook(file[j])' /\ GoodBook(dfile[j])'
                      /\ loaded' # None => GoodBook(loaded)'
    BY DEF BookInv
  <2>1. ~raced /\ \A j \in Inodes : GoodBook(file[j]) /\ GoodBook(dfile[j])
    BY DEF IInv, BookInv
  <2>2. \A j \in Inodes : GoodBook(file[j])' /\ GoodBook(dfile[j])'
    BY <1>2, <2>1 DEF GoodBook
  <2>3. loaded' # None => GoodBook(loaded)'
    BY <2>1 DEF IInv, BookInv, GoodBook
  <2> QED
    BY <2>2, <2>3
<1>5. Emails(Named) \subseteq Emails(Named')
  BY <1>1, <1>2 DEF Named
<1>6. DNamed' = DNamed
  BY DEF DNamed
<1>7. KeptInv'
  BY <1>5, <1>6 DEF IInv, KeptInv, Kept
<1> QED
  BY <1>2, <1>4, <1>7

\* Nobody else's file is the one p appends to, unless it is still before its reading.
LEMMA GrowOthers ==
    ASSUME IInv, Types', NEW p \in Writers, NEW q \in Writers \ {p}, w[p].pc = "write", w'[q] = w[q],
           \A i \in Inodes : owner[i] = q => owner'[i] = q,
           NEW b \in Seq(Items), file'[w[p].fd] = b, b = file[w[p].fd] \/ Len(b) > Len(file[w[p].fd]),
           \A j \in Inodes \ {w[p].fd} : file'[j] = file[j], UNCHANGED <<named, dfile, raced>>
    PROVE  WInv(q)' /\ (~raced' => AInv(q)')
<1>1. w[p].pc \in Past
  BY DEF Past
<1>2. WInv(q)'
  BY OtherWriter DEF IInv
<1>3. ~(~raced' /\ w[q].pc \in Past)
  BY <1>1, OnePast
<1>4. ~raced' => AInv(q)'
  BY <1>3, OtherAppend DEF IInv
<1> QED
  BY <1>2, <1>4

LEMMA WriteFacts ==
    ASSUME IInv, NEW p \in Writers, w[p].pc = "write"
    PROVE  /\ w[p].fd \in Inodes /\ owner[w[p].fd] = p /\ w[p].email \in Addresses
           /\ file[w[p].fd] \in Seq(Items)
           /\ ~raced => /\ HasRead(p, file[w[p].fd]) /\ named = w[p].fd
                        /\ Distinct(file[w[p].fd]) /\ SmallBook(file[w[p].fd])
<1>1. WInv(p) /\ (~raced => AInv(p)) /\ w[p].pc \in Appending /\ w[p].pc \in Past
  BY DEF IInv, WriterInv, AppendInv, Appending, Past
<1>2. w[p].fd \in Inodes
  BY <1>1 DEF WInv
<1> QED
  BY <1>1, <1>2, WriterTypes DEF WInv, AInv, IInv, BookInv, GoodBook

LEMMA WriteKeeps == ASSUME IInv, NEW p \in Writers, Write(p) PROVE IInv'
<1> DEFINE i == w[p].fd
           b == file[i] \o Appended(p)
<1>1. /\ w[p].pc = "write" /\ file' = [file EXCEPT ![i] = b] /\ Goto(p, "sync") /\ Types
      /\ UNCHANGED <<named, dnamed, dfile, loaded, power, reported, raced, exposed, torn, owner, readers>>
  BY DEF Write, At, disk, locks, env, history, IInv
<1>2. /\ i \in Inodes /\ owner[i] = p /\ w[p].email \in Addresses /\ file[i] \in Seq(Items)
      /\ ~raced => HasRead(p, file[i]) /\ named = i /\ Distinct(file[i]) /\ SmallBook(file[i])
  BY <1>1, WriteFacts
<1>3. b \in Seq(Items) /\ w[p].email \in Emails(b) /\ Emails(file[i]) \subseteq Emails(b) /\ Len(b) > Len(file[i])
  BY <1>1, <1>2, AppendedHas
<1>4. ~raced => Distinct(b) /\ SmallBook(b) /\ ValidBook(b)
  BY <1>1, <1>2, AppendedGood
<1> HIDE DEF b
<1>5. ~raced' => Distinct(b) /\ SmallBook(b) /\ (~torn' => ValidBook(b))
  BY <1>1, <1>4
<1>6. /\ file' \in [Inodes -> Seq(Items)] /\ file'[i] = b /\ (\A j \in Inodes \ {i} : file'[j] = file[j])
      /\ BookInv' /\ KeptInv'
  BY <1>1, <1>2, <1>3, <1>5, GrowKeeps
<1>7. "sync" \in Pcs
  BY DEF Pcs
<1>8. /\ w'[p].pc = "sync" /\ w'[p].email = w[p].email /\ w'[p].fd = w[p].fd /\ w' \in [Writers -> WRec]
      /\ \A q \in Writers \ {p} : w'[q] = w[q]
  BY <1>1, <1>7, GotoFacts
<1>9. Types'
  BY <1>1, <1>6, <1>8 DEF Types
<1>10. WInv(p)' /\ (~raced' => AInv(p)')
  BY <1>1, <1>2, <1>3, <1>6, <1>8 DEF WInv, AInv, Appending, Past
<1>11. ASSUME NEW q \in Writers \ {p} PROVE WInv(q)' /\ (~raced' => AInv(q)')
  BY <1>1, <1>3, <1>6, <1>8, <1>9, GrowOthers
<1>12. WriterInv' /\ AppendInv'
  BY <1>10, <1>11 DEF WriterInv, AppendInv
<1> QED
  BY <1>6, <1>9, <1>12 DEF IInv

\* A call fails or the process is killed; a write may have been made in part.
LEMMA FailKeeps == ASSUME IInv, NEW p \in Writers, Fail(p) PROVE IInv'
<1>1. /\ Return(p) /\ Types
      /\ UNCHANGED <<named, dnamed, dfile, loaded, power, reported, raced, exposed>>
  BY DEF Fail, disk, IInv
<1>2. CASE w[p].pc # "write"
  <2>1. UNCHANGED <<file, torn>>
    BY <1>2 DEF Fail, At
  <2> QED
    BY <1>1, <2>1, ReturnKeeps DEF book, disk
<1>3. CASE w[p].pc = "write"
  <2> DEFINE i == w[p].fd
  <2>1. torn' /\ \E s \in Tears(p) : file' = [file EXCEPT ![i] = @ \o s]
    BY <1>3 DEF Fail, At
  <2>2. PICK s \in Tears(p) : file' = [file EXCEPT ![i] = file[i] \o s]
    BY <2>1
  <2> DEFINE b == file[i] \o s
             c == file[i] \o Appended(p)
  <2>3. /\ i \in Inodes /\ w[p].email \in Addresses /\ file[i] \in Seq(Items)
        /\ ~raced => HasRead(p, file[i]) /\ Distinct(file[i]) /\ SmallBook(file[i])
    BY <1>3, WriteFacts
  <2>4. /\ b \in Seq(Items) /\ Weaker(b, c) /\ Emails(file[i]) \subseteq Emails(b)
        /\ (b = file[i] \/ Len(b) > Len(file[i]))
    BY <1>1, <2>2, <2>3, TearFacts
  <2>5. c \in Seq(Items) /\ (~raced => Distinct(c) /\ SmallBook(c))
    BY <1>1, <2>3, AppendedGood, AppendedHas
  <2> HIDE DEF b, c
  <2>6. ~raced' => Distinct(b) /\ SmallBook(b) /\ (~torn' => ValidBook(b))
    BY <1>1, <2>1, <2>4, <2>5, WeakerGood
  <2>7. /\ file' \in [Inodes -> Seq(Items)] /\ file'[i] = b /\ (\A j \in Inodes \ {i} : file'[j] = file[j])
        /\ BookInv' /\ KeptInv'
    <3>1. file' = [file EXCEPT ![i] = b]
      BY <2>2 DEF b
    <3> QED
      BY <1>1, <2>1, <2>3, <2>4, <2>6, <3>1, GrowKeeps
  <2>8. /\ w' \in [Writers -> WRec] /\ WInv(p)' /\ AInv(p)' /\ \A q \in Writers \ {p} : w'[q] = w[q]
        /\ owner' \in [Inodes -> Writers \cup {None}] /\ readers' \in [Inodes -> SUBSET Writers]
        /\ \A q \in Writers \ {p} : \A j \in Inodes : owner[j] = q => owner'[j] = q
    BY <1>1, ReturnFacts
  <2>9. Types'
    BY <1>1, <2>1, <2>7, <2>8 DEF Types
  <2>10. ASSUME NEW q \in Writers \ {p} PROVE WInv(q)' /\ (~raced' => AInv(q)')
    BY <1>1, <1>3, <2>4, <2>7, <2>8, <2>9, GrowOthers
  <2>11. WriterInv' /\ AppendInv'
    BY <2>8, <2>10 DEF WriterInv, AppendInv
  <2> QED
    BY <2>7, <2>9, <2>11 DEF IInv
<1> QED
  BY <1>2, <1>3

LEMMA SyncFacts ==
    ASSUME IInv, NEW p \in Writers, w[p].pc \in {"sync", "sync_parent"}
    PROVE  /\ w[p].fd \in Inodes /\ owner[w[p].fd] = p /\ w[p].email \in Addresses
           /\ ~raced => /\ named = w[p].fd /\ named # None
                        /\ w[p].email \in Emails(file[w[p].fd])
                        /\ w[p].pc = "sync_parent" => w[p].email \in Emails(dfile[w[p].fd])
<1>1. WInv(p) /\ (~raced => AInv(p)) /\ w[p].pc \in Appending /\ w[p].pc \in Past /\ w[p].pc # "idle"
  BY DEF IInv, WriterInv, AppendInv, Appending, Past
<1> QED
  BY <1>1, ContactAssumption DEF WInv, AInv

\* What was reported is in the book, and where the name is not on the disk yet all of it
\* was exposed.
LEMMA KeptFacts ==
    ASSUME IInv, ~raced
    PROVE  /\ reported \ exposed \subseteq Emails(Named) /\ reported \ exposed \subseteq Emails(DNamed)
           /\ reported \ (IF power > 0 THEN exposed ELSE {}) \subseteq Emails(Named)
           /\ dnamed # named => dnamed = None /\ reported \subseteq exposed
BY DEF IInv, KeptInv, Kept

LEMMA SyncKeeps == ASSUME IInv, NEW p \in Writers, Sync(p) PROVE IInv'
<1> DEFINE i == w[p].fd
           e == w[p].email
<1>1. /\ w[p].pc = "sync" /\ Types /\ dfile' = [dfile EXCEPT ![i] = file[i]]
      /\ UNCHANGED <<named, file, dnamed, loaded, power, raced, torn>>
  BY DEF Sync, At, SyncFile, book, env, IInv
<1>2. /\ i \in Inodes /\ owner[i] = p /\ e \in Addresses
      /\ ~raced => named = i /\ named # None /\ e \in Emails(file[i])
  BY <1>1, SyncFacts
<1>3. \/ w[p].created /\ Goto(p, "sync_parent") /\ reported' = reported /\ UNCHANGED <<owner, readers>>
      \/ ~w[p].created /\ Return(p) /\ reported' = reported \cup {e}
  BY DEF Sync, Success, locks
<1>4. exposed \subseteq exposed' /\ (~w[p].created /\ dnamed # i => e \in exposed')
  BY DEF Sync, Unnamed
<1>5. /\ dfile' \in [Inodes -> Seq(Items)] /\ dfile'[i] = file[i] /\ \A j \in Inodes \ {i} : dfile'[j] = dfile[j]
  BY <1>1, <1>2 DEF Types
<1>6. /\ w' \in [Writers -> WRec] /\ WInv(p)' /\ (~raced' => AInv(p)') /\ \A q \in Writers \ {p} : w'[q] = w[q]
      /\ owner' \in [Inodes -> Writers \cup {None}] /\ readers' \in [Inodes -> SUBSET Writers]
      /\ \A q \in Writers \ {p} : \A j \in Inodes : owner[j] = q => owner'[j] = q
  <2>1. CASE Return(p)
    BY <1>1, <2>1, ReturnFacts
  <2>2. CASE Goto(p, "sync_parent") /\ UNCHANGED <<owner, readers>>
    <3>1. "sync_parent" \in Pcs
      BY DEF Pcs
    <3>2. /\ w'[p].pc = "sync_parent" /\ w'[p].email = e /\ w'[p].fd = i /\ w' \in [Writers -> WRec]
          /\ \A q \in Writers \ {p} : w'[q] = w[q]
      BY <1>1, <2>2, <3>1, GotoFacts
    <3>3. WInv(p)' /\ (~raced' => AInv(p)')
      BY <1>1, <1>2, <1>5, <2>2, <3>2 DEF WInv, AInv, Appending, Past
    <3> QED
      BY <1>1, <2>2, <3>2, <3>3 DEF Types
  <2> QED
    BY <1>3, <2>1, <2>2
<1>7. reported' \subseteq reported \cup {e} /\ Types'
  BY <1>1, <1>2, <1>3, <1>5, <1>6 DEF Types
<1>8. ASSUME NEW q \in Writers \ {p} PROVE WInv(q)' /\ (~raced' => AInv(q)')
  <2>1. WInv(q)'
    BY <1>1, <1>6, <1>7, OtherWriter DEF IInv
  <2>2. w[q].fd \in Inodes => dfile'[w[q].fd] \in {dfile[w[q].fd], file[w[q].fd]}
    BY <1>5
  <2>3. ~raced' /\ w[q].pc \in Past => w[q].fd \in Inodes
    BY <1>1, PastFacts
  <2>4. ~raced' => AInv(q)'
    BY <1>1, <1>6, <2>2, <2>3, OtherAppend DEF IInv
  <2> QED
    BY <2>1, <2>4
<1>9. WriterInv' /\ AppendInv'
  BY <1>6, <1>8 DEF WriterInv, AppendInv
<1>10. BookInv'
  <2>1. ASSUME ~raced, NEW j \in Inodes PROVE GoodBook(file[j])' /\ GoodBook(dfile[j])'
    <3>1. GoodBook(file[j]) /\ GoodBook(dfile[j]) /\ (dfile'[j] = dfile[j] \/ dfile'[j] = file[j])
      BY <1>5, <2>1 DEF IInv, BookInv
    <3> QED
      BY <1>1, <3>1 DEF GoodBook
  <2>2. ~raced /\ loaded' # None => GoodBook(loaded)'
    BY <1>1 DEF IInv, BookInv, GoodBook
  <2> QED
    BY <1>1, <2>1, <2>2 DEF BookInv
<1>11. KeptInv'
  <2> SUFFICES ASSUME ~raced PROVE KeptInv'
    BY <1>1 DEF KeptInv, Kept
  <2>1. Named' = Named /\ Named = file[i] /\ named = i /\ e \in Emails(Named) /\ named # None
    BY <1>1, <1>2 DEF Named
  <2>2. /\ reported \ exposed \subseteq Emails(Named)
        /\ reported \ (IF power > 0 THEN exposed ELSE {}) \subseteq Emails(Named)
        /\ dnamed # named => dnamed = None /\ reported \subseteq exposed
    BY KeptFacts
  <2>3. reported' \ (IF power' > 0 THEN exposed' ELSE {}) \subseteq Emails(Named')
    BY <1>1, <1>4, <1>7, <2>1, <2>2
  <2>4. CASE dnamed = named
    <3>1. DNamed' = Named
      BY <1>1, <1>5, <2>1, <2>4 DEF DNamed
    <3>2. reported' \ exposed' \subseteq Emails(DNamed')
      BY <1>4, <1>7, <2>1, <2>2, <3>1
    <3> QED
      BY <1>1, <2>3, <2>4, <3>2 DEF KeptInv, Kept
  <2>5. CASE dnamed # named
    <3>1. dnamed = None /\ reported' \subseteq exposed'
      BY <1>3, <1>4, <2>1, <2>2, <2>5
    <3> QED
      BY <1>1, <2>3, <3>1 DEF KeptInv, Kept
  <2> QED
    BY <2>4, <2>5
<1> QED
  BY <1>7, <1>9, <1>10, <1>11 DEF IInv

\* The name reaches the disk.
LEMMA NameSynced ==
    ASSUME IInv, dnamed' = named,
           UNCHANGED <<named, file, dfile, power, raced, exposed>>,
           reported' \subseteq reported \cup (IF named = None THEN {} ELSE Emails(file[named]) \cap Emails(dfile[named]))
    PROVE  KeptInv'
<1> SUFFICES ASSUME ~raced PROVE KeptInv'
  BY DEF KeptInv, Kept
<1>1. Named' = Named /\ DNamed' = IF named = None THEN <<>> ELSE dfile[named]
  BY DEF Named, DNamed
<1>2. reported' \subseteq reported \cup (Emails(Named) \cap Emails(DNamed'))
  BY <1>1 DEF Named
<1>3. reported \ exposed \subseteq Emails(DNamed')
  BY <1>1, KeptFacts DEF DNamed
<1>4. reported \ (IF power > 0 THEN exposed ELSE {}) \subseteq Emails(Named)
  BY KeptFacts
<1>5. reported' \ (IF power' > 0 THEN exposed' ELSE {}) \subseteq Emails(Named')
  BY <1>1, <1>2, <1>4
<1>6. reported' \ exposed' \subseteq Emails(DNamed')
  BY <1>2, <1>3
<1> QED
  BY <1>5, <1>6 DEF KeptInv, Kept

LEMMA SyncParentKeeps == ASSUME IInv, NEW p \in Writers, SyncParent(p) PROVE IInv'
<1>1. /\ w[p].pc = "sync_parent" /\ Types /\ dnamed' = named /\ Return(p) /\ reported' = reported \cup {w[p].email}
      /\ UNCHANGED <<named, file, dfile, loaded, power, raced, exposed, torn>>
  BY DEF SyncParent, At, Success, book, env, IInv
<1>2. /\ w[p].email \in Addresses /\ w[p].fd \in Inodes
      /\ ~raced => /\ named = w[p].fd /\ named # None
                   /\ w[p].email \in Emails(file[w[p].fd]) /\ w[p].email \in Emails(dfile[w[p].fd])
  BY <1>1, SyncFacts
<1>3. /\ w' \in [Writers -> WRec] /\ WInv(p)' /\ AInv(p)' /\ \A q \in Writers \ {p} : w'[q] = w[q]
      /\ owner' \in [Inodes -> Writers \cup {None}] /\ readers' \in [Inodes -> SUBSET Writers]
      /\ \A q \in Writers \ {p} : \A j \in Inodes : owner[j] = q => owner'[j] = q
  BY <1>1, ReturnFacts
<1>4. Types'
  BY <1>1, <1>2, <1>3 DEF Types
<1>5. ASSUME NEW q \in Writers \ {p} PROVE WInv(q)' /\ (~raced' => AInv(q)')
  BY <1>1, <1>3, <1>4, OtherWriter, OtherAppend DEF IInv
<1>6. WriterInv' /\ AppendInv'
  BY <1>3, <1>5 DEF WriterInv, AppendInv
<1>7. BookInv'
  BY <1>1 DEF IInv, BookInv, GoodBook
<1>8. KeptInv'
  <2>1. CASE raced
    BY <1>1, <2>1 DEF KeptInv, Kept
  <2>2. CASE ~raced
    BY <1>1, <1>2, <2>2, NameSynced
  <2> QED
    BY <2>1, <2>2
<1> QED
  BY <1>4, <1>6, <1>7, <1>8 DEF IInv

-----------------------------------------------------------------------------
(* The editor, the disk and the power *)

\* What the editor writes: a record more in a good book.
LEMMA EditedFacts ==
    ASSUME NEW b \in Seq(Items), Edited(b)
    PROVE  LET a == Append(b, EditorRecord(b)) IN
           /\ a \in Seq(Items) /\ Emails(b) \subseteq Emails(a) /\ Len(a) > Len(b)
           /\ Distinct(b) /\ SmallBook(b) => Distinct(a) /\ SmallBook(a) /\ ValidBook(a)
<1> DEFINE r == EditorRecord(b)
<1>1. NextId(b) \in 0..IdMax
  <2>1. NextId(b) \in Nat /\ NextId(b) < IdMax /\ IdMax \in Nat
    BY NextIdFacts, ContactAssumption DEF Edited
  <2> QED
    BY <2>1
<1>2. r \in Record /\ r.id = NextId(b) /\ r.email = EditorAddress
  BY <1>1 DEF EditorRecord, Record
<1> HIDE DEF r
<1>3. r \in Items
  BY <1>2 DEF Items
<1>4. Append(b, r) \in Seq(Items) /\ Emails(b) \subseteq Emails(Append(b, r)) /\ Len(Append(b, r)) = Len(b) + 1
  BY <1>3, AppendFacts
<1>5. Len(Append(b, r)) > Len(b)
  BY <1>4
<1>6. Distinct(b) /\ SmallBook(b) => Distinct(Append(b, r)) /\ SmallBook(Append(b, r)) /\ ValidBook(Append(b, r))
  BY <1>2, GrowGood DEF Edited
<1> QED
  BY <1>4, <1>5, <1>6 DEF r

LEMMA RacesFacts ==
    ASSUME IInv, ~Races
    PROVE  ~raced /\ \A q \in Writers : w[q].pc \notin Past
BY DEF Races, Past

LEMMA EditAppendKeeps == ASSUME IInv, EditAppend PROVE IInv'
<1> DEFINE i == named
           b == Append(file[i], EditorRecord(file[i]))
<1>1. /\ i \in Inodes /\ Edited(file[i]) /\ file' = [file EXCEPT ![i] = b] /\ raced' = Races /\ Types
      /\ UNCHANGED <<named, dnamed, dfile, owner, readers, w, loaded, power, reported, exposed, torn>>
  BY DEF EditAppend, IInv, Types, disk, locks
<1>2. file[i] \in Seq(Items)
  BY <1>1 DEF Types
<1>3. /\ b \in Seq(Items) /\ Emails(file[i]) \subseteq Emails(b) /\ Len(b) > Len(file[i])
      /\ Distinct(file[i]) /\ SmallBook(file[i]) => Distinct(b) /\ SmallBook(b) /\ ValidBook(b)
  BY <1>1, <1>2, EditedFacts
<1>4. raced' \in BOOLEAN /\ (raced => raced') /\ (~raced' => ~raced /\ \A q \in Writers : w[q].pc \notin Past)
  BY <1>1, RacesFacts DEF Races
<1> HIDE DEF b
<1>5. ~raced' => Distinct(b) /\ SmallBook(b) /\ (~torn' => ValidBook(b))
  BY <1>1, <1>3, <1>4 DEF IInv, BookInv, GoodBook
<1>6. /\ file' \in [Inodes -> Seq(Items)] /\ file'[i] = b /\ (\A j \in Inodes \ {i} : file'[j] = file[j])
      /\ BookInv' /\ KeptInv'
  BY <1>1, <1>3, <1>4, <1>5, GrowKeeps
<1>7. Types'
  BY <1>1, <1>4, <1>6 DEF Types
<1>8. ASSUME NEW q \in Writers PROVE WInv(q)' /\ (~raced' => AInv(q)')
  BY <1>1, <1>3, <1>4, <1>6, <1>7, OtherWriter, OtherAppend DEF IInv
<1>9. WriterInv' /\ AppendInv'
  BY <1>8 DEF WriterInv, AppendInv
<1> QED
  BY <1>6, <1>7, <1>9 DEF IInv

LEMMA EditLoadKeeps == ASSUME IInv, EditLoad PROVE IInv'
<1>1. /\ named \in Inodes /\ Edited(file[named]) /\ loaded' = file[named]
      /\ UNCHANGED <<named, file, dnamed, dfile, owner, readers, w, power, reported, raced, exposed, torn>>
  BY DEF EditLoad, IInv, Types, book, disk, locks, history
<1>2. file[named] \in Seq(Items)
  BY <1>1 DEF IInv, Types
<1>3. Edited(loaded')
  BY <1>1
<1>4. Types'
  <2>1. loaded' # None => loaded' \in Seq(Items) /\ Edited(loaded')
    BY <1>1, <1>2, <1>3
  <2> QED
    BY <1>1, <2>1 DEF IInv, Types
<1>5. BookInv'
  BY <1>1 DEF IInv, BookInv, GoodBook
<1>6. KeptInv'
  BY <1>1 DEF IInv, KeptInv, Kept, Named, DNamed
<1>7. ASSUME NEW q \in Writers PROVE WInv(q)' /\ (~raced' => AInv(q)')
  BY <1>1, <1>4, OtherWriter, OtherAppend DEF IInv
<1>8. WriterInv' /\ AppendInv'
  BY <1>7 DEF WriterInv, AppendInv
<1> QED
  BY <1>4, <1>5, <1>6, <1>8 DEF IInv

\* A new file gets the name: nobody has it open, and what it has is what was loaded and a
\* record more.
LEMMA EditSaveKeeps == ASSUME IInv, EditSave PROVE IInv'
<1> DEFINE i == Min(Fresh)
           b == Append(loaded, EditorRecord(loaded))
<1>1. /\ loaded # None /\ named # None /\ Fresh # {} /\ named' = i /\ dnamed' = i /\ Types
      /\ file' = [file EXCEPT ![i] = b] /\ dfile' = [dfile EXCEPT ![i] = file'[i]]
      /\ raced' = (Races \/ file[named] # loaded) /\ loaded' = None
      /\ UNCHANGED <<owner, readers, w, power, reported, exposed, torn>>
  BY DEF EditSave, IInv, locks, env
<1>2. i \in Inodes /\ \A q \in Writers : w[q].fd # i
  BY <1>1, FreshFacts
<1>3. loaded \in Seq(Items) /\ Edited(loaded) /\ named \in Inodes
  BY <1>1 DEF Types
<1>4. /\ b \in Seq(Items) /\ Emails(loaded) \subseteq Emails(b)
      /\ Distinct(loaded) /\ SmallBook(loaded) => Distinct(b) /\ SmallBook(b) /\ ValidBook(b)
  BY <1>3, EditedFacts
<1>5. raced' \in BOOLEAN /\ (raced => raced')
      /\ (~raced' => ~raced /\ file[named] = loaded /\ \A q \in Writers : w[q].pc \notin Past)
  BY <1>1, RacesFacts DEF Races
<1> HIDE DEF i, b
<1>6. /\ file' \in [Inodes -> Seq(Items)] /\ file'[i] = b /\ \A j \in Inodes \ {i} : file'[j] = file[j]
  BY <1>1, <1>2, <1>4 DEF Types
<1>7. /\ dfile' \in [Inodes -> Seq(Items)] /\ dfile'[i] = b /\ \A j \in Inodes \ {i} : dfile'[j] = dfile[j]
  BY <1>1, <1>2, <1>4, <1>6 DEF Types
<1>8. Types'
  BY <1>1, <1>2, <1>5, <1>6, <1>7 DEF Types
<1>9. ASSUME NEW q \in Writers PROVE WInv(q)' /\ (~raced' => AInv(q)')
  <2>1. WInv(q)'
    BY <1>1, <1>2, <1>6, <1>8, OtherWriter DEF IInv
  <2>2. ~raced' => AInv(q)'
    BY <1>1, <1>5, OtherAppend DEF IInv
  <2> QED
    BY <2>1, <2>2
<1>10. WriterInv' /\ AppendInv'
  BY <1>9 DEF WriterInv, AppendInv
<1>11. BookInv'
  <2> SUFFICES ASSUME ~raced' PROVE \A j \in Inodes : GoodBook(file[j])' /\ GoodBook(dfile[j])'
    BY <1>1 DEF BookInv
  <2>1. /\ \A j \in Inodes : GoodBook(file[j]) /\ GoodBook(dfile[j])
        /\ Distinct(b) /\ SmallBook(b) /\ ValidBook(b)
    BY <1>1, <1>4, <1>5 DEF IInv, BookInv, GoodBook
  <2>2. ASSUME NEW j \in Inodes PROVE GoodBook(file[j])' /\ GoodBook(dfile[j])'
    <3>1. CASE j = i
      BY <1>6, <1>7, <2>1, <3>1 DEF GoodBook
    <3>2. CASE j # i
      BY <1>1, <1>6, <1>7, <2>1, <3>2 DEF GoodBook
    <3> QED
      BY <3>1, <3>2
  <2> QED
    BY <2>2
<1>12. KeptInv'
  <2> SUFFICES ASSUME ~raced' PROVE KeptInv'
    BY DEF KeptInv, Kept
  <2>1. Named' = b /\ DNamed' = b /\ Emails(Named) \subseteq Emails(b)
    BY <1>1, <1>2, <1>4, <1>5, <1>6, <1>7, ContactAssumption DEF Named, DNamed
  <2>2. /\ reported \ exposed \subseteq Emails(Named)
        /\ reported \ (IF power > 0 THEN exposed ELSE {}) \subseteq Emails(Named)
    BY <1>5, KeptFacts
  <2> QED
    BY <1>1, <2>1, <2>2 DEF KeptInv, Kept
<1> QED
  BY <1>8, <1>10, <1>11, <1>12 DEF IInv

LEMMA WritebackKeeps == ASSUME IInv, Writeback PROVE IInv'
<1>1. /\ UNCHANGED <<named, file, owner, readers, w, loaded, power, reported, raced, exposed, torn>> /\ Types
      /\ (dnamed' = named /\ dfile' = dfile) \/ (dfile' = file /\ dnamed' = dnamed)
  BY DEF Writeback, IInv, book, locks, env, history
<1>2. Types'
  BY <1>1 DEF Types
<1>3. ASSUME NEW q \in Writers PROVE WInv(q)' /\ (~raced' => AInv(q)')
  <2>1. WInv(q)'
    BY <1>1, <1>2, OtherWriter DEF IInv
  <2>2. ~raced' => AInv(q)'
    BY <1>1, OtherAppend DEF IInv
  <2> QED
    BY <2>1, <2>2
<1>4. WriterInv' /\ AppendInv'
  BY <1>3 DEF WriterInv, AppendInv
<1>5. BookInv'
  BY <1>1 DEF IInv, BookInv, GoodBook
<1>6. CASE dnamed' = named /\ dfile' = dfile
  BY <1>1, <1>2, <1>4, <1>5, <1>6, NameSynced DEF IInv
<1>7. CASE dfile' = file /\ dnamed' = dnamed
  <2>1. KeptInv'
    <3> SUFFICES ASSUME ~raced PROVE KeptInv'
      BY <1>1 DEF KeptInv, Kept
    <3>1. Named' = Named /\ (dnamed = named => DNamed' = Named)
      BY <1>1, <1>7 DEF Named, DNamed
    <3> QED
      BY <1>1, <1>7, <3>1, KeptFacts DEF KeptInv, Kept
  <2> QED
    BY <1>2, <1>4, <1>5, <2>1 DEF IInv
<1> QED
  BY <1>1, <1>6, <1>7

\* What a power loss leaves of the files: what was on the disk, and perhaps a part of one
\* append.
LEMMA RemainsFacts ==
    ASSUME IInv, NEW f \in Remains
    PROVE  /\ f \in [Inodes -> Seq(Items)]
           /\ \A j \in Inodes : Emails(dfile[j]) \subseteq Emails(f[j])
           /\ ~raced => \A j \in Inodes : Distinct(f[j]) /\ SmallBook(f[j])
<1>1. /\ dfile \in [Inodes -> Seq(Items)] /\ file \in [Inodes -> Seq(Items)] /\ Types
      /\ ~raced => \A j \in Inodes : /\ Distinct(dfile[j]) /\ SmallBook(dfile[j])
                                     /\ Distinct(file[j]) /\ SmallBook(file[j])
  BY DEF IInv, Types, BookInv, GoodBook
<1>2. CASE f = dfile
  BY <1>1, <1>2
<1>3. CASE f # dfile
  <2>1. PICK p \in Writers : /\ w[p].pc = "sync" /\ file[w[p].fd] = dfile[w[p].fd] \o Appended(p)
                             /\ f \in {[dfile EXCEPT ![w[p].fd] = @ \o s] : s \in Tears(p)}
    BY <1>3 DEF Remains, At
  <2>2. PICK s \in Tears(p) : f = [dfile EXCEPT ![w[p].fd] = dfile[w[p].fd] \o s]
    BY <2>1
  <2> DEFINE i == w[p].fd
             b == dfile[i] \o s
  <2>3. i \in Inodes /\ w[p].email \in Addresses
    BY <2>1, SyncFacts
  <2>4. dfile[i] \in Seq(Items) /\ file[i] \in Seq(Items)
    BY <1>1, <2>3
  <2>5. b \in Seq(Items) /\ Weaker(b, file[i]) /\ Emails(dfile[i]) \subseteq Emails(b)
    BY <1>1, <2>1, <2>3, <2>4, TearFacts
  <2>6. ~raced => Distinct(b) /\ SmallBook(b)
    <3> HIDE DEF b
    <3> QED
      BY <1>1, <2>3, <2>4, <2>5, WeakerGood
  <2>7. f = [dfile EXCEPT ![i] = b]
    BY <2>2
  <2> HIDE DEF b, i
  <2>8. f \in [Inodes -> Seq(Items)] /\ f[i] = b /\ \A j \in Inodes \ {i} : f[j] = dfile[j]
    BY <1>1, <2>3, <2>5, <2>7
  <2>9. ASSUME NEW j \in Inodes
        PROVE  Emails(dfile[j]) \subseteq Emails(f[j]) /\ (~raced => Distinct(f[j]) /\ SmallBook(f[j]))
    <3>1. CASE j = i
      BY <2>5, <2>6, <2>8, <3>1
    <3>2. CASE j # i
      BY <1>1, <2>8, <3>2
    <3> QED
      BY <3>1, <3>2
  <2> QED
    BY <2>8, <2>9
<1> QED
  BY <1>2, <1>3

LEMMA PowerLossKeeps == ASSUME IInv, PowerLoss PROVE IInv'
<1>1. /\ power' = power + 1 /\ file' \in Remains /\ dfile' = file' /\ named' = dnamed /\ loaded' = None /\ Types
      /\ torn' = (torn \/ file' # dfile) /\ w' = [p \in Writers |-> Away]
      /\ owner' = [j \in Inodes |-> None] /\ readers' = [j \in Inodes |-> {}]
      /\ UNCHANGED <<dnamed, reported, raced, exposed>>
  BY DEF PowerLoss, IInv
<1>2. /\ file' \in [Inodes -> Seq(Items)]
      /\ \A j \in Inodes : Emails(dfile[j]) \subseteq Emails(file'[j])
      /\ ~raced => \A j \in Inodes : Distinct(file'[j]) /\ SmallBook(file'[j])
  <2>1. PICK f \in Remains : file' = f
    BY <1>1
  <2> QED
    BY <2>1, RemainsFacts
<1>3. power' \in Nat /\ power' > 0
  BY <1>1 DEF Types
<1>4. w' \in [Writers -> WRec] /\ \A p \in Writers : w'[p].pc = "idle"
  BY <1>1, AwayFacts
<1>5. owner' \in [Inodes -> Writers \cup {None}] /\ readers' \in [Inodes -> SUBSET Writers]
  BY <1>1
<1>6. Types'
  BY <1>1, <1>2, <1>3, <1>4, <1>5 DEF Types
<1>7. WriterInv' /\ AppendInv'
  BY <1>4, IdleFacts DEF WriterInv, AppendInv
<1>8. BookInv'
  <2> SUFFICES ASSUME ~raced, NEW j \in Inodes PROVE GoodBook(file[j])' /\ GoodBook(dfile[j])'
    BY <1>1 DEF BookInv
  <2>1. ~torn' => ValidBook(file'[j])
    BY <1>1 DEF IInv, BookInv, GoodBook
  <2> QED
    BY <1>1, <1>2, <2>1 DEF GoodBook
<1>9. KeptInv'
  <2> SUFFICES ASSUME ~raced PROVE KeptInv'
    BY <1>1 DEF KeptInv, Kept
  <2>1. Named' = DNamed' /\ Emails(DNamed) \subseteq Emails(DNamed')
    BY <1>1, <1>2 DEF Named, DNamed, Types
  <2> QED
    BY <1>1, <1>3, <2>1, KeptFacts DEF KeptInv, Kept
<1> QED
  BY <1>6, <1>7, <1>8, <1>9 DEF IInv

-----------------------------------------------------------------------------
(* The invariant *)

LEMMA InitHolds == Init => IInv
<1> SUFFICES ASSUME Init PROVE IInv
  OBVIOUS
<1>1. PICK b \in FirstBooks :
        /\ named = IF b = None THEN None ELSE Min(Inodes)
        /\ file = [i \in Inodes |-> IF i = named THEN b ELSE <<>>]
  BY DEF Init
<1>2. /\ dnamed = named /\ dfile = file /\ loaded = None /\ reported = {} /\ power = 0
      /\ raced = FALSE /\ torn = FALSE /\ w = [p \in Writers |-> Away]
      /\ owner = [i \in Inodes |-> None] /\ readers = [i \in Inodes |-> {}]
  BY DEF Init
<1>3. Min(Inodes) \in Inodes /\ None \notin Inodes
  BY MinFacts, ContactAssumption
<1>4. b # None => b \in Seq(Items) /\ GoodBook(b)
  BY FirstBooksAssumption DEF GoodBook, SmallBook, ValidBook
<1>5. \A i \in Inodes : file[i] \in Seq(Items) /\ GoodBook(file[i])
  BY <1>1, <1>3, <1>4, EmptyBook
<1>6. file \in [Inodes -> Seq(Items)]
  BY <1>1, <1>5
<1>7. w \in [Writers -> WRec] /\ \A p \in Writers : w[p].pc = "idle"
  BY <1>2, AwayFacts
<1>8. Types
  BY <1>1, <1>2, <1>3, <1>6, <1>7 DEF Types
<1>9. BookInv
  BY <1>2, <1>5 DEF BookInv
<1>10. WriterInv /\ AppendInv
  BY <1>7 DEF WriterInv, AppendInv, WInv, AInv, Appending, Past
<1>11. KeptInv
  BY <1>2 DEF KeptInv, Kept
<1> QED
  BY <1>8, <1>9, <1>10, <1>11 DEF IInv

LEMMA StepKeeps == IInv /\ [Next]_vars => IInv'
<1> SUFFICES ASSUME IInv, [Next]_vars PROVE IInv'
  OBVIOUS
<1>1. CASE \E p \in Writers : Step(p)
  BY <1>1, CreateKeeps, OpenKeeps, StatKeeps, LockKeeps, ReadKeeps, RecheckKeeps, WriteKeeps, SyncKeeps, SyncParentKeeps
     DEF Step
<1>2. CASE \E p \in Writers : Fail(p)
  BY <1>2, FailKeeps
<1>3. CASE \E p \in Writers : \E a \in Addresses, check \in BOOLEAN : Start(p, a, check)
  BY <1>3, StartKeeps
<1>4. CASE EditAppend \/ EditLoad \/ EditSave
  BY <1>4, EditAppendKeeps, EditLoadKeeps, EditSaveKeeps
<1>5. CASE Writeback \/ PowerLoss
  BY <1>5, WritebackKeeps, PowerLossKeeps
<1>6. CASE UNCHANGED vars
  <2>1. UNCHANGED <<named, file, dnamed, dfile, owner, readers, w, loaded, power, reported, raced, exposed, torn>>
    BY <1>6 DEF vars, book, disk, locks, env, history
  <2>2. Types' /\ BookInv'
    BY <2>1 DEF IInv, Types, BookInv, GoodBook
  <2>3. KeptInv'
    BY <2>1 DEF IInv, KeptInv, Kept, Named, DNamed
  <2>4. ASSUME NEW q \in Writers PROVE WInv(q)' /\ (~raced' => AInv(q)')
    BY <2>1, <2>2, OtherWriter, OtherAppend DEF IInv
  <2>5. WriterInv' /\ AppendInv'
    BY <2>4 DEF WriterInv, AppendInv
  <2> QED
    BY <2>2, <2>3, <2>5 DEF IInv
<1> QED
  BY <1>1, <1>2, <1>3, <1>4, <1>5, <1>6 DEF Next

LEMMA Invariance == Spec => []IInv
BY InitHolds, StepKeeps, PTL DEF Spec

-----------------------------------------------------------------------------
(* The theorems *)

\* Every variable has its type: the names lead to files, the files hold items, an
\* invocation's number is one there is, and, unless an edit overlapped an append, no book
\* grows past RuleMax records however many invocations, failures and power losses there are.
THEOREM TypeCorrect == Spec => []TypeOK
<1>1. IInv => TypeOK
  <2> SUFFICES ASSUME IInv PROVE TypeOK
    OBVIOUS
  <2>1. \A i \in Inodes : \A f \in {file[i], dfile[i]} : f \in Seq(Items)
    BY DEF IInv, Types
  <2>2. \A i \in Inodes : ~raced => Cardinality(Records(file[i])) <= RuleMax
    BY DEF IInv, BookInv, GoodBook, SmallBook
  <2>3. \A p \in Writers : w[p].fd \in Inodes \cup {None} /\ w[p].id \in 0..IdMax
    BY DEF IInv, Types, WRec
  <2> QED
    BY <2>1, <2>2, <2>3 DEF IInv, Types, TypeOK
<1> QED
  BY <1>1, Invariance, PTL

\* No address and no section number is in the address book twice, for any number of
\* jf_contact_add invocations at once, unless an edit overlapped an append.
THEOREM NoDuplicateContact == Spec => []Unique
<1>1. IInv => Unique
  BY EmptyBook DEF IInv, Types, BookInv, GoodBook, Unique, Named
<1> QED
  BY <1>1, Invariance, PTL

\* A contact jf_contact_add reported as added is in the book and on the disk, whole,
\* through failures, kills and any number of power losses; not so, once the power was lost,
\* one reported while the creator had not made the name durable.
THEOREM ReportedKept == Spec => []Kept
<1>1. IInv => Kept
  BY DEF IInv, KeptInv
<1> QED
  BY <1>1, Invariance, PTL

\* No append that succeeds makes a book that the next invocation refuses, as long as
\* section numbers stay below the last one.
THEOREM BookStaysValid == Spec => []StaysValid
<1>1. IInv => StaysValid
  <2> SUFFICES ASSUME IInv, ~torn, ~raced PROVE ValidBook(Named)
    BY DEF StaysValid, ValidBook
  <2>1. CASE named = None
    BY <2>1, EmptyBook DEF Named, GoodBook
  <2>2. CASE named # None
    BY <2>2 DEF IInv, Types, BookInv, GoodBook, Named
  <2> QED
    BY <2>1, <2>2
<1> QED
  BY <1>1, Invariance, PTL
=============================================================================
