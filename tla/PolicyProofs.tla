---------------------------- MODULE PolicyProofs ----------------------------
(***************************************************************************)
(* Theorems about the operators of Policy that hold for every policy,      *)
(* profile and message: that index, script, import and cache read a rule   *)
(* alike.  Each is about one rule or one address; what the sequences of    *)
(* rules and messages add to it is recursion, and checked by TLC.          *)
(***************************************************************************)
EXTENDS Policy, WellFoundedInduction, TLAPS

-----------------------------------------------------------------------------
(* The index of the classifier *)

\* The smallest of a set of numbers.
LEMMA MinLeast ==
    ASSUME NEW S, S \subseteq Nat, S # {}
    PROVE  Min(S) \in S /\ \A y \in S : Min(S) <= y
<1>1. IsWellFoundedOn(OpToRel(<, Nat), Nat)
  BY NatLessThanWellFounded, Zenon
<1>2. PICK x \in S : \A y \in S : ~(<<y, x>> \in OpToRel(<, Nat))
  BY <1>1, WFMin, Zenon
<1>3. \A y \in S : ~(y < x)
  BY <1>2 DEF OpToRel
<1>4. \E z \in S : \A y \in S : z <= y
  BY <1>3
<1> QED
  BY <1>4 DEF Min

\* An address, whatever its local part, its labels and its form are.
IsAddress(a) == \E L, D, F : a \in [local : L, domain : D, form : F]

\* Normalisation leaves mailbox and domain.
LEMMA PlainBox ==
    ASSUME NEW a, IsAddress(a)
    PROVE  Box(Plain(a)) = Box(a) /\ Plain(a).domain = a.domain
BY DEF IsAddress, Plain, Box

\* Rule r holds for one address of a message.
Hits(r, entry) ==
    /\ entry.field \in r.fields
    /\ \/ r.kind = "address" /\ Box(r.predicate) = Box(entry.address)
       \/ r.kind = "domain-apex" /\ r.predicate.domain = entry.address.domain
       \/ r.kind = "domain-subdomains" /\ r.predicate.domain \in Parents(entry.address.domain)
       \/ r.kind = "ere" /\ Box(entry.address) \in r.predicate.matches

\* w is the first of best and the rules of p that hold for the address.
FirstOf(w, p, best, entry) ==
    /\ w = best \/ (w \in DOMAIN p /\ Hits(p[w], entry))
    /\ w <= best
    /\ \A i \in DOMAIN p : Hits(p[i], entry) => w <= i

LEMMA LookupFirst ==
    ASSUME NEW p, DOMAIN p \subseteq Nat, NEW found, found \subseteq DOMAIN p, NEW field, NEW best \in Nat
    PROVE  LET w == Lookup(p, found, field, best) IN
           /\ w \in Nat /\ w <= best
           /\ w = best \/ (w \in found /\ field \in p[w].fields)
           /\ \A i \in found : field \in p[i].fields => w <= i
<1> DEFINE S == {best} \cup {i \in found : field \in p[i].fields}
<1>1. S \subseteq Nat /\ S # {}
  OBVIOUS
<1>2. Min(S) \in S /\ \A y \in S : Min(S) <= y
  BY <1>1, MinLeast
<1> QED
  BY <1>1, <1>2 DEF Lookup

\* The lookups by address, by domain, by each parent domain and the scan of expressions
\* (lookup and improve of classify.c) together find the first rule, in the order of the
\* policy, that holds for the address, where it is before the best one so far: no kind of
\* rule is missed, and none is preferred to an earlier one of another kind.
THEOREM IndexFindsFirst ==
    ASSUME NEW p, DOMAIN p \subseteq Nat, NEW best \in Nat, NEW entry, IsAddress(entry.address)
    PROVE  FirstOf(Improve(p, best, entry), p, best, entry)
<1> DEFINE a == entry.address
           exact == {i \in Bucket(p, "address") : Box(p[i].predicate) = Box(a)}
           same == {i \in Bucket(p, "domain-apex") : p[i].predicate.domain = a.domain}
           above == {i \in Bucket(p, "domain-subdomains") : p[i].predicate.domain \in Parents(a.domain)}
           matched == {i \in Bucket(p, "ere") : Box(a) \in p[i].predicate.matches}
           b1 == Lookup(p, exact, entry.field, best)
           b2 == Lookup(p, same, entry.field, b1)
           b3 == Lookup(p, above, entry.field, b2)
           b4 == Lookup(p, matched, entry.field, b3)
<1>1. Improve(p, best, entry) = b4
  BY PlainBox DEF Improve, Wider, Exact
<1>2. /\ exact \subseteq DOMAIN p /\ same \subseteq DOMAIN p /\ above \subseteq DOMAIN p /\ matched \subseteq DOMAIN p
  BY DEF Bucket
<1>3. \A i \in DOMAIN p : Hits(p[i], entry) <=>
         entry.field \in p[i].fields /\ i \in exact \cup same \cup above \cup matched
  BY DEF Hits, Bucket
<1> HIDE DEF exact, same, above, matched
<1>4. /\ b1 \in Nat /\ b1 <= best /\ (b1 = best \/ (b1 \in exact /\ entry.field \in p[b1].fields))
      /\ \A i \in exact : entry.field \in p[i].fields => b1 <= i
  BY <1>2, LookupFirst
<1> HIDE DEF b1
<1>5. /\ b2 \in Nat /\ b2 <= b1 /\ (b2 = b1 \/ (b2 \in same /\ entry.field \in p[b2].fields))
      /\ \A i \in same : entry.field \in p[i].fields => b2 <= i
  BY <1>2, <1>4, LookupFirst
<1> HIDE DEF b2
<1>6. /\ b3 \in Nat /\ b3 <= b2 /\ (b3 = b2 \/ (b3 \in above /\ entry.field \in p[b3].fields))
      /\ \A i \in above : entry.field \in p[i].fields => b3 <= i
  BY <1>2, <1>5, LookupFirst
<1> HIDE DEF b3
<1>7. /\ b4 \in Nat /\ b4 <= b3 /\ (b4 = b3 \/ (b4 \in matched /\ entry.field \in p[b4].fields))
      /\ \A i \in matched : entry.field \in p[i].fields => b4 <= i
  BY <1>2, <1>6, LookupFirst
<1> HIDE DEF b4, a
<1>8. \A i \in DOMAIN p : Hits(p[i], entry) => b4 <= i
  BY <1>2, <1>3, <1>4, <1>5, <1>6, <1>7
<1>9. b4 = best \/ (b4 \in DOMAIN p /\ Hits(p[b4], entry))
  BY <1>2, <1>3, <1>4, <1>5, <1>6, <1>7
<1> QED
  BY <1>1, <1>4, <1>5, <1>6, <1>7, <1>8, <1>9 DEF FirstOf

-----------------------------------------------------------------------------
(* The script against the policy *)

Selectors == Contacts \cup FromSelectors \cup ToSelectors \cup {"known-domain", "bounce", "spam", "unsorted"}
ScriptKinds == {"address", "domain-apex", "domain-subdomains", "ere", "sender-contains", "spam-is"}

\* The test that is emitted for a rule holds on the server for the very messages that the
\* rule is for, whatever its key: the comparison, the part of the address and the fields
\* that jf_emit_text writes are those of the kind.
THEOREM ServerTestsAlike ==
    ASSUME NEW pr, NEW r, r.kind \in ScriptKinds, NEW m, m.bounce \in BOOLEAN, m.spam \in BOOLEAN
    PROVE  Holds(Test(pr, r), m) <=> Matches(r, m)
<1>1. CASE r.kind = "sender-contains"
  BY <1>1 DEF Holds, Test, Matches
<1>2. CASE r.kind = "spam-is"
  BY <1>2 DEF Holds, Test, Matches
<1>3. CASE r.kind = "address"
  BY <1>3 DEF Holds, Test, Matches, Box
<1>4. CASE r.kind = "domain-apex"
  BY <1>4 DEF Holds, Test, Matches
<1>5. CASE r.kind = "domain-subdomains"
  BY <1>5 DEF Holds, Test, Matches
<1>6. CASE r.kind = "ere"
  BY <1>6 DEF Holds, Test, Matches
<1> QED
  BY <1>1, <1>2, <1>3, <1>4, <1>5, <1>6 DEF ScriptKinds

\* The stage and the fields of each selector.
LEMMA StagesAndFields ==
    /\ Stage("blacklist") = 1 /\ Fields("blacklist") = {"From"}
    /\ Stage("bounce") = 2 /\ Fields("bounce") = {"Sender"}
    /\ \A sel \in FromSelectors : Stage(sel) = 3 /\ Fields(sel) = {"From", "Sender"}
    /\ \A sel \in ToSelectors : Stage(sel) = 4 /\ Fields(sel) = {"To", "Cc"}
    /\ \A sel \in {"known", "known-domain"} : Stage(sel) = 5 /\ Fields(sel) = {"From"}
    /\ Stage("spam") = 6 /\ Fields("spam") = {"X-Spam-Flag"}
    /\ Stage("own") = 7 /\ Fields("own") = {"To", "Cc"}
    /\ Stage("unsorted") = 8 /\ Fields("unsorted") = {}
BY DEF Stage, Fields, FromSelectors, ToSelectors

\* What the import reads from the test of a rule in the block of its stage (rule of
\* import.c) is the selector and the predicate that the rule was written with: no two
\* selectors are emitted alike, and no test is refused or taken for another's.
THEOREM ImportReadsBack ==
    ASSUME NEW pr, NEW sel \in Selectors \ {"unsorted"}, NEW logical, NEW p,
           sel \in {"from-domain", "to-domain", "known-domain"} => p.wild \in BOOLEAN,
           sel \in {"bounce", "spam"} => p = Builtin(sel)
    PROVE  /\ Selector(Stage(sel), Test(pr, Rule(sel, p, logical))) = sel
           /\ Test(pr, Rule(sel, p, logical)).key = p
<1> DEFINE t == Test(pr, Rule(sel, p, logical))
<1>1. t.key = p /\ t.fields = Fields(sel)
  BY DEF Test, Rule
<1>2. CASE sel \in Contacts \cup {"from-address", "to-address"}
  <2>1. Kind(sel, p) = "address"
    BY <1>2 DEF Kind, Contacts
  <2>2. t.on = "address" /\ t.part = "all" /\ t.match = "is"
    BY <2>1 DEF Test, Rule
  <2> HIDE DEF t
  <2>3. sel = "own" => Selector(Stage(sel), t) = sel
    BY StagesAndFields, <1>1, <2>2 DEF Selector, FromSelectors, ToSelectors
  <2>4. sel = "known" => Selector(Stage(sel), t) = sel
    BY StagesAndFields, <1>1, <2>2 DEF Selector, FromSelectors, ToSelectors
  <2>5. sel = "blacklist" => Selector(Stage(sel), t) = sel
    BY StagesAndFields, <1>1, <2>2 DEF Selector, FromSelectors, ToSelectors
  <2>6. sel = "from-address" => Selector(Stage(sel), t) = sel
    BY StagesAndFields, <1>1, <2>2 DEF Selector, FromSelectors, ToSelectors
  <2>7. sel = "to-address" => Selector(Stage(sel), t) = sel
    BY StagesAndFields, <1>1, <2>2 DEF Selector, FromSelectors, ToSelectors
  <2> QED
    BY <1>1, <1>2, <2>3, <2>4, <2>5, <2>6, <2>7 DEF Contacts, t
<1>3. CASE sel \in {"from-domain", "to-domain", "known-domain"}
  <2>1. Kind(sel, p) = IF p.wild THEN "domain-subdomains" ELSE "domain-apex"
    BY <1>3 DEF Kind, Contacts
  <2>2. p.wild \in BOOLEAN
    BY <1>3
  <2>3. t.on = "address" /\ t.part = "domain" /\ t.match = (IF p.wild THEN "matches" ELSE "is")
    BY <2>1, <2>2 DEF Test, Rule
  <2>4. t.match \in {"is", "matches"} /\ (t.match = "matches") = t.key.wild
    BY <1>1, <2>2, <2>3
  <2> HIDE DEF t
  <2>6. sel = "from-domain" => Selector(Stage(sel), t) = sel
    BY StagesAndFields, <1>1, <2>3, <2>4 DEF Selector, FromSelectors, ToSelectors
  <2>7. sel = "to-domain" => Selector(Stage(sel), t) = sel
    BY StagesAndFields, <1>1, <2>3, <2>4 DEF Selector, FromSelectors, ToSelectors
  <2>8. sel = "known-domain" => Selector(Stage(sel), t) = sel
    BY StagesAndFields, <1>1, <2>3, <2>4 DEF Selector, FromSelectors, ToSelectors
  <2> QED
    BY <1>1, <1>3, <2>6, <2>7, <2>8 DEF t
<1>4. CASE sel \in {"from", "to"}
  <2>1. Kind(sel, p) = "ere"
    BY <1>4 DEF Kind, Contacts
  <2>2. t.on = "address" /\ t.part = "all" /\ t.match = "regex"
    BY <2>1 DEF Test, Rule
  <2> HIDE DEF t
  <2>3. sel = "from" => Selector(Stage(sel), t) = sel
    BY StagesAndFields, <1>1, <2>2 DEF Selector, FromSelectors, ToSelectors
  <2>4. sel = "to" => Selector(Stage(sel), t) = sel
    BY StagesAndFields, <1>1, <2>2 DEF Selector, FromSelectors, ToSelectors
  <2> QED
    BY <1>1, <1>4, <2>3, <2>4 DEF t
<1>5. CASE sel = "bounce"
  <2>1. Kind(sel, p) = "sender-contains"
    BY <1>5 DEF Kind, Contacts
  <2>2. t.on = "header" /\ t.match = "contains"
    BY <2>1 DEF Test, Rule
  <2> HIDE DEF t
  <2>3. Selector(Stage(sel), t) = sel
    BY StagesAndFields, <1>1, <1>5, <2>2 DEF Selector, Builtin
  <2> QED
    BY <1>1, <2>3 DEF t
<1>6. CASE sel = "spam"
  <2>1. Kind(sel, p) = "spam-is"
    BY <1>6 DEF Kind, Contacts
  <2>2. t.on = "header" /\ t.match = "is"
    BY <2>1 DEF Test, Rule
  <2> HIDE DEF t
  <2>3. Selector(Stage(sel), t) = sel
    BY StagesAndFields, <1>1, <1>6, <2>2 DEF Selector, Builtin
  <2> QED
    BY <1>1, <2>3 DEF t
<1> QED
  BY <1>2, <1>3, <1>4, <1>5, <1>6 DEF Selectors, FromSelectors, ToSelectors

-----------------------------------------------------------------------------
(* The cache against the policy *)

\* What a selector's predicate is after normalisation.
Normal(sel, q) ==
    /\ sel \in Contacts \cup {"from-address", "to-address", "from-domain", "to-domain", "known-domain"} =>
          q.form = "plain"
    /\ sel \in {"from-domain", "to-domain", "known-domain"} => q.wild \in BOOLEAN

Appended(r) ==
    \E q, l : \E sel \in Selectors : r = Rule(sel, q, l) /\ Normal(sel, q)

\* The kind, stage and fields of a rule are one of the combinations that the table of
\* jf_cache_validate lists.
LEMMA TableAgrees ==
    ASSUME NEW sel \in Selectors, NEW q, Normal(sel, q)
    PROVE  /\ sel = "blacklist" => Kind(sel, q) = "address"
           /\ sel \in {"known", "own", "from-address", "to-address"} => Kind(sel, q) = "address"
           /\ sel \in {"from-domain", "to-domain", "known-domain"} => Kind(sel, q) \in {"domain-apex", "domain-subdomains"}
           /\ sel \in {"from", "to"} => Kind(sel, q) = "ere"
           /\ sel = "bounce" => Kind(sel, q) = "sender-contains"
           /\ sel = "spam" => Kind(sel, q) = "spam-is"
           /\ sel = "unsorted" => Kind(sel, q) = "always"
BY DEF Kind, Contacts, Normal

\* The cache that is built from a policy in the resolver's order, with the fallback last,
\* passes the validation of every record (jf_cache_validate): the table of policy.c that
\* gives a selector its kind, stage and fields, and the table of cache.c that says which
\* of them go together, agree on every selector, so no record a compile writes is refused.
THEOREM OwnRecordsAccepted ==
    ASSUME NEW pr, NEW p, DOMAIN p = 1..Len(p), Len(p) \in Nat,
           \A i \in DOMAIN p : Appended(p[i]) /\ Exportable(pr, p[i]),
           \A i \in DOMAIN p : i > 1 => p[i - 1].stage <= p[i].stage,
           \A i \in DOMAIN p : p[i].kind = "always" => i = Len(p)
    PROVE  \A i \in DOMAIN p : RecordValid(CacheOf(p, pr), i)
<1> DEFINE c == CacheOf(p, pr)
<1> SUFFICES ASSUME NEW i \in DOMAIN p PROVE RecordValid(c, i)
  OBVIOUS
<1>1. c.regex = pr.regex /\ DOMAIN c.rules = 1..Len(p) /\ Len(c.rules) = Len(p)
  BY DEF CacheOf
<1>2. \A j \in DOMAIN p : /\ c.rules[j].ordinal = j /\ c.rules[j].stage = p[j].stage
                          /\ c.rules[j].kind = p[j].kind /\ c.rules[j].fields = p[j].fields
                          /\ c.rules[j].predicate = p[j].predicate
  BY DEF CacheOf
<1> HIDE DEF c
<1> DEFINE r == c.rules[i]
           at(k, f) == r.stage = k /\ r.fields = f
<1>3. PICK q, l : \E sel \in Selectors : p[i] = Rule(sel, q, l) /\ Normal(sel, q)
  BY DEF Appended
<1>4. PICK sel \in Selectors : p[i] = Rule(sel, q, l) /\ Normal(sel, q)
  BY <1>3
<1>5. r.kind = Kind(sel, q) /\ r.stage = Stage(sel) /\ r.fields = Fields(sel) /\ r.predicate = q
  BY <1>2, <1>4 DEF Rule
<1>6. r.ordinal = i /\ (i > 1 => c.rules[i - 1].stage <= r.stage)
  BY <1>2
<1>7. r.kind = "always" => i = Len(c.rules)
  BY <1>1, <1>2
<1>8. r.kind = "ere" => c.regex /\ r.predicate.supported
  BY <1>1, <1>2 DEF Exportable
<1> HIDE DEF r
<1>9. CASE sel \in {"blacklist", "known", "own", "from-address", "to-address"}
  <2>1. r.kind = "address" /\ r.predicate.form = "plain"
    BY <1>4, <1>5, <1>9, TableAgrees DEF Normal, Contacts
  <2>2. \/ at(1, {"From"}) \/ at(3, {"From", "Sender"}) \/ at(4, {"To", "Cc"})
        \/ at(5, {"From"}) \/ at(7, {"To", "Cc"})
    BY <1>5, <1>9, StagesAndFields DEF FromSelectors, ToSelectors
  <2> QED
    BY <1>6, <2>1, <2>2 DEF RecordValid, r
<1>10. CASE sel \in {"from-domain", "to-domain", "known-domain"}
  <2>1. r.kind \in {"domain-apex", "domain-subdomains"} /\ r.predicate.form = "plain"
    BY <1>4, <1>5, <1>10, TableAgrees DEF Normal, Contacts
  <2>2. at(3, {"From", "Sender"}) \/ at(4, {"To", "Cc"}) \/ at(5, {"From"})
    BY <1>5, <1>10, StagesAndFields DEF FromSelectors, ToSelectors
  <2> QED
    BY <1>6, <2>1, <2>2 DEF RecordValid, r
<1>11. CASE sel \in {"from", "to"}
  <2>1. r.kind = "ere"
    BY <1>4, <1>5, <1>11, TableAgrees
  <2>2. at(3, {"From", "Sender"}) \/ at(4, {"To", "Cc"})
    BY <1>5, <1>11, StagesAndFields DEF FromSelectors, ToSelectors
  <2> QED
    BY <1>6, <1>8, <2>1, <2>2 DEF RecordValid, r
<1>12. CASE sel \in {"bounce", "spam", "unsorted"}
  <2>1. \/ r.kind = "sender-contains" /\ r.stage = 2 /\ r.fields = {"Sender"}
        \/ r.kind = "spam-is" /\ r.stage = 6 /\ r.fields = {"X-Spam-Flag"}
        \/ r.kind = "always" /\ r.stage = 8 /\ r.fields = {}
    BY <1>4, <1>5, <1>12, TableAgrees, StagesAndFields
  <2> QED
    BY <1>6, <1>7, <2>1 DEF RecordValid, r
<1> QED
  BY <1>9, <1>10, <1>11, <1>12 DEF Selectors, Contacts, FromSelectors, ToSelectors

\* The policy that a batch restores from the cache, which has no selectors, decides as the
\* compiled one does: the builtins are at the same places, every address improves the
\* decision to the same rule, every rule is for the same messages, and a decision files in
\* the mailbox that the record names.
THEOREM CacheDecidesAlike ==
    ASSUME NEW pr, NEW p
    PROVE  LET q == Restore(CacheOf(p, pr)) IN
           /\ DOMAIN q = DOMAIN p
           /\ \A kind : Position(q, kind) = Position(p, kind)
           /\ \A best, entry : Improve(q, best, entry) = Improve(p, best, entry)
           /\ \A i \in DOMAIN p : /\ \A m : Matches(q[i], m) <=> Matches(p[i], m)
                                  /\ MailboxOf(pr, q[i]) = CacheOf(p, pr).rules[i].mailbox
<1> DEFINE q == Restore(CacheOf(p, pr))
<1>1. DOMAIN q = DOMAIN p
  BY DEF Restore, CacheOf
<1>2. \A i \in DOMAIN p : /\ q[i].kind = p[i].kind /\ q[i].fields = p[i].fields
                          /\ q[i].predicate = p[i].predicate /\ q[i].logical = p[i].logical
  BY DEF Restore, CacheOf
<1>3. \A i \in DOMAIN p : CacheOf(p, pr).rules[i].mailbox = MailboxOf(pr, p[i])
  BY DEF CacheOf
<1> HIDE DEF q
<1>4. \A kind : Position(q, kind) = Position(p, kind)
  BY <1>1, <1>2 DEF Position
<1>5. \A kind : Bucket(q, kind) = Bucket(p, kind)
  BY <1>1, <1>2 DEF Bucket
<1>6. ASSUME NEW found, found \subseteq DOMAIN p, NEW field, NEW best
      PROVE  Lookup(q, found, field, best) = Lookup(p, found, field, best)
  <2>1. {i \in found : field \in q[i].fields} = {i \in found : field \in p[i].fields}
    BY <1>2, <1>6
  <2> QED
    BY <2>1 DEF Lookup
<1>7. ASSUME NEW best, NEW entry PROVE Improve(q, best, entry) = Improve(p, best, entry)
  <2> DEFINE a == Plain(entry.address)
             exact(x) == {i \in Bucket(x, "address") : Box(x[i].predicate) = Box(a)}
             same(x) == {i \in Bucket(x, "domain-apex") : x[i].predicate.domain = a.domain}
             above(x) == {i \in Bucket(x, "domain-subdomains") : x[i].predicate.domain \in Parents(a.domain)}
             matched(x) == {i \in Bucket(x, "ere") : Box(a) \in x[i].predicate.matches}
  <2>1. \A kind : Bucket(p, kind) \subseteq DOMAIN p
    BY DEF Bucket
  <2>2. exact(q) = exact(p) /\ same(q) = same(p) /\ above(q) = above(p) /\ matched(q) = matched(p)
    BY <1>2, <1>5, <2>1
  <2>3. exact(p) \subseteq DOMAIN p /\ same(p) \subseteq DOMAIN p /\ above(p) \subseteq DOMAIN p /\ matched(p) \subseteq DOMAIN p
    BY <2>1
  <2>4. \A x : Improve(x, best, entry) =
                 Lookup(x, matched(x), entry.field, Lookup(x, above(x), entry.field,
                   Lookup(x, same(x), entry.field, Lookup(x, exact(x), entry.field, best))))
    BY DEF Improve, Wider, Exact
  <2> HIDE DEF exact, same, above, matched
  <2> QED
    BY <1>6, <2>2, <2>3, <2>4
<1>8. ASSUME NEW i \in DOMAIN p
      PROVE  /\ \A m : Matches(q[i], m) <=> Matches(p[i], m)
             /\ MailboxOf(pr, q[i]) = CacheOf(p, pr).rules[i].mailbox
  <2>1. q[i].kind = p[i].kind /\ q[i].fields = p[i].fields /\ q[i].predicate = p[i].predicate /\ q[i].logical = p[i].logical
    BY <1>2
  <2>2. \A m : Matches(q[i], m) <=> Matches(p[i], m)
    BY <2>1 DEF Matches
  <2> QED
    BY <1>3, <2>1, <2>2 DEF MailboxOf
<1> QED
  BY <1>1, <1>4, <1>7, <1>8 DEF q
=============================================================================
