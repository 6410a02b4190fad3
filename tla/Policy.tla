------------------------------- MODULE Policy -------------------------------
(***************************************************************************)
(* The filter policy from its sources to a decision, and back: parsing and *)
(* resolution (src/src/filter/policy.c), the classifier (classify.c), the  *)
(* mailbox names (profile.c), the Sieve script (emit.c), the cache a batch *)
(* loads (cache.c), and the import and merge of a script (import.c).       *)
(*                                                                         *)
(* A domain is the sequence of its labels.  An address or a domain has a   *)
(* form, of which "plain" is what normalisation and case folding leave;    *)
(* that of a wildcard domain has wild set.  A regular expression is the    *)
(* set of mailboxes it matches.  A destination, and a mailbox name of the  *)
(* server, is a sequence of components and separators, "/" and ".".        *)
(***************************************************************************)
EXTENDS Naturals, Sequences, SequencesExt, FiniteSetsExt

CONSTANTS
    FilterLines,  \* lines of Filters.txt: selector, predicate and destination
    MaxLines,     \* how many of them there are at most
    Books,        \* account, aliases, known and blacklist: sequences of addresses
    Profiles,     \* prefix, separator, mappings, create, regex
    Messages,     \* addresses (field, address), and whether bounce and spam tests hold
    RuleMax,      \* JF_RULE_MAX
    Malformed,    \* a line that no policy may have
    None

VARIABLES
    src, prof,  \* the sources and the profile
    pol, prod,  \* what they compile to: the policy and the products
    out         \* what came of a message, or of an import

vars == <<src, prof, pol, prod, out>>

Known == <<"known">>
Fixed == [blacklist |-> <<"zz.blacklist">>, known |-> Known, own |-> <<"priv">>,
          bounce |-> <<"zz.bounces">>, spam |-> <<"spam">>, unsorted |-> <<"unsorted">>]

-----------------------------------------------------------------------------
(* Parsing *)

FromSelectors == {"from", "from-address", "from-domain"}
ToSelectors == {"to", "to-address", "to-domain"}
Contacts == {"own", "known", "blacklist"}

Kind(sel, p) ==
    CASE sel \in Contacts \cup {"from-address", "to-address"} -> "address"
      [] sel \in {"from-domain", "to-domain", "known-domain"} ->
            IF p.wild THEN "domain-subdomains" ELSE "domain-apex"
      [] sel \in {"from", "to"} -> "ere"
      [] sel = "bounce" -> "sender-contains" [] sel = "spam" -> "spam-is" [] OTHER -> "always"

Stage(sel) ==
    CASE sel = "blacklist" -> 1 [] sel = "bounce" -> 2
      [] sel \in FromSelectors -> 3 [] sel \in ToSelectors -> 4
      [] sel \in {"known", "known-domain"} -> 5
      [] sel = "spam" -> 6 [] sel = "own" -> 7 [] sel = "unsorted" -> 8

Fields(sel) ==
    CASE sel \in {"blacklist", "known", "known-domain"} -> {"From"} [] sel = "bounce" -> {"Sender"}
      [] sel \in FromSelectors -> {"From", "Sender"} [] sel \in ToSelectors \cup {"own"} -> {"To", "Cc"}
      [] sel = "spam" -> {"X-Spam-Flag"} [] sel = "unsorted" -> {}

\* jf_normalize_mailbox and fold.
Plain(p) == IF "form" \in DOMAIN p THEN [p EXCEPT !.form = "plain"] ELSE p

\* append
Rule(sel, p, logical) ==
    [selector |-> sel, predicate |-> p, logical |-> logical, kind |-> Kind(sel, p),
     stage |-> Stage(sel), fields |-> Fields(sel)]

\* parse_line
Route(line) ==
    Rule(line.selector, Plain(line.predicate),
         IF line.selector = "known-domain" THEN Known ELSE line.logical)

Text(t) == [text |-> t]

\* What the builtin tests look for.
Builtin(sel) == Text(IF sel = "bounce" THEN "mailman-bounce" ELSE "YES")

ContactRules(sel, book) == [i \in DOMAIN book |-> Rule(sel, Plain(book[i]), Fixed[sel])]

\* compare_sources, and the builtins after all sources.
Records(s) ==
    [i \in DOMAIN s.filters |-> Route(s.filters[i])]
    \o ContactRules("own", s.account \o s.aliases)
    \o ContactRules("known", s.known) \o ContactRules("blacklist", s.blacklist)
    \o <<Rule("bounce", Builtin("bounce"), Fixed.bounce), Rule("spam", Builtin("spam"), Fixed.spam),
         Rule("unsorted", Text(""), Fixed.unsorted)>>

Key(r) == <<r.selector, r.predicate>>

\* Of contacts with the same key the first is kept, of routes the last.
Kept(rs, i) ==
    \A j \in DOMAIN rs : Key(rs[j]) = Key(rs[i]) => IF rs[i].selector \in Contacts THEN i <= j ELSE j <= i

\* compare_order: by stage, addresses first in the fifth, then as they were read.
Rank(r) == IF r.stage < 5 \/ (r.stage = 5 /\ r.kind = "address") THEN r.stage ELSE r.stage + 1

Ordered(rs) == FlattenSeq([k \in 1..9 |-> SelectSeq(rs, LAMBDA r : Rank(r) = k)])

\* jf_policy_parse and resolve; None where they fail.
Parse(s) ==
    LET rs == Records(s)
        index == SelectSeq([i \in DOMAIN rs |-> i], LAMBDA i : Kept(rs, i))
        kept == [k \in DOMAIN index |-> rs[index[k]]]
    IN IF Malformed \in Range(s.filters) \/ Len(kept) - 3 > RuleMax THEN None ELSE Ordered(kept)

-----------------------------------------------------------------------------
(* Classification *)

Position(p, kind) == CHOOSE i \in DOMAIN p : p[i].kind = kind

Bucket(p, kind) == {i \in DOMAIN p : p[i].kind = kind}

\* lookup, and the ordered scan of expressions: the first of the rules with the key that
\* has the field, if it is before the best one so far.
Lookup(p, found, field, best) == Min({best} \cup {i \in found : field \in p[i].fields})

Parents(d) == {SubSeq(d, i, Len(d)) : i \in 2..Len(d)}
Box(a) == [local |-> a.local, domain |-> a.domain]

Exact(p, best, entry) ==
    LET a == Plain(entry.address) IN
    Lookup(p, {i \in Bucket(p, "address") : Box(p[i].predicate) = Box(a)}, entry.field, best)

\* Apex, strict suffix and expression rules for the address, after its exact ones.
Wider(p, best, entry) ==
    LET a == Plain(entry.address)
        same == {i \in Bucket(p, "domain-apex") : p[i].predicate.domain = a.domain}
        above == {i \in Bucket(p, "domain-subdomains") : p[i].predicate.domain \in Parents(a.domain)}
        matched == {i \in Bucket(p, "ere") : Box(a) \in p[i].predicate.matches}
    IN Lookup(p, matched, entry.field,
              Lookup(p, above, entry.field, Lookup(p, same, entry.field, best)))

\* Fault: an address with a rule of its own is looked up no further.
ImproveExactFirst(p, best, entry) ==
    IF Exact(p, best, entry) < best THEN Exact(p, best, entry) ELSE Wider(p, best, entry)

\* One address of the message against all rules.
Improve(p, best, entry) == Wider(p, Exact(p, best, entry), entry)

\* jf_policy_classify
Classify(p, m) ==
    LET fallback == Position(p, "always")
        bounce == IF m.bounce THEN Position(p, "sender-contains") ELSE fallback
        spam == IF m.spam THEN Min({Position(p, "spam-is"), bounce}) ELSE bounce
    IN FoldLeft(LAMBDA best, entry : Improve(p, best, entry), spam, m.addresses)

-----------------------------------------------------------------------------
(* Mailbox names and the script *)

\* jf_profile_mailbox
Mailbox(pr, logical, kind) ==
    IF logical \in DOMAIN pr.mappings THEN pr.mappings[logical]
    ELSE IF logical = Known THEN <<"INBOX">>
    ELSE IF kind = "spam-is" THEN <<"Spam">>
    ELSE pr.prefix \o FlattenSeq([i \in DOMAIN logical |->
                                    IF logical[i] = "/" THEN pr.separator ELSE <<logical[i]>>])

MailboxOf(pr, r) == Mailbox(pr, r.logical, r.kind)

\* The test that jf_emit_text writes for a rule.
Test(pr, r) ==
    [on |-> IF r.kind \in {"sender-contains", "spam-is"} THEN "header" ELSE "address",
     part |-> CASE r.kind \in {"address", "ere"} -> "all"
                [] r.kind \in {"domain-apex", "domain-subdomains"} -> "domain" [] OTHER -> "none",
     match |-> CASE r.kind \in {"address", "domain-apex", "spam-is"} -> "is"
                 [] r.kind = "domain-subdomains" -> "matches"
                 [] r.kind = "ere" -> "regex" [] r.kind = "sender-contains" -> "contains",
     fields |-> r.fields, key |-> r.predicate, mailbox |-> MailboxOf(pr, r), create |-> pr.create]

Exportable(pr, r) == r.kind = "ere" => pr.regex /\ r.predicate.supported

\* jf_emit_text: seven stage blocks and the fallback.
Emit(p, pr) ==
    [require |-> {"fileinto"} \cup (IF pr.create THEN {"mailbox"} ELSE {})
                 \cup (IF \E r \in Range(p) : r.kind = "ere" THEN {"regex"} ELSE {}),
     stage |-> [k \in 1..7 |->
                  LET rs == SelectSeq(p, LAMBDA r : r.stage = k) IN [i \in DOMAIN rs |-> Test(pr, rs[i])]],
     fallback |-> MailboxOf(pr, p[Len(p)])]

\* The server: the first test that holds files the message.
Holds(t, m) ==
    CASE t.on = "header" /\ t.match = "contains" -> m.bounce
      [] t.on = "header" /\ t.match = "is" -> m.spam
      [] OTHER -> \E i \in DOMAIN m.addresses :
            LET a == m.addresses[i].address IN
            /\ m.addresses[i].field \in t.fields
            /\ CASE t.match = "regex" -> Box(a) \in t.key.matches
                 [] t.part = "all" /\ t.match = "is" -> Box(a) = Box(t.key)
                 [] t.part = "domain" /\ t.match = "is" -> a.domain = t.key.domain
                 [] t.match = "matches" -> t.key.domain \in Parents(a.domain)

RunSieve(script, m) ==
    LET hits == SelectSeq(FlattenSeq(script.stage), LAMBDA t : Holds(t, m))
    IN IF hits = <<>> THEN script.fallback ELSE Head(hits).mailbox

-----------------------------------------------------------------------------
(* Products and cache *)

\* R records: no selector.
CacheOf(p, pr) ==
    [regex |-> pr.regex,
     rules |-> [i \in DOMAIN p |-> [ordinal |-> i, stage |-> p[i].stage, kind |-> p[i].kind,
                                    fields |-> p[i].fields, predicate |-> p[i].predicate,
                                    logical |-> p[i].logical, mailbox |-> MailboxOf(pr, p[i])]]]

\* jf_cache_validate: what a record of each kind may be.
RecordValid(c, i) ==
    LET r == c.rules[i]
        at(k, f) == r.stage = k /\ r.fields = f
    IN
    /\ r.ordinal = i /\ (i > 1 => c.rules[i - 1].stage <= r.stage)
    /\ CASE r.kind = "address" ->
              /\ r.predicate.form = "plain"
              /\ at(1, {"From"}) \/ at(3, {"From", "Sender"}) \/ at(4, {"To", "Cc"})
                 \/ at(5, {"From"}) \/ at(7, {"To", "Cc"})
         [] r.kind \in {"domain-apex", "domain-subdomains"} ->
              /\ r.predicate.form = "plain"
              /\ at(3, {"From", "Sender"}) \/ at(4, {"To", "Cc"}) \/ at(5, {"From"})
         [] r.kind = "ere" ->
              /\ c.regex /\ r.predicate.supported
              /\ at(3, {"From", "Sender"}) \/ at(4, {"To", "Cc"})
         [] r.kind = "sender-contains" -> at(2, {"Sender"})
         [] r.kind = "spam-is" -> at(6, {"X-Spam-Flag"})
         [] r.kind = "always" -> at(8, {}) /\ i = Len(c.rules)

Valid(c) ==
    /\ \A i \in DOMAIN c.rules : RecordValid(c, i)
    /\ \A kind \in {"sender-contains", "spam-is", "always"} :
         Cardinality({i \in DOMAIN c.rules : c.rules[i].kind = kind}) = 1

\* jf_policy_restore: no resolution, and nothing is parsed again.
Restore(c) ==
    [i \in DOMAIN c.rules |->
       LET r == c.rules[i] IN
       [selector |-> "", predicate |-> r.predicate, logical |-> r.logical, kind |-> r.kind,
        stage |-> r.stage, fields |-> r.fields]]

\* Two destinations of the policy have the same mailbox.
Collide(p, pr) ==
    \E i, j \in DOMAIN p : MailboxOf(pr, p[i]) = MailboxOf(pr, p[j]) /\ p[i].logical # p[j].logical

\* jf_products_build; None where a rule cannot be exported.  It validates what it built.
Build(p, pr) ==
    IF p = None THEN None
    ELSE IF Collide(p, pr) \/ \E r \in Range(p) : ~Exportable(pr, r) THEN None
    ELSE [script |-> Emit(p, pr), cache |-> CacheOf(p, pr), valid |-> Valid(CacheOf(p, pr))]

-----------------------------------------------------------------------------
(* Import *)

MappingIs(pr, mailbox, logical, kind) == Mailbox(pr, logical, kind) = mailbox

Occurs(s, t) == t # <<>> /\ \E i \in 0..(Len(s) - Len(t)) : SubSeq(s, i + 1, i + Len(t)) = t

\* unmap: the destination a route's mailbox stands for, None where there are several
\* or none.  A separator other than "/" must not occur, so the rest is taken literally.
Unmap(pr, mailbox) ==
    LET named == {k \in DOMAIN pr.mappings \cup {Known} : MappingIs(pr, mailbox, k, "address")}
        name == IF named = {} THEN None ELSE CHOOSE k \in named : TRUE
        rest == SubSeq(mailbox, Len(pr.prefix) + 1, Len(mailbox))
    IN
    IF Cardinality(named) > 1 THEN None
    ELSE IF pr.separator = <<>> \/ ~IsPrefix(pr.prefix, mailbox) THEN name
    ELSE IF pr.separator # <<"/">> /\ Occurs(rest, pr.separator) THEN name
    ELSE IF named = {} THEN rest
    ELSE IF MappingIs(pr, mailbox, rest, "address") /\ name # rest THEN None ELSE name

\* rule: the selector of a test in stage k, None for one that does not belong there.
Selector(k, t) ==
    LET typed(address, domain, ere) ==
            IF t.part = "all" /\ t.match = "is" THEN address
            ELSE IF t.part = "domain" /\ t.match \in {"is", "matches"} /\ (t.match = "matches") = t.key.wild
                 THEN domain
            ELSE IF t.part = "all" /\ t.match = "regex" THEN ere ELSE None
    IN
    IF t.on = "header" THEN
        IF k = 2 /\ t.match = "contains" /\ t.fields = {"Sender"} /\ t.key = Builtin("bounce") THEN "bounce"
        ELSE IF k = 6 /\ t.match = "is" /\ t.fields = {"X-Spam-Flag"} /\ t.key = Builtin("spam") THEN "spam"
        ELSE None
    ELSE CASE k = 1 /\ t.fields = {"From"} -> typed("blacklist", None, None)
           [] k = 3 /\ t.fields = {"From", "Sender"} -> typed("from-address", "from-domain", "from")
           [] k = 4 /\ t.fields = {"To", "Cc"} -> typed("to-address", "to-domain", "to")
           [] k = 5 /\ t.fields = {"From"} -> typed("known", "known-domain", None)
           [] k = 7 /\ t.fields = {"To", "Cc"} -> typed("own", None, None)
           [] OTHER -> None

IsRoute(sel) == sel \in FromSelectors \cup ToSelectors \cup {"known-domain"}

\* The mailbox is that of its stage, or a route's with a destination.
Filed(pr, k, t) ==
    LET sel == Selector(k, t) IN
    IF k \in {3, 4} THEN Unmap(pr, t.mailbox) # None
    ELSE MappingIs(pr, t.mailbox, IF sel = "known-domain" THEN Known ELSE Fixed[sel], Kind(sel, t.key))

TestsOf(script, sels) ==
    FlattenSeq([k \in 1..7 |-> SelectSeq(script.stage[k], LAMBDA t : Selector(k, t) \in sels)])

Used(script) ==
    {"fileinto"} \cup UNION {UNION {(IF t.create THEN {"mailbox"} ELSE {}) \cup
        (IF t.match = "regex" THEN {"regex"} ELSE {}) : t \in Range(script.stage[k])} : k \in 1..7}

\* The grammar: what is required, each test in its stage, both builtins, the fallback.
Generated(pr, script) ==
    /\ script.require \subseteq {"fileinto", "mailbox"} \cup (IF pr.regex THEN {"regex"} ELSE {})
    /\ Used(script) \subseteq script.require
    /\ \A k \in 1..7 : \A t \in Range(script.stage[k]) :
         Selector(k, t) # None /\ Filed(pr, k, t) /\ t.create = pr.create
    /\ Len(script.stage[2]) = 1 /\ Len(script.stage[6]) = 1
    /\ MappingIs(pr, script.fallback, Fixed.unsorted, "always")

\* The sources that the tests are written back to.
Recovered(pr, script) ==
    LET keys(sel) == LET ts == TestsOf(script, {sel}) IN [i \in DOMAIN ts |-> ts[i].key]
        route(k, t) == [selector |-> Selector(k, t), predicate |-> t.key,
                        logical |-> IF k = 5 THEN Known ELSE Unmap(pr, t.mailbox)]
        routes(k) == LET ts == SelectSeq(script.stage[k], LAMBDA t : IsRoute(Selector(k, t)))
                     IN [i \in DOMAIN ts |-> route(k, ts[i])]
    IN [filters |-> routes(3) \o routes(4) \o routes(5), account |-> <<>>, aliases |-> keys("own"),
        known |-> keys("known"), blacklist |-> keys("blacklist")]

\* Fault: what the sources resolve to is taken as it is.
CompleteAny(p, s) == TRUE

\* No rule was dropped as a duplicate.
Complete(p, s) ==
    Len(p) = 3 + Len(s.filters) + Len(s.aliases) + Len(s.known) + Len(s.blacklist)

\* jf_sieve_import
Import(pr, script) ==
    IF ~Generated(pr, script) THEN None
    ELSE LET s == Recovered(pr, script)
             p == Parse(s)
         IN IF p = None THEN None ELSE IF Complete(p, s) THEN p ELSE None

-----------------------------------------------------------------------------
(* Merge *)

Found(p, r) == {i \in DOMAIN p : p[i].stage = r.stage /\ Key(p[i]) = Key(r)}

\* Fault: a new route may go behind an existing one that the script has after it.
LaterAllowed(p, q, i, j) ==
    LET pos(x) == CHOOSE y \in Found(p, x) : TRUE IN
    Found(p, q[i]) # {} /\ Found(p, q[j]) # {} => pos(q[i]) < pos(q[j])

\* The rule q[j] can stay or go behind q[i]: nothing new precedes what exists already.
Later(p, q, i, j) ==
    LET pos(x) == CHOOSE y \in Found(p, x) : TRUE IN
    Found(p, q[j]) # {} => Found(p, q[i]) # {} /\ pos(q[i]) < pos(q[j])

\* jf_import_merge: existing rules stay, new ones are appended; None where a destination
\* differs, or the script's order of routes cannot be had.
Merge(s, p, q) ==
    LET new(sels) == SelectSeq(q, LAMBDA r : Found(p, r) = {} /\ r.selector \in sels)
        keys(sel) == LET rs == new({sel}) IN [i \in DOMAIN rs |-> rs[i].predicate]
        lines == LET rs == new({"known-domain"} \cup FromSelectors \cup ToSelectors)
                 IN [i \in DOMAIN rs |-> [selector |-> rs[i].selector, predicate |-> rs[i].predicate,
                                          logical |-> rs[i].logical]]
    IN
    IF \/ \E r \in Range(q) : \E i \in Found(p, r) : p[i].logical # r.logical \/ p[i].kind # r.kind
       \/ \E i, j \in DOMAIN q : i < j /\ q[i].stage = q[j].stage /\ IsRoute(q[i].selector)
                                 /\ IsRoute(q[j].selector) /\ ~Later(p, q, i, j)
    THEN None
    ELSE [s EXCEPT !.filters = @ \o lines, !.aliases = @ \o keys("own"),
                   !.known = @ \o keys("known"), !.blacklist = @ \o keys("blacklist")]

-----------------------------------------------------------------------------
(* A machine compiles its sources, files messages, and imports a script *)

Sources == {[filters |-> f, account |-> b.account, aliases |-> b.aliases,
             known |-> b.known, blacklist |-> b.blacklist] :
               f \in SeqOf(FilterLines, MaxLines), b \in Books}

Nothing == [what |-> "none"]

Init ==
    /\ src \in Sources /\ prof \in Profiles
    /\ pol = None /\ prod = None /\ out = Nothing

Compile ==
    /\ pol = None /\ prod = None
    /\ pol' = Parse(src)
    /\ prod' = Build(pol', prof)
    /\ pol' # None
    /\ UNCHANGED <<src, prof, out>>

\* A batch with the cache, and the server with the script, get the same message.
File(m) ==
    /\ prod # None /\ prod.valid /\ out.what = "none"
    /\ LET p == Restore(prod.cache) IN
         out' = [what |-> "filed", message |-> m, winner |-> Classify(p, m),
                 mailbox |-> MailboxOf(prof, p[Classify(p, m)]), server |-> RunSieve(prod.script, m)]
    /\ UNCHANGED <<src, prof, pol, prod>>

\* What may have become of a script: nothing; a test written twice, or moved to the
\* next stage; a builtin removed, or given another key; another machine's way to create
\* mailboxes.
Variants(script) ==
    {script, [script EXCEPT !.stage[2] = <<>>], [script EXCEPT !.stage[6][1].key = Text("NO")]}
    \cup {[script EXCEPT !.stage[k] = @ \o @] : k \in {3, 5}}
    \cup {[script EXCEPT !.stage[4] = script.stage[3] \o @, !.stage[3] = <<>>]}
    \cup {[script EXCEPT !.stage = [k \in 1..7 |-> [i \in DOMAIN script.stage[k] |->
             [script.stage[k][i] EXCEPT !.create = FALSE]]]]}

\* jf_compile_import, with a script another machine's sources gave under the same profile.
ImportScript(other) ==
    LET theirs == Build(Parse(other), prof) IN
    /\ pol # None /\ out.what = "none"
    /\ theirs # None
    /\ \E script \in Variants(theirs.script) :
         LET q == Import(prof, script)
             merged == IF q = None THEN None ELSE Merge(src, pol, q)
             result == IF merged = None THEN None ELSE Parse(merged)
         IN out' = [what |-> "imported", script |-> script, policy |-> q, merged |-> merged,
                    result |-> IF Build(result, prof) = None THEN None ELSE result]
    /\ UNCHANGED <<src, prof, pol, prod>>

Next ==
    \/ Compile
    \/ \E m \in Messages : File(m)
    \/ \E other \in Sources : ImportScript(other)

Spec == Init /\ [][Next]_vars

-----------------------------------------------------------------------------
(* Properties *)

Matches(r, m) ==
    CASE r.kind = "always" -> TRUE [] r.kind = "sender-contains" -> m.bounce [] r.kind = "spam-is" -> m.spam
      [] OTHER -> \E i \in DOMAIN m.addresses :
            LET a == m.addresses[i].address IN
            /\ m.addresses[i].field \in r.fields
            /\ CASE r.kind = "address" -> Box(r.predicate) = Box(a)
                 [] r.kind = "domain-apex" -> r.predicate.domain = a.domain
                 [] r.kind = "domain-subdomains" -> r.predicate.domain \in Parents(a.domain)
                 [] r.kind = "ere" -> Box(a) \in r.predicate.matches

\* The line of Filters.txt that a route stands for: the last of those with its key.
LastLine(s, r) ==
    s.filters[Max({i \in DOMAIN s.filters : Key(Route(s.filters[i])) = Key(r)})]

\* The indexed classifier, on the policy it loads from the cache, decides for the first
\* rule in order that the message matches, and the server that runs the script files the
\* message in that rule's mailbox: cache, index and script are one policy.  A route that
\* decides has the destination of the last line written for it.
FirstMatch ==
    out.what = "filed" =>
        /\ Matches(pol[out.winner], out.message)
        /\ \A i \in 1..(out.winner - 1) : ~Matches(pol[i], out.message)
        /\ IsRoute(pol[out.winner].selector) =>
              pol[out.winner].logical = Route(LastLine(src, pol[out.winner])).logical
        /\ out.server = out.mailbox

\* The compiler never refuses its own products, and what it accepts has one destination
\* per mailbox; a script is imported as the policy that emits it, or not at all.
ImportFaithful ==
    /\ prod # None => prod.valid
    /\ out.what = "imported" /\ out.policy # None =>
          Build(out.policy, prof) # None /\ Build(out.policy, prof).script = out.script

RoutesOf(p, k) == SelectSeq(p, LAMBDA r : r.stage = k /\ IsRoute(r.selector))

\* Of the routes of policy p those that q has too are in q's order.
Respects(p, q, k) ==
    LET keys == {Key(r) : r \in Range(q)} IN
    SelectSeq(RoutesOf(p, k), LAMBDA r : Key(r) \in keys) = RoutesOf(q, k)

\* A merge keeps every rule of the machine and every rule of the script, each with its
\* destination, and both orders of routes; to import the script again changes nothing.
MergeKeeps ==
    out.what = "imported" /\ out.result # None =>
        /\ Range(out.result) = Range(pol) \cup Range(out.policy)
        /\ \A k \in 3..5 : Respects(out.result, pol, k) /\ Respects(out.result, out.policy, k)
        /\ Merge(out.merged, out.result, out.policy) = out.merged
=============================================================================
