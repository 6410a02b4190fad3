------------------------------ MODULE MCPolicy -------------------------------
(***************************************************************************)
(* An instance of Policy: a domain and a subdomain with a mailbox in each, *)
(* rules of every kind that compete for them, destinations that may meet   *)
(* in one mailbox, and profiles with each kind of separator and mapping.   *)
(***************************************************************************)
EXTENDS Policy

X == <<"x">>
MX == <<"m", "x">>
Ann(form) == [local |-> "ann", domain |-> MX, form |-> form]
Bob(form) == [local |-> "bob", domain |-> X, form |-> form]
Domain(wild, form) == [domain |-> X, wild |-> wild, form |-> form]
Expression(supported) == [matches |-> {Box(Ann("plain"))}, supported |-> supported]

Line(selector, predicate, logical) == [selector |-> selector, predicate |-> predicate, logical |-> logical]

MCLines ==
    {Line("from-domain", Domain(FALSE, "upper"), <<"l">>),
     Line("from-domain", Domain(FALSE, "plain"), <<"l", "/", "a">>),
     Line("from-domain", Domain(TRUE, "plain"), <<"l", ".", "a">>),
     Line("from-address", Ann("quoted"), <<"l", "/", "a">>),
     Line("from", Expression(TRUE), <<"l">>),
     Line("to", Expression(FALSE), <<"l">>),
     Line("to-domain", Domain(FALSE, "plain"), Known),
     Line("known-domain", Domain(TRUE, "plain"), None),
     Malformed}

Book(account, aliases, known, blacklist) ==
    [account |-> account, aliases |-> aliases, known |-> known, blacklist |-> blacklist]

MCBooks ==
    {Book(<<Bob("upper")>>, <<Bob("plain")>>, <<Ann("plain"), Ann("upper")>>, <<>>),
     Book(<<>>, <<Ann("plain")>>, <<>>, <<Bob("plain")>>)}

MCProfiles ==
    {[prefix |-> <<>>, separator |-> <<"/">>, mappings |-> <<>>, create |-> TRUE, regex |-> TRUE],
     [prefix |-> <<"INBOX", ".">>, separator |-> <<".">>, mappings |-> <<>>, create |-> FALSE, regex |-> FALSE],
     [prefix |-> <<>>, separator |-> <<"/">>, create |-> TRUE, regex |-> TRUE,
      mappings |-> [d \in {<<"l">>, Known} |-> IF d = Known THEN <<"k">> ELSE <<"l", "/", "a">>]]}

Entry(field, address) == [field |-> field, address |-> address]

MCMessages ==
    {[addresses |-> as, bounce |-> b, spam |-> s] :
       as \in {<<Entry(f, a)>> : f \in {"From", "Sender", "Cc"}, a \in {Ann("upper"), Bob("quoted")}}
              \cup {<<Entry("To", Bob("plain")), Entry("From", Ann("plain"))>>},
       b \in BOOLEAN, s \in BOOLEAN}
=============================================================================
