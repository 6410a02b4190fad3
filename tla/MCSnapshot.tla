----------------------------- MODULE MCSnapshot ------------------------------
(***************************************************************************)
(* An instance of Snapshot: a required input, one account file, an         *)
(* optional profile and two address books; an import writes the required   *)
(* input and the first book.                                               *)
(***************************************************************************)
EXTENDS Snapshot

MCPlain == <<"filters">>
MCLate == <<"profile">>
MCAccounts == <<"account">>
MCBooks == <<"whitelist", "blacklist">>
=============================================================================
