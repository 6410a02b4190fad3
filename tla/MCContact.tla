------------------------------ MODULE MCContact ------------------------------
(***************************************************************************)
(* An instance of Contact: no book yet, and one that has room for one      *)
(* record more and uses the last section number that is valid.             *)
(***************************************************************************)
EXTENDS Contact, TLC

Existing(id) == [id |-> id, email |-> None]

MCBooks == {None, <<Format, Existing(IdMax - 1)>>}

WriterSymmetry == Permutations(Writers)
=============================================================================
