------------------------------ MODULE MCOutbox -------------------------------
(***************************************************************************)
(* An instance of Outbox: the other user of the lock knows the outbox by a *)
(* symbolic link, and also meets a link that leads to itself.              *)
(***************************************************************************)
EXTENDS Outbox, TLC

MCLinks == [outbox |-> File, alias |-> "outbox", loop |-> "loop"]

\* A patient user, one whose retries exceed the attempts made, and one that forces.
MCOptions == {[retry |-> 1, force |-> FALSE], [retry |-> 2, force |-> FALSE],
              [retry |-> 0, force |-> TRUE]}

SenderSymmetry == Permutations(Senders)
=============================================================================
