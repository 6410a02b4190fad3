-------------------------- MODULE MaildirMoveAtomic --------------------------
(***************************************************************************)
(* Refinement: the system calls of MaildirMove make one step of AtomicMove,*)
(* the unlinking of the claimed source.                                    *)
(***************************************************************************)
EXTENDS MaildirMove

\* A claimed message is in its source until a mover unlinks it; a rollback that links it
\* back before it leaves the claim may then hold a second link, which does not count.
Here(f) ==
    \/ Public(f)
    \/ (\E p \in Movers : claim[p] = f) /\ ~(\E p \in unlinked : source[p] = f)

\* "lost" is no state of AtomicMove.
Place(f) ==
    IF f \in disposed THEN "gone" ELSE IF f \notin live THEN "none"
    ELSE IF Here(f) THEN "here" ELSE IF Copied(f) THEN "there" ELSE "lost"

Abstract ==
    INSTANCE AtomicMove WITH
        place <- [f \in Files |-> Place(f)],
        moves <- unlinked,
        result <- [p \in Movers |-> IF pc[p] \in Ended THEN pc[p] ELSE "busy"]

\* Movers of one message, clients, failures and kills interleave, and still a message
\* leaves its source in one step with its complete copy public, by at most one mover,
\* never returns, and a mover that reports success is the one that moved it.
MovesAtomically == Abstract!Spec
=============================================================================
