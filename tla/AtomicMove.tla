------------------------------ MODULE AtomicMove ------------------------------
(***************************************************************************)
(* What jf_storage_move (src/src/filter/storage.c) promises its caller,    *)
(* without staging, publication, claims and rollback: a message is in its  *)
(* source or has moved, the change takes one step of one mover, and a      *)
(* mover that reports success made it.                                     *)
(***************************************************************************)
CONSTANTS Files, Movers

VARIABLES
    place,  \* per message: "none" yet, "here", "there", or "gone" by a client's doing
    moves,  \* the movers that moved a message
    result  \* per mover: "busy", "moved", "noop", "failed" or "killed"

vars == <<place, moves, result>>

Init ==
    /\ place \in [Files -> {"none", "here"}]
    /\ moves = {}
    /\ result = [p \in Movers |-> "busy"]

Deliver(f) ==
    /\ place[f] = "none"
    /\ place' = [place EXCEPT ![f] = "here"]
    /\ UNCHANGED <<moves, result>>

\* One message moves, or it is one that a client has just disposed of.
Move(p) ==
    /\ p \notin moves /\ result[p] = "busy"
    /\ \E f \in Files : \/ place[f] = "here" /\ place' = [place EXCEPT ![f] = "there"]
                        \/ place[f] = "gone" /\ UNCHANGED place
    /\ moves' = moves \cup {p}
    /\ UNCHANGED result

\* A client deletes the message, in its source or where it has moved, or edits it too
\* late for the mover to notice.
Dispose(f) ==
    /\ place[f] \in {"here", "there"}
    /\ place' = [place EXCEPT ![f] = "gone"]
    /\ UNCHANGED <<moves, result>>

End(p) ==
    /\ result[p] = "busy"
    /\ \E r \in {"moved", "noop", "failed", "killed"} :
         /\ r = "moved" => p \in moves
         /\ r = "noop" => p \notin moves
         /\ result' = [result EXCEPT ![p] = r]
    /\ UNCHANGED <<place, moves>>

Next ==
    \/ \E p \in Movers : End(p) \/ Move(p)
    \/ \E f \in Files : Deliver(f) \/ Dispose(f)

Spec == Init /\ [][Next]_vars
=============================================================================
