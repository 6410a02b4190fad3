-------------------------- MODULE AtomicPublication --------------------------
(***************************************************************************)
(* What the compiler transaction of src/src/filter/generation.c promises,  *)
(* without its journals, backups and markers: the selector, the public     *)
(* export and the inputs change together in one step.  view is what the    *)
(* next invocation finds once it has recovered, durable what it would find *)
(* if the power failed now, and settled what a publication that is not     *)
(* reported yet may still go back to.                                      *)
(***************************************************************************)
CONSTANTS Ids, Inputs, Versions, Legacy, None

VARIABLES view, durable, settled

vars == <<view, durable, settled>>

Init == durable = view /\ settled = view

\* A generation becomes the selected and the exported one; an import gives some inputs
\* their contents in it at the same time.
Publish ==
    /\ settled = view /\ view' # view
    /\ \E id \in Ids, changed \in SUBSET Inputs :
         view' = [sel |-> id, pub |-> id,
                  input |-> [i \in Inputs |-> IF i \in changed THEN id[i] ELSE view.input[i]]]
    /\ UNCHANGED <<durable, settled>>

\* It is reported, and on stable storage by then,
Report == settled' = view /\ durable' = view /\ UNCHANGED view

\* or it fails and everything is as it was,
Withdraw == view' = settled /\ UNCHANGED <<durable, settled>>

\* or nobody learns of it and it stands.
Stand == settled' = view /\ UNCHANGED <<view, durable>>

\* The legacy exporter has nothing but the export to change.
Export ==
    /\ view' = [view EXCEPT !.pub = Legacy] /\ settled = view /\ settled' = view'
    /\ UNCHANGED durable

\* The user's own change is durable at once.
Edit(i, v) ==
    /\ v # view.input[i]
    /\ view' = [view EXCEPT !.input[i] = v]
    /\ durable' = [durable EXCEPT !.input[i] = v]
    /\ settled' = [settled EXCEPT !.input[i] = v]

Persist == durable' \in {view, settled} /\ UNCHANGED <<view, settled>>

PowerLoss == view' = durable /\ settled' = durable /\ UNCHANGED durable

Next ==
    \/ Persist \/ Report \/ Stand \/ Withdraw \/ PowerLoss \/ Export \/ Publish
    \/ \E i \in Inputs, v \in Versions : Edit(i, v)

Spec == Init /\ [][Next]_vars
=============================================================================
