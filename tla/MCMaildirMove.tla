--------------------------- MODULE MCMaildirMove ---------------------------
(***************************************************************************)
(* Instances of MaildirMove: a source directory with the names s1 and s2   *)
(* and a destination directory with the names d1 and d2.  The message f1   *)
(* is at s1 from the start.  Publication tries d1, the source's own        *)
(* basename, then the alternate d2; s2 is a name only clients use.         *)
(***************************************************************************)
EXTENDS MaildirMoveAtomic, TLC

CONSTANTS f1, f2, v1, v2, p, q

MCNames == {"s1", "s2", "d1", "d2"}
MCDirs == {"src", "dst"}
MCDirOf == [n \in MCNames |-> IF n \in {"s1", "s2"} THEN "src" ELSE "dst"]
MCDest == [r \in Movers |-> "dst"]
MCCandidate == [r \in Movers |-> [k \in 0..1 |-> IF k = 0 THEN "d1" ELSE "d2"]]
MCMailInit == [n \in MCNames |-> IF n = "s1" THEN f1 ELSE None]

\* Every mover has the same source; s2 is left out.
TwoNames == {"s1", "d1", "d2"}
TwoDirOf == [n \in TwoNames |-> MCDirOf[n]]
TwoMailInit == [n \in TwoNames |-> MCMailInit[n]]
SrcShared == [r \in Movers |-> "s1"]

\* Contents are interchangeable, and so are movers that share their source.
MoverSymmetry == Permutations(Versions) \cup Permutations(Movers)

============================================================================
