SPECIFICATION Spec
CONSTANTS
    f1 = f1
    f2 = f2
    v1 = v1
    v2 = v2
    p = p
    q = q
    None = None
    Movers = {p, q}
    Files = {f1, f2}
    Versions = {v1, v2}
    Names <- TwoNames
    Dirs <- MCDirs
    DirOf <- TwoDirOf
    Dest <- MCDest
    Src <- SrcShared
    Candidate <- MCCandidate
    MailInit <- TwoMailInit
    Retries = 2
    MaxClientOps = 1
INVARIANT MovedOnce
PROPERTY MovesAtomically
SYMMETRY MoverSymmetry
