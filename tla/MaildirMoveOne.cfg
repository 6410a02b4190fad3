SPECIFICATION FairSpec
CONSTANTS
    f1 = f1
    f2 = f2
    v1 = v1
    v2 = v2
    p = p
    q = q
    None = None
    Movers = {p}
    Files = {f1, f2}
    Versions = {v1, v2}
    Names <- MCNames
    Dirs <- MCDirs
    DirOf <- MCDirOf
    Dest <- MCDest
    Src <- SrcShared
    Candidate <- MCCandidate
    MailInit <- MCMailInit
    Retries = 2
    MaxClientOps = 3
INVARIANTS TypeOK NoLoss DurableNoLoss LeftoversReported
PROPERTIES Termination NoClobber
