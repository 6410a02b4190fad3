SPECIFICATION Spec
CONSTANTS
    Procs = {s1, s2, o1}
    Senders = {s1, s2}
    Others = {o1}
    Paths = {"outbox", "alias", "loop"}
    Links <- MCLinks
    OtherPaths = {"alias", "loop"}
    OtherOptions <- MCOptions
    Outbox = "outbox"
    File = File
    MaxLinks = 2
    HardMax = 2
    None = None
    Stale = Stale
    Cut = Cut
    Mails = {1, 2}
    MaxMishaps = 1
    MaxAsks = 1
INVARIANTS TypeOK LockedMeansOwned LockAccounted MarkerKept SentOnce Filed
SYMMETRY SenderSymmetry
