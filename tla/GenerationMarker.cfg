SPECIFICATION Spec
CONSTANTS
    Procs = {p1}
    Readers = {}
    Kinds = {"compile"}
    NInputs = 1
    Versions = {1, 2}
    Imported = 2
    Editable = {}
    None = None
    Legacy = Legacy
    Torn = Torn
    MaxFaults = 1
    MaxKills = 0
    MaxPower = 1
    Orders = {"directory"}
    CommitSyncFails = {"directory"}
INVARIANT RollbackRepeatable
