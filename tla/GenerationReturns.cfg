SPECIFICATION FairSpec
CONSTANTS
    Procs = {p1}
    Readers = {}
    Kinds = {"compile"}
    NInputs = 1
    Versions = {1, 2}
    Imported = 2
    Editable = {1}
    None = None
    Legacy = Legacy
    Torn = Torn
    MaxFaults = 1
    MaxKills = 0
    MaxPower = 0
    Orders = {"global"}
    CommitSyncFails = {"global"}
PROPERTY Returns
