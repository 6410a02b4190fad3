SPECIFICATION Spec
CONSTANTS
    Procs = {p1}
    Readers = {}
    Kinds = {"compile", "import", "legacy"}
    NInputs = 2
    Versions = {1, 2}
    Imported = 2
    Editable = {}
    None = None
    Legacy = Legacy
    Torn = Torn
    MaxFaults = 1
    MaxKills = 1
    MaxPower = 1
    Orders = {"global", "directory", "entry"}
    CommitSyncFails = {"global", "entry"}
INVARIANTS AllOrNothing SelectedComplete StagingFree
PROPERTY PublishesAtomically
