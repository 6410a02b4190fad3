SPECIFICATION Spec
CONSTANTS
    Procs = {p1, p2}
    Readers = {r1}
    Kinds = {"compile"}
    NInputs = 1
    Versions = {1, 2}
    Imported = 2
    Editable = {1}
    None = None
    Legacy = Legacy
    Torn = Torn
    MaxFaults = 0
    MaxKills = 1
    MaxPower = 0
    Orders = {"global"}
    CommitSyncFails = {}
INVARIANTS TypeOK Fresh
PROPERTIES PinsSettled PublishesAtomically
SYMMETRY ProcSymmetry
