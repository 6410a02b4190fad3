SPECIFICATION Spec
CONSTANTS
    FilterLines <- MCLines
    MaxLines = 2
    Books <- MCBooks
    Profiles <- MCProfiles
    Messages <- MCMessages
    RuleMax = 5
    Malformed = Malformed
    None = None
INVARIANTS FirstMatch ImportFaithful MergeKeeps
CHECK_DEADLOCK FALSE
