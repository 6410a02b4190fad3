SPECIFICATION Spec
CONSTANTS
    Plain <- MCPlain
    Late <- MCLate
    Optional = {"profile"}
    Accounts <- MCAccounts
    Books <- MCBooks
    Merges = {{"filters", "whitelist"}}
    MaxEdits = 3
    Absent = Absent
    Unread = Unread
    None = None
INVARIANT TypeOK
PROPERTIES Consistent ExportCurrent
