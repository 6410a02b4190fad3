SPECIFICATION Spec
CONSTANTS
    Writers = {w1, w2}
    Addresses = {"ann", "bob"}
    EditorAddress = "eve"
    FirstBooks <- MCBooks
    Inodes = {1, 2, 3}
    RuleMax = 2
    IdMax = 5
    MaxFaults = 1
    MaxEdits = 1
    MaxPower = 1
    None = None
    Format = Format
    Broken = Broken
INVARIANTS TypeOK Unique Kept StaysValid
SYMMETRY WriterSymmetry
