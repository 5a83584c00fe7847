SPECIFICATION Spec
CONSTANTS
    n1 = n1
    n2 = n2
    a1 = a1
    a2 = a2
    t1 = t1
    t2 = t2
    Names <- MCNames
    None = None
    Expenses = {e1}
    Requests = {r1}
    Attachments = {k1, k2}
    Clerks = {w1, w2}
    DocumentNames = {n1, n2}
    AttachmentNames = {a1, a2}
    Evidence = {f1}
    Downloaders = {v1, v2}
    Tokens = {t1, t2}
    MaxSets = 3
    KeepCount = 2
SYMMETRY IdSymmetry
CONSTRAINTS
    MCOneKind
    MCFewFiles
    MCFewSets
CHECK_DEADLOCK FALSE
INVARIANTS
    ExpenseKeepsDocument
    RowsHaveTheirObject
    BackupsRestore
PROPERTIES
    DownloadsAreFinal
    RetentionKeepsGood
