SPECIFICATION Spec
CONSTANTS
    q1 = q1
    q2 = q2
    a1 = a1
    a2 = a2
    p1 = p1
    p2 = p2
    None = None
    Request = {q1, q2}
    Admin = {a1, a2}
    Id <- MCId
    Expr <- MCExpr
    Matching <- MCMatching
    Invalid <- MCInvalid
    Action <- MCAction
    Priority <- MCPriority
    InitTables <- MCInitTables
    MaxChanges = 2
SYMMETRY MCSymmetry
INVARIANTS
    TypeOK
    FreshUnlessRaced
    QuietVerdictCorrect
PROPERTIES
    DeletedStaysDeleted
