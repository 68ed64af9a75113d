\* Two loads, two forms, two changes, one change by somebody else.
SPECIFICATION Spec
CONSTANTS
    old = old
    new = new
    newer = newer
    None = None
    Policy <- MCPolicy
    InitRow <- MCInitRow
    MaxLoads = 2
    MaxForms = 2
    MaxChanges = 2
    MaxOthers = 1
INVARIANTS
    TypeOK
    DeletedStayHidden
    TwinsOnlyIfLoadedFirst
    OneSavePerForm
    MirrorsTable
CHECK_DEADLOCK FALSE
PROPERTIES
    SaveEnds
    ListFetches
