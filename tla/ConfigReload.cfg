SPECIFICATION ReloadSpec
CONSTANTS
    c1 = c1
    c2 = c2
    c3 = c3
    broken = broken
    Content <- MCContent
    Valid <- MCValid
    Partial <- MCPartial
    MaxEdits = 3
\* Nobody edits any more and the watcher has nothing to read.
CHECK_DEADLOCK FALSE
INVARIANTS
    NoReloadOverlooked
PROPERTIES
    SavedInPlaceTakesEffect
