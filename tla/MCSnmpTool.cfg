SPECIFICATION Spec
CONSTANTS
    Files <- MCFiles
    Cap = 1
    Junk = {0, 3}
    MaxLines = 4
INVARIANTS
    TypeOK
    EntryExact
    TableSound
    FreedTwiceCause
    LinesStored
