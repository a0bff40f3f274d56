SPECIFICATION Spec
CONSTANTS
    Catalogue <- AllDrivers
    Files <- OpenFiles
    Unpinned <- DebugfsNumbers
    Initialised <- Works
    FreeUntaken <- NullIsFreed
    LeavesCode <- LeaveCode
    UsesTooMuch <- UseTooMuch
    Leaks <- Leftovers
    Outline <- AllOutlines
    GivesUntaken <- GiveUntaken
INVARIANTS
    NoFreedTextRuns
    UsesWhatIsThere
    NothingElseLeft
    GivesBackItsOwn
\* a machine with leftovers, or after an oops, stops
CHECK_DEADLOCK FALSE
