CONSTANTS
    Projects = {p1, p2}
    NoProject = NoProject
    MaxId = 3
    MaxFaults = 1
    MaxCrashes = 1
    MaxRemovals = 1
    Dashed <- MCDashed
    CommandLines <- MCCommandLines
    TokenLines <- MCTokenLines
SYMMETRY ProjectSymmetry
SPECIFICATION ProjectSpec
INVARIANTS
    TypeOK
    AllDirsVisible
    DeletedStaysDeleted
    AliasNeedsInterruption
    AckedSurvives
    ParserMeetsGrammar
    ActsOnOwnProject
    InitBlockedByRemains
PROPERTY IdsNeverReused
