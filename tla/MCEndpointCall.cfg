CONSTANTS
    Clients = {c1, c2, c3}
    Names <- MCNames
    Workspaces = {0}
    ReadCap = 5
    MaxEndpoints = 9
SYMMETRY ClientSymmetry
SPECIFICATION Spec
INVARIANTS
    TypeOK
    ResultIsOutcome
    AnswersAreTrue
PROPERTY StoredIsServed
CHECK_DEADLOCK FALSE
