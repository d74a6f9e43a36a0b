CONSTANTS
    Projects = {p1, p2}
    NoProject = NoProject
    MaxId = 3
    MaxFaults = 0
    MaxCrashes = 1
    MaxRemovals = 0
SYMMETRY ProjectSymmetry
SPECIFICATION Spec
INVARIANT ListedOnce
