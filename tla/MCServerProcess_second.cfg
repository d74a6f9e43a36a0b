CONSTANTS
    Servers = {s1, s2, s3}
    Wdirs = {w1}
    Inodes = {i1, i2, i3, i4}
    None = None
SYMMETRY ProcessSymmetry
SPECIFICATION Spec
INVARIANT OneServerPerWdir
