CONSTANTS
    Servers = {s1, s2, s3}
    Wdirs = {w1, w2}
    Inodes = {i1, i2, i3, i4, i5}
    None = None
SYMMETRY ProcessSymmetry
SPECIFICATION Spec
INVARIANTS
    TypeOK
    ExclusiveUnlessRaced
    SocketIsServed
