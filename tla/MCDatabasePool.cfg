SPECIFICATION PSpec
CONSTANTS
    Databases = {d1, d2}
    Instances = {i1, i2}
    Sessions = {s1, s2, s3}
    MaxSlots = 2
    NoDatabase = NoDatabase
    NoSession = NoSession
INVARIANTS
    PTypeOK
    WithinCapacity
    CountsAreSafe
SYMMETRY MCSymmetry
