SPECIFICATION CSpec
CONSTANTS
    Spaces = {w1}
    Params = {p1}
    Values = {v1, v2}
    Images = {i1, i2}
    Modules = {m1, m2}
    NoValue = NoValue
    NoImage = NoImage
    MaxChanges = 4
INVARIANTS
    ConfigurationIsAllowed
    PutIsIdempotent
    SuccessIsDelivered
PROPERTIES
    FixedValuesStay
SYMMETRY Interchangeable
CHECK_DEADLOCK FALSE
