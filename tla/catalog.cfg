SPECIFICATION Spec
CONSTANTS
    d1 = d1
    c1 = c1
    c2 = c2
    r1 = r1
    r2 = r2
    r3 = r3
    r4 = r4
    DbName = {d1}
    CollName = {c1}
    Request = {r1, r2, r3, r4}
    Restored = restored
    None = none
    Refused = refused
    Bases <- MCBases
    MaxFaults = 1
    MaxRestarts = 1
SYMMETRY Alike
INVARIANTS
    NamesAreOpen
    Linearizable
    ReplayExact
    RefusedOnlyByCause
CHECK_DEADLOCK FALSE
