SPECIFICATION Spec
CONSTANTS
    Path = {p1, p2}
    Dir = {d1}
    Opening = Opening
    Down = {Gone}
    Opener = {o1}
    Settler = {s1}
    Slot = {a1, a2}
    None = None
    MaxLooks = 3
    MaxSeq = 3
    MaxWorld = 1
INVARIANTS
    ConfigurationRules
    HandlesOwned
PROPERTIES
    SoundRootServes
    ReportsInOrder
SYMMETRY Symmetry
CHECK_DEADLOCK FALSE
