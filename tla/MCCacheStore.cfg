SPECIFICATION Spec
CONSTANTS
    f1 = f1
    f2 = f2
    h1 = h1
    FileKey = {f1, f2}
    VariantKey = {h1}
    Actor = {a1, a2}
    None = None
    OutBytes = 2
    MaxBytes = 2
    Ages = FALSE
    Bounds <- Instances
SYMMETRY Symmetry
INVARIANTS
    DiskIsVouchedFor
    BooksBalance
    OverrunIsAttended
CHECK_DEADLOCK FALSE
