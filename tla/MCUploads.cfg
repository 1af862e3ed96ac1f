SPECIFICATION UploadsSpec
CONSTANTS
    Upload = {u1, u2, u3}
    MaxUpload = 2
    MaxTotal = 3
    MaxReboot = 2
SYMMETRY Symmetry
INVARIANTS
    WholeUploads
    NothingEscapes
PROPERTY
    SpoolIsCounted
CHECK_DEADLOCK FALSE
