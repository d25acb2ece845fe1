SPECIFICATION Spec
CONSTANTS
    Listing = {l1}
    Request = {r1, r2, r3}
    Operation = {"add", "removePhoto", "reorder"}
    Need = {}
    MaxFiles = 2
    MaxPhotos = 2
    Faults = {}
SYMMETRY Interchangeable
CHECK_DEADLOCK FALSE
INVARIANT AtMostEight
