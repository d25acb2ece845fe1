SPECIFICATION Spec
CONSTANTS
    Listing = {l1}
    Request = {r1, r2, r3, r4}
    Operation = {"create", "edit", "publish", "unpublish", "remove", "add", "removePhoto", "reorder", "book"}
    Need = {"rate"}
    MaxFiles = 2
    MaxPhotos = 2
    Faults = {"upload", "destroy", "crash"}
SYMMETRY Interchangeable
CHECK_DEADLOCK FALSE
INVARIANTS
    ImagesAccountedFor
PROPERTIES
    KeepsTheGallery
