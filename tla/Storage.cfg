\* Three requests, five uploads of one to three bytes against limits of three
\* files and five bytes, and two faults.
SPECIFICATION Spec
CONSTANTS
    r1 = r1
    r2 = r2
    r3 = r3
    Requests = {r1, r2, r3}
    Sizes = {1, 2, 3}
    FileCount = 3
    TotalBytes = 5
    MaxUploads = 5
    MaxFaults = 2
SYMMETRY Symmetric
INVARIANT UploadsConsistent
CHECK_DEADLOCK FALSE
