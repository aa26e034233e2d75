SPECIFICATION HandoutSpec
CONSTANTS
    FirstBytes = {0, 3}
    MaxBytes = 9
    MaxPartSize = 4
    MaxRegions = 4
    MaxUploadParts = 3
CHECK_DEADLOCK FALSE
INVARIANTS
    HandoutIsSound
    MpuSplitFits
