SPECIFICATION OrderedFairSpec
CONSTANTS
    good = good
    bad = bad
    poison = poison
    Content = {good, poison}
    Invalid = {}
    Poison = {poison}
    Batch = {b1, b2, b3}
    File = {f1, f2}
    Upload = {}
    NoContent = NoContent
    NoBatch = NoBatch
    NoFile = NoFile
    MaxRetries = 2
    MaxFaults = 1
    MaxScans = 2
    Overwrites = FALSE
PROPERTIES
    JobsSettle
    ScannedIsPredicted
