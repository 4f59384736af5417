SPECIFICATION Spec
CONSTANTS
    good = good
    bad = bad
    poison = poison
    Content = {poison}
    Invalid = {}
    Poison = {poison}
    Batch = {b1, b2}
    File = {f1}
    Upload = {}
    NoContent = NoContent
    NoBatch = NoBatch
    NoFile = NoFile
    MaxRetries = 3
    MaxFaults = 0
    MaxScans = 1
    Overwrites = FALSE
INVARIANT
    FailedAfterRetries
