SPECIFICATION FairSpec
CONSTANTS
    good = good
    bad = bad
    poison = poison
    Content = {good}
    Invalid = {}
    Poison = {}
    Batch = {b1, b2}
    File = {f1}
    Upload = {u1}
    NoContent = NoContent
    NoBatch = NoBatch
    NoFile = NoFile
    MaxRetries = 1
    MaxFaults = 0
    MaxScans = 1
    Overwrites = FALSE
PROPERTY
    ReceivedCompletes
