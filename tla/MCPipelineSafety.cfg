SPECIFICATION Spec
CONSTANTS
    good = good
    bad = bad
    poison = poison
    Content = {good, bad}
    Invalid = {bad}
    Poison = {}
    Batch = {b1, b2, b3, b4, b5}
    File = {f1}
    Upload = {u1}
    NoContent = NoContent
    NoBatch = NoBatch
    NoFile = NoFile
    MaxRetries = 2
    MaxFaults = 2
    MaxScans = 2
    Overwrites = TRUE
SYMMETRY Symmetry
INVARIANTS
    TypeOK
    PredictionBacked
    CompleteHasPrediction
    FinishedIsPredicted
    FailureAudited
PROPERTIES
    NoFileLost
    ImplementsRegistry
