SPECIFICATION Spec
CONSTANTS
    doubtful = doubtful
    confident = confident
    memo = memo
    form = form
    Prediction = {doubtful, confident}
    Label = {memo, form}
    Me = ann
    Reviewer = {ann, bob}
    Request = {q1, q2, q3}
    None = None
    Top1 <- MCTop1
    ModelLabel <- MCModelLabel
    Top5 <- MCTop5
SYMMETRY Symmetry
INVARIANTS
    TypeOK
    UndisturbedRelabelStands
    ShownWasStored
    SavesAreCandidates
