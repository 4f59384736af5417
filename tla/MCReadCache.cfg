SPECIFICATION Spec
CONSTANTS
    Called = {"detail", "recent"}
    Read = {r1, r2}
    Writer = {w1, w2}
    MaxVersion = 1
SYMMETRY Symmetry
INVARIANTS
    TypeOK
    StaleOnlyWhileClearing
    AnswersShowFinishedWrites
