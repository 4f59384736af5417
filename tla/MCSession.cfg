SPECIFICATION Spec
CONSTANTS
    User = {alice, bob}
    Nobody = Nobody
    Slot = {s1, s2, s3, s4}
SYMMETRY Symmetry
INVARIANTS
    TypeOK
    ShownProfileIsSessions
