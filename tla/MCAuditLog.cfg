SPECIFICATION Spec
CONSTANTS
 User = {seed, u1, u2}
 Seed = seed
 Address = {a0, a1}
 SeedAddress = a0
 NoAddress = NoAddress
 Document = Document
 Entry = {e1, e2, e3}
 Limits = {1, 2}
 DefaultLimit = 2
 u1 = u1
 u2 = u2
 a1 = a1
 Done <- MCDone
SYMMETRY Rows
INVARIANTS
 TypeOK
 NoEntrySkipped
 OneLabelOneAccount
