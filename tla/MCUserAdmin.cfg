SPECIFICATION Spec
CONSTANTS
    User = {seed, peer, other}
    Seed = seed
    Role = {"admin", "reviewer"}
    Email = {mail0, mail1}
    SeedEmail = mail0
    NoEmail = NoEmail
    Request = {r1, r2}
SYMMETRY Symmetry
INVARIANTS
    TypeOK
    SeedKept
    AuditReplays
    ActorsStayAdministrators
    EmailsDistinct
PROPERTY ImplementsBook
