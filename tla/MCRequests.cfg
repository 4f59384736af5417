SPECIFICATION Spec
CONSTANTS
 Request = {r1, r2}
 Account = {a1, a2}
 Nobody = Nobody
 PoolSize = 2
 LoginLimit = 1
 Policy <- MCPolicy
 Called = {"health", "login", "batch", "overlay", "upload", "manage"}
 Granted = {"admin", "auditor"}
INVARIANTS
 TypeOK
 ConnectionsSuffice
 AnswersFollowAuthority
 AnswersTellCommit
PROPERTY EveryRequestAnswered
