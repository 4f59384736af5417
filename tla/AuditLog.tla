------------------------------ MODULE AuditLog ------------------------------
(***************************************************************************)
(* The audit log as the page "Activity history" shows it.  Transactions of *)
(* every kind append a row; created_at is when the transaction began, and  *)
(* the row appears when it commits.  The page reads newest first, one      *)
(* window of offset and limit at a time, and GET /audit puts names to the  *)
(* accounts of the window with statements of their own, while accounts are *)
(* invited and removed.                                                    *)
(*                                                                         *)
(* The transactions themselves (guards, races, what else they write) are   *)
(* the matter of UserAdmin, Relabel and Pipeline.  A target that is no     *)
(* account is Document: its name never changes.                            *)
(***************************************************************************)
EXTENDS Naturals, FiniteSets

CONSTANTS
  User,       \* ids of rows of users
  Seed,       \* the administrator of migration 0002
  Address, SeedAddress,
  NoAddress,  \* original_email IS NULL
  Document,   \* a batch or prediction as target
  Entry,      \* ids of rows of audit_log
  Limits,     \* LIMIT_OPTIONS
  DefaultLimit,
  Done        \* bound: what transactions do

(* A row of users as map_user_display_labels sees it, and the label it     *)
(* makes: the address, or "Removed account (<address>)", or "Removed       *)
(* account".                                                               *)
Account == [state : {"none", "live", "removed"}, address : Address \cup {NoAddress}]
Label   == [removed : BOOLEAN, address : Address \cup {NoAddress}]

(* What a transaction does besides its row: an invitation or a removal     *)
(* changes an account; the rest does not change what the page shows.       *)
Work ==
  [kind : {"invite"}, actor : User, target : User, address : Address]
  \cup [kind : {"remove"}, actor : User, target : User]
  \cup [kind : {"change"}, actor : User, target : User \cup {Document}]

ASSUME AuditAssumption ==
  /\ Seed \in User /\ Document \notin User
  /\ SeedAddress \in Address /\ NoAddress \notin Address
  /\ IsFiniteSet(Entry)
  /\ Limits \subseteq Nat \ {0} /\ DefaultLimit \in Limits /\ Done \subseteq Work

VARIABLES
  account,      \* user -> its row
  work,         \* entry -> what its transaction does, once begun
  at,           \* entry -> created_at
  log,          \* entries that are committed
  offset, limit,
  phase,        \* of the page and its GET /audit
  rows,         \* the window that was read
  actorLabels, targetLabels,
  baseline,     \* history: the entries in the log when offset 0 was last read
  seen          \* history: the entries shown since

tableVars == <<account, work, at, log>>
pageVars  == <<offset, limit, phase, rows, actorLabels, targetLabels, baseline, seen>>
vars      == <<tableVars, pageVars>>

Nothing == [kind |-> "none"]
NoLabel == [u \in {} |-> [removed |-> FALSE, address |-> NoAddress]]

TypeOK ==
  /\ account \in [User -> Account]
  /\ work \in [Entry -> Work \cup {Nothing}]
  /\ at \in [Entry -> Nat]
  /\ log \subseteq {e \in Entry : work[e] # Nothing}
  /\ offset \in Nat /\ limit \in Limits
  /\ phase \in {"pending", "listed", "named", "shown", "failed"}
  /\ rows \subseteq log
  /\ \A names \in {actorLabels, targetLabels} :
       DOMAIN names \subseteq User /\ \A u \in DOMAIN names : names[u] \in Label
  /\ baseline \subseteq log /\ seen \subseteq log

Live == {u \in User : account[u].state = "live"}

(* Accounts may have been invited already, and removed before 0004 added   *)
(* original_email; the log is read from here on.                           *)
Init ==
  /\ account \in [User -> Account]
  /\ account[Seed] = [state |-> "live", address |-> SeedAddress]
  /\ \A u \in User \ {Seed} : account[u].state = "live" <=> account[u].address # NoAddress
  /\ \A u, v \in Live : account[u].address = account[v].address => u = v
  /\ work = [e \in Entry |-> Nothing] /\ at = [e \in Entry |-> 0] /\ log = {}
  /\ offset = 0 /\ limit = DefaultLimit /\ phase = "pending"
  /\ rows = {} /\ actorLabels = NoLabel /\ targetLabels = NoLabel
  /\ baseline = {} /\ seen = {}

-----------------------------------------------------------------------------
(* Transactions.                                                           *)

(* created_at is now(), the start of the transaction; two that start in    *)
(* the same microsecond have the same.  Only their order matters, so a     *)
(* number that is free again is used again.                                *)
Begin(e, w) ==
  /\ work[e] = Nothing
  /\ w.actor \in Live
  /\ w.kind = "invite" => account[w.target].state = "none"
  /\ w.kind = "remove" => w.target \in Live \ {w.actor, Seed}
  /\ w.kind = "change" => w.target \in {Document} \cup {u \in User : account[u].state # "none"}
  /\ work' = [work EXCEPT ![e] = w]
  /\ \E now \in 0..Cardinality(Entry) :
       /\ \A f \in Entry : at[f] <= now
       /\ now = 0 \/ \E f \in Entry : at[f] \in {now - 1, now}
       /\ at' = [at EXCEPT ![e] = now]
  /\ UNCHANGED <<account, log, pageVars>>

(* soft_delete: the address is free again, and kept in original_email.     *)
SoftDelete(row) == [row EXCEPT !.state = "removed"]

(* An address belongs to one row that is not removed; an account is        *)
(* removed once.                                                           *)
CommitWork(e) ==
  LET w == work[e] IN
  /\ w # Nothing /\ e \notin log
  /\ CASE w.kind = "invite" ->
            /\ account[w.target].state = "none"
            /\ \A u \in Live : account[u].address # w.address
            /\ account' = [account EXCEPT ![w.target] = [state |-> "live", address |-> w.address]]
       [] w.kind = "remove" ->
            /\ account[w.target].state = "live"
            /\ account' = [account EXCEPT ![w.target] = SoftDelete(@)]
       [] OTHER -> UNCHANGED account
  /\ log' = log \cup {e}
  /\ UNCHANGED <<work, at, pageVars>>

(* The transaction is rolled back, its row with it.                        *)
Abort(e) ==
  /\ work[e] # Nothing /\ e \notin log
  /\ work' = [work EXCEPT ![e] = Nothing] /\ at' = [at EXCEPT ![e] = 0]
  /\ UNCHANGED <<account, log, pageVars>>

-----------------------------------------------------------------------------
(* GET /audit.                                                             *)

(* Mutant of Windows: rows of transactions that are open are read.         *)
WindowsDirty ==
  LET begun == {e \in Entry : work[e] # Nothing}
  IN  {page \in SUBSET begun : Cardinality(page) <= limit}

(* ORDER BY created_at DESC OFFSET offset LIMIT limit: entries of the same *)
(* created_at come in any order, which may differ from query to query.     *)
Windows ==
  {page \in SUBSET log : \E before \in SUBSET (log \ page) :
     /\ \/ Cardinality(before) = offset
        \/ before = log /\ Cardinality(log) < offset
     /\ \/ Cardinality(page) = limit
        \/ page = log \ before /\ Cardinality(page) < limit
     /\ \A e \in before, f \in log \ before : at[e] >= at[f]
     /\ \A e \in page, f \in log \ (before \cup page) : at[e] >= at[f]}

List ==
  /\ phase = "pending"
  /\ rows' \in Windows
  /\ phase' = "listed"
  /\ actorLabels' = NoLabel /\ targetLabels' = NoLabel
  /\ IF offset = 0 THEN baseline' = log /\ seen' = {} ELSE UNCHANGED <<baseline, seen>>
  /\ UNCHANGED <<tableVars, offset, limit>>

(* Mutant of MapUserDisplayLabels: original_email without the remark.      *)
MapUserDisplayLabelsPlain(ids) ==
  [u \in ids |-> [removed |-> FALSE, address |-> account[u].address]]

(* map_user_display_labels: one SELECT.                                    *)
MapUserDisplayLabels(ids) ==
  [u \in ids |-> [removed |-> account[u].state = "removed", address |-> account[u].address]]

(* _enrich: the labels of the actors ...                                   *)
NameActors ==
  /\ phase = "listed" /\ phase' = "named"
  /\ actorLabels' = MapUserDisplayLabels({work[e].actor : e \in rows})
  /\ UNCHANGED <<tableVars, offset, limit, rows, targetLabels, baseline, seen>>

(* ... and, in a later statement, those of the targets.                    *)
NameTargets ==
  /\ phase = "named" /\ phase' = "shown"
  /\ targetLabels' = MapUserDisplayLabels({work[e].target : e \in rows} \ {Document})
  /\ seen' = seen \cup rows
  /\ UNCHANGED <<tableVars, offset, limit, rows, actorLabels, baseline>>

(* The request fails on its way, or its answer is lost: no rows, and no    *)
(* controls but Refresh.                                                   *)
LoadFails ==
  /\ phase \in {"pending", "listed", "named"} /\ phase' = "failed"
  /\ rows' = {} /\ actorLabels' = NoLabel /\ targetLabels' = NoLabel
  /\ UNCHANGED <<tableVars, offset, limit, baseline, seen>>

-----------------------------------------------------------------------------
(* The page.  A control is disabled while a load is pending.               *)
Load(newOffset, newLimit) ==
  /\ phase' = "pending"
  /\ offset' = newOffset /\ limit' = newLimit
  /\ UNCHANGED <<tableVars, rows, actorLabels, targetLabels, baseline, seen>>

Refresh ==
  /\ phase \in {"shown", "failed"}
  /\ Load(offset, limit)

Previous ==
  /\ phase = "shown" /\ offset > 0
  /\ Load(IF offset > limit THEN offset - limit ELSE 0, limit)

(* Mutant of NextPage: the button is not disabled during a load.           *)
NextPageImpatient ==
  /\ phase \in {"shown", "pending"} /\ Cardinality(rows) >= limit
  /\ Load(offset + limit, limit)

NextPage ==
  /\ phase = "shown" /\ Cardinality(rows) >= limit
  /\ Load(offset + limit, limit)

ChangeLimit(n) ==
  /\ phase = "shown" /\ n # limit
  /\ Load(0, n)

Next ==
  \/ \E e \in Entry : (\E w \in Done : Begin(e, w)) \/ CommitWork(e) \/ Abort(e)
  \/ List \/ NameActors \/ NameTargets \/ LoadFails
  \/ Refresh \/ Previous \/ NextPage \/ \E n \in Limits : ChangeLimit(n)

Spec == Init /\ [][Next]_vars

-----------------------------------------------------------------------------
Unique(e) == \A f \in log : f # e => at[f] # at[e]

(* The auditor who pages from the newest entry on, back and forth, until a *)
(* window comes back that is not full, has been shown every entry that was *)
(* in the log when the first window was read: entries that are committed   *)
(* meanwhile, some of them with an older created_at, push others down but  *)
(* never out of sight.  (Entries of one created_at have no order among     *)
(* them, so only one that shares it with none is meant.)                   *)
NoEntrySkipped ==
  phase = "shown" /\ Cardinality(rows) < limit =>
    \A e \in baseline : Unique(e) => e \in seen

(* Within a window a label that does not speak of a removed account stands *)
(* for one account, although actors and targets are looked up at different *)
(* moments, and an address can pass to another account in between.         *)
OneLabelOneAccount ==
  LET Named == {<<u, actorLabels[u]>> : u \in DOMAIN actorLabels}
               \cup {<<u, targetLabels[u]>> : u \in DOMAIN targetLabels}
  IN  phase = "shown" =>
        \A m, n \in Named : m[2] = n[2] /\ ~m[2].removed => m[1] = n[1]
=============================================================================
