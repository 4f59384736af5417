--------------------------- MODULE AuditLogProofs ---------------------------
(***************************************************************************)
(* Theorems about AuditLog, for any finite set of entries, any accounts    *)
(* and addresses, any page sizes and any transactions.  The inductive      *)
(* invariant adds to the properties                                        *)
(*   - that an address belongs to one live account, that accounts named by *)
(*     the log exist, and that the labels of the actors stand for the      *)
(*     accounts that will bear them when the targets are named;            *)
(*   - how far the auditor has come: an entry of the log of the first      *)
(*     window that has not been shown has at least `offset` newer ones.    *)
(***************************************************************************)
EXTENDS AuditLog, FiniteSetTheorems, TLAPS

(* The accounts an entry names: its actor and, unless it is a document,    *)
(* its target.                                                             *)
Actors(S)  == {work[e].actor : e \in S}
Targets(S) == {work[e].target : e \in S} \ {Document}

AddressesDistinct ==
  \A u, v \in Live : account[u].address = account[v].address => u = v

NamedExist ==
  /\ \A e \in Entry : work[e] # Nothing => account[work[e].actor].state # "none"
  /\ \A e \in Entry : work[e] # Nothing /\ work[e].kind = "remove" =>
       account[work[e].target].state # "none"
  /\ \A e \in Entry : work[e] # Nothing /\ work[e].kind = "change" =>
       work[e].target = Document \/ account[work[e].target].state # "none"
  /\ \A e \in log : work[e].target = Document \/ account[work[e].target].state # "none"

(* Among the names given to a set of accounts, one that does not speak of  *)
(* a removed account is given once.                                        *)
Distinct(names) ==
  \A u, v \in DOMAIN names : names[u] = names[v] /\ ~names[u].removed => u = v

(* An account that existed when the window was read and is still live has  *)
(* no address that another account of the window was named by.             *)
ActorsNamed ==
  phase \in {"named", "shown"} =>
    /\ Distinct(actorLabels)
    /\ \A u \in DOMAIN actorLabels, v \in Targets(rows) :
         /\ ~actorLabels[u].removed
         /\ account[v].state = "live"
         /\ account[v].address = actorLabels[u].address
         => u = v

LabelsInv ==
  /\ TypeOK
  /\ AddressesDistinct
  /\ NamedExist
  /\ ActorsNamed
  /\ OneLabelOneAccount

Newer(e) == {f \in log : at[f] > at[e]}

(* Paging on has not passed over an entry.                                 *)
PagedSoFar ==
  \A e \in baseline : Unique(e) =>
    e \in seen \/ Cardinality(Newer(e)) >= offset

(* The window that was read continues where the last one ended.            *)
WindowContinues ==
  phase \in {"listed", "named", "shown"} =>
    \A e \in baseline : Unique(e) =>
      \/ e \in seen \cup rows
      \/ Cardinality(rows) >= limit /\ Cardinality(Newer(e)) >= offset + limit

ShownIsSeen == phase = "shown" => rows \subseteq seen

PagingInv ==
  /\ TypeOK
  /\ PagedSoFar
  /\ WindowContinues
  /\ ShownIsSeen

-----------------------------------------------------------------------------
(* Types.                                                                  *)

LEMMA EntriesFinite ==
  ASSUME NEW S \in SUBSET Entry
  PROVE  IsFiniteSet(S) /\ Cardinality(S) \in Nat
BY AuditAssumption, FS_Subset, FS_CardinalityType

LEMMA WindowsAreParts == Windows \subseteq SUBSET log
BY DEF Windows

(* What an entry names are accounts, and perhaps a document.               *)
LEMMA WorkNames ==
  ASSUME NEW w \in Work
  PROVE  /\ w.actor \in User /\ w.target \in User \cup {Document}
         /\ w.kind \in {"invite", "remove", "change"}
         /\ w.kind \in {"invite", "remove"} => w.target \in User
         /\ w.kind = "invite" => w.address \in Address
         /\ w # Nothing
BY DEF Work, Nothing

LEMMA RowsName ==
  ASSUME TypeOK, NEW S \in SUBSET log
  PROVE  Actors(S) \subseteq User /\ Targets(S) \subseteq User
<1>1. \A e \in S : work[e] \in Work
  BY DEF TypeOK
<1> QED
  BY <1>1, WorkNames DEF Actors, Targets

LEMMA LabelTypes ==
  ASSUME TypeOK, NEW ids \in SUBSET User
  PROVE  LET names == MapUserDisplayLabels(ids)
         IN  DOMAIN names = ids /\ \A u \in ids : names[u] \in Label
<1>1. \A u \in ids : account[u].address \in Address \cup {NoAddress}
  BY DEF TypeOK, Account
<1> QED
  BY <1>1 DEF MapUserDisplayLabels, Label

(* What TypeOK says of the page.                                           *)
PageTypes ==
  /\ offset \in Nat /\ limit \in Limits
  /\ phase \in {"pending", "listed", "named", "shown", "failed"}
  /\ rows \subseteq log
  /\ \A names \in {actorLabels, targetLabels} :
       DOMAIN names \subseteq User /\ \A u \in DOMAIN names : names[u] \in Label
  /\ baseline \subseteq log /\ seen \subseteq log

TableTypes ==
  /\ account \in [User -> Account]
  /\ work \in [Entry -> Work \cup {Nothing}]
  /\ at \in [Entry -> Nat]
  /\ log \subseteq {e \in Entry : work[e] # Nothing}

LEMMA TypesSplit == TypeOK <=> TableTypes /\ PageTypes
BY DEF TypeOK, TableTypes, PageTypes

LEMMA TypesSplitAfter == TypeOK' <=> TableTypes' /\ PageTypes'
BY DEF TypeOK, TableTypes, PageTypes

LEMMA TypeInit == Init => TypeOK
<1> SUFFICES ASSUME Init PROVE TypeOK
  OBVIOUS
<1>1. TableTypes
  BY DEF Init, TableTypes, Nothing
<1>2. DOMAIN NoLabel = {}
  BY DEF NoLabel
<1>3. PageTypes
  BY <1>2, AuditAssumption DEF Init, PageTypes
<1> QED
  BY <1>1, <1>3, TypesSplit

(* A step on the tables: the log only grows, and what is in it stays.      *)
Tables == \E e \in Entry : (\E w \in Done : Begin(e, w)) \/ CommitWork(e) \/ Abort(e)

LEMMA TablesStep ==
  ASSUME TypeOK, Tables
  PROVE  /\ TableTypes'
         /\ log \subseteq log'
         /\ \A e \in log : work'[e] = work[e] /\ at'[e] = at[e]
         /\ UNCHANGED pageVars
<1>1. PICK e \in Entry : (\E w \in Done : Begin(e, w)) \/ CommitWork(e) \/ Abort(e)
  BY DEF Tables
<1>2. ASSUME NEW w \in Done, Begin(e, w)
      PROVE  /\ TableTypes' /\ log \subseteq log'
             /\ \A f \in log : work'[f] = work[f] /\ at'[f] = at[f]
             /\ UNCHANGED pageVars
  <2>1. w \in Work /\ w # Nothing
    BY AuditAssumption, WorkNames
  <2>2. PICK now \in 0..Cardinality(Entry) : at' = [at EXCEPT ![e] = now]
    BY <1>2 DEF Begin
  <2>3. now \in Nat
    BY <2>2, EntriesFinite
  <2>4. e \notin log
    BY <1>2 DEF Begin, TypeOK
  <2> QED
    BY <1>2, <2>1, <2>2, <2>3, <2>4 DEF Begin, TypeOK, TableTypes
<1>3. ASSUME CommitWork(e)
      PROVE  /\ TableTypes' /\ log \subseteq log'
             /\ \A f \in log : work'[f] = work[f] /\ at'[f] = at[f]
             /\ UNCHANGED pageVars
  <2>1. work[e] \in Work
    BY <1>3 DEF CommitWork, TypeOK
  <2>2. account' \in [User -> Account]
    <3>1. CASE work[e].kind = "invite"
      BY <1>3, <2>1, <3>1, WorkNames DEF CommitWork, TypeOK, Account
    <3>2. CASE work[e].kind = "remove"
      BY <1>3, <2>1, <3>2, WorkNames DEF CommitWork, SoftDelete, TypeOK, Account
    <3>3. CASE work[e].kind = "change"
      BY <1>3, <3>3 DEF CommitWork, TypeOK
    <3> QED
      BY <2>1, <3>1, <3>2, <3>3, WorkNames
  <2> QED
    BY <1>3, <2>2 DEF CommitWork, TypeOK, TableTypes
<1>4. CASE Abort(e)
  BY <1>4 DEF Abort, TypeOK, TableTypes
<1> QED
  BY <1>1, <1>2, <1>3, <1>4

(* The steps of the page and of its request leave the tables alone.        *)
Pages == \/ List \/ NameActors \/ NameTargets \/ LoadFails
         \/ Refresh \/ Previous \/ NextPage \/ \E n \in Limits : ChangeLimit(n)

LEMMA StepCases == Next <=> Tables \/ Pages
BY DEF Next, Tables, Pages

LEMMA PagesStep == Pages => UNCHANGED tableVars
BY DEF Pages, List, NameActors, NameTargets, LoadFails, Refresh, Previous,
       NextPage, ChangeLimit, Load

LEMMA LoadTypes ==
  ASSUME TypeOK, NEW o \in Nat, NEW n \in Limits, Load(o, n)
  PROVE  PageTypes'
BY DEF Load, TypeOK, PageTypes, tableVars

LEMMA PagesTypes ==
  ASSUME TypeOK, Pages
  PROVE  PageTypes'
<1> USE DEF PageTypes, tableVars
<1>0. limit \in Nat /\ DOMAIN NoLabel = {}
  BY AuditAssumption DEF TypeOK, NoLabel
<1>1. CASE List
  BY <1>0, <1>1, WindowsAreParts DEF List, TypeOK
<1>2. CASE NameActors
  BY <1>2, RowsName, LabelTypes DEF NameActors, TypeOK, Actors
<1>3. CASE NameTargets
  BY <1>3, RowsName, LabelTypes DEF NameTargets, TypeOK, Targets
<1>4. CASE LoadFails
  BY <1>0, <1>4 DEF LoadFails, TypeOK
<1>5. CASE Refresh
  BY <1>5, LoadTypes DEF Refresh, TypeOK
<1>6. CASE Previous
  BY <1>0, <1>6, LoadTypes DEF Previous, TypeOK
<1>7. CASE NextPage
  BY <1>0, <1>7, LoadTypes DEF NextPage, TypeOK
<1>8. ASSUME NEW n \in Limits, ChangeLimit(n)
      PROVE  PageTypes'
  BY <1>8, LoadTypes DEF ChangeLimit
<1> QED
  BY <1>1, <1>2, <1>3, <1>4, <1>5, <1>6, <1>7, <1>8 DEF Pages

LEMMA TypeStep == TypeOK /\ [Next]_vars => TypeOK'
<1> SUFFICES ASSUME TypeOK, [Next]_vars PROVE TypeOK'
  OBVIOUS
<1>1. CASE Tables
  <2>1. PageTypes'
    BY <1>1, TablesStep DEF TypeOK, PageTypes, pageVars
  <2> QED
    BY <1>1, <2>1, TablesStep, TypesSplitAfter
<1>2. CASE Pages
  <2>1. TableTypes'
    BY <1>2, PagesStep DEF TypeOK, TableTypes, tableVars
  <2> QED
    BY <1>2, <2>1, PagesTypes, TypesSplitAfter
<1>3. CASE UNCHANGED vars
  BY <1>3 DEF vars, tableVars, pageVars, TypeOK
<1> QED
  BY <1>1, <1>2, <1>3, StepCases

-----------------------------------------------------------------------------
(* Paging.                                                                 *)

LEMMA NewerFinite ==
  ASSUME TypeOK, NEW e \in Entry
  PROVE  IsFiniteSet(Newer(e)) /\ Cardinality(Newer(e)) \in Nat
BY EntriesFinite DEF Newer, TypeOK

(* The newest of two parts of the log that a window makes are newer than   *)
(* an entry that comes after them, unless one has its created_at.          *)
LEMMA NewerThanAfter ==
  ASSUME TypeOK, NEW first \in SUBSET log, NEW e \in log \ first, Unique(e),
         \A f \in first : at[f] >= at[e]
  PROVE  Cardinality(Newer(e)) >= Cardinality(first)
<1>1. first \subseteq Newer(e)
  BY DEF Newer, Unique, TypeOK
<1> QED
  BY <1>1, NewerFinite, EntriesFinite, FS_Subset DEF TypeOK

(* What is newer than one of the first entries is among the first.         *)
LEMMA NewerThanFirst ==
  ASSUME TypeOK, NEW first \in SUBSET log, NEW e \in first, Unique(e),
         \A f \in first, g \in log \ first : at[f] >= at[g]
  PROVE  Cardinality(Newer(e)) < Cardinality(first)
<1>1. Newer(e) \subseteq first \ {e}
  BY DEF Newer, Unique, TypeOK
<1>2. IsFiniteSet(first) /\ Cardinality(first) \in Nat
  BY EntriesFinite DEF TypeOK
<1>3. Cardinality(first \ {e}) = Cardinality(first) - 1 /\ IsFiniteSet(first \ {e})
  BY <1>2, FS_RemoveElement
<1>4. Cardinality(Newer(e)) <= Cardinality(first \ {e}) /\ Cardinality(Newer(e)) \in Nat
  BY <1>1, <1>3, FS_Subset, NewerFinite DEF TypeOK
<1> QED
  BY <1>2, <1>3, <1>4

(* A window has what comes after `offset` newer entries, or all that is    *)
(* left.                                                                   *)
LEMMA WindowFacts ==
  ASSUME TypeOK, NEW page \in Windows, NEW e \in log, Unique(e)
  PROVE  \/ e \in page
         \/ Cardinality(Newer(e)) < offset
         \/ Cardinality(page) >= limit /\ Cardinality(Newer(e)) >= offset + limit
<1>0. offset \in Nat /\ limit \in Nat
  BY AuditAssumption DEF TypeOK
<1>1. page \in SUBSET log
  BY DEF Windows
<1>2. PICK before \in SUBSET (log \ page) :
        /\ \/ Cardinality(before) = offset
           \/ before = log /\ Cardinality(log) < offset
        /\ \/ Cardinality(page) = limit
           \/ page = log \ before /\ Cardinality(page) < limit
        /\ \A f \in before, g \in log \ before : at[f] >= at[g]
        /\ \A f \in page, g \in log \ (before \cup page) : at[f] >= at[g]
  BY DEF Windows
<1>3. /\ IsFiniteSet(before) /\ Cardinality(before) \in Nat
      /\ IsFiniteSet(page) /\ Cardinality(page) \in Nat
  BY <1>1, EntriesFinite DEF TypeOK
<1>4. CASE e \in before
  <2>1. Cardinality(Newer(e)) < Cardinality(before)
    BY <1>2, <1>4, NewerThanFirst
  <2>2. Cardinality(before) <= offset
    BY <1>0, <1>2, <1>3
  <2> QED
    BY <1>0, <1>3, <2>1, <2>2, NewerFinite DEF TypeOK
<1>5. CASE e \notin before /\ e \notin page
  <2>1. Cardinality(before) = offset /\ Cardinality(page) = limit
    BY <1>2, <1>5
  <2>2. Cardinality(before \cup page) = offset + limit
    <3>1. before \cap page = {} /\ Cardinality({}) = 0
      BY <1>2, FS_EmptySet
    <3> QED
      BY <1>0, <1>3, <2>1, <3>1, FS_Union
  <2>3. Cardinality(Newer(e)) >= Cardinality(before \cup page)
    <3>1. before \cup page \in SUBSET log /\ e \in log \ (before \cup page)
      BY <1>1, <1>2, <1>5
    <3>2. \A f \in before \cup page : at[f] >= at[e]
      BY <1>2, <1>5
    <3> QED
      BY <3>1, <3>2, NewerThanAfter
  <2> QED
    BY <1>0, <2>1, <2>2, <2>3
<1> QED
  BY <1>4, <1>5

(* As the log grows an entry keeps its newer ones, and one that shares its *)
(* created_at with none has not done so before.                            *)
LEMMA NewerGrow ==
  ASSUME TypeOK, TypeOK', log \subseteq log', NEW e \in log,
         \A f \in log : at'[f] = at[f]
  PROVE  /\ Unique(e)' => Unique(e)
         /\ Cardinality(Newer(e))' >= Cardinality(Newer(e))
         /\ Cardinality(Newer(e)) \in Nat /\ Cardinality(Newer(e))' \in Nat
<1>1. Unique(e)' => Unique(e)
  BY DEF Unique
<1>2. Newer(e) \subseteq Newer(e)'
  BY DEF Newer
<1>3. log' \in SUBSET Entry
  BY DEF TypeOK
<1>4. Newer(e)' \in SUBSET Entry
  BY <1>3 DEF Newer
<1>5. IsFiniteSet(Newer(e)') /\ Cardinality(Newer(e)') \in Nat
  BY <1>4, EntriesFinite
<1>6. Cardinality(Newer(e)) <= Cardinality(Newer(e)')
  BY <1>2, <1>5, FS_Subset
<1>7. Cardinality(Newer(e)) \in Nat
  BY NewerFinite DEF TypeOK
<1> QED
  BY <1>1, <1>5, <1>6, <1>7

LEMMA PagingInit == Init => PagingInv
<1> SUFFICES ASSUME Init PROVE PagingInv
  OBVIOUS
<1> QED
  BY TypeInit DEF Init, PagingInv, PagedSoFar, WindowContinues, ShownIsSeen

LEMMA PagingTables ==
  ASSUME PagingInv, TypeOK', Tables
  PROVE  PagingInv'
<1> USE DEF PagingInv
<1>1. /\ log \subseteq log'
      /\ \A e \in log : work'[e] = work[e] /\ at'[e] = at[e]
      /\ UNCHANGED pageVars
  BY TablesStep
<1>2. \A e \in baseline : /\ Unique(e)' => Unique(e)
                          /\ Cardinality(Newer(e))' >= Cardinality(Newer(e))
                          /\ Cardinality(Newer(e)) \in Nat /\ Cardinality(Newer(e))' \in Nat
  BY <1>1, NewerGrow DEF TypeOK
<1>3. offset \in Nat /\ limit \in Nat
  BY AuditAssumption DEF TypeOK
<1>4. PagedSoFar'
  BY <1>1, <1>2, <1>3 DEF PagedSoFar, pageVars
<1>5. WindowContinues'
  BY <1>1, <1>2, <1>3 DEF WindowContinues, pageVars
<1> QED
  BY <1>1, <1>4, <1>5 DEF ShownIsSeen, pageVars

(* The page leaves the order of the log alone.                             *)
LEMMA OrderKept ==
  ASSUME UNCHANGED tableVars, NEW e
  PROVE  (Unique(e)' <=> Unique(e)) /\ Newer(e)' = Newer(e)
BY DEF tableVars, Unique, Newer

LEMMA PagingList ==
  ASSUME PagingInv, List
  PROVE  PagedSoFar' /\ WindowContinues'
<1> USE DEF PagingInv
<1>1. UNCHANGED tableVars /\ offset' = offset /\ limit' = limit
  BY DEF List
<1>2. offset \in Nat /\ baseline' \subseteq log /\ baseline' \subseteq Entry
  BY DEF List, TypeOK
<1>3. \A e \in baseline' : Cardinality(Newer(e)) \in Nat
  BY <1>2, NewerFinite
<1>4. \A e \in baseline' : Unique(e) => e \in seen' \/ Cardinality(Newer(e)) >= offset
  <2>1. CASE offset = 0
    BY <1>3, <2>1
  <2>2. CASE offset # 0
    BY <2>2 DEF List, PagedSoFar
  <2> QED
    BY <2>1, <2>2
<1>5. PagedSoFar'
  BY <1>1, <1>4, OrderKept DEF PagedSoFar
<1>6. ASSUME NEW e \in baseline', Unique(e)
      PROVE  \/ e \in seen' \cup rows'
             \/ Cardinality(rows') >= limit /\ Cardinality(Newer(e)) >= offset + limit
  <2>1. rows' \in Windows
    BY DEF List
  <2>2. \/ e \in rows'
        \/ Cardinality(Newer(e)) < offset
        \/ Cardinality(rows') >= limit /\ Cardinality(Newer(e)) >= offset + limit
    BY <1>2, <1>6, <2>1, WindowFacts
  <2> QED
    BY <1>2, <1>3, <1>4, <1>6, <2>2
<1>7. WindowContinues'
  BY <1>1, <1>6, OrderKept DEF WindowContinues
<1> QED
  BY <1>5, <1>7

(* A load at an offset the auditor has got to.                             *)
LEMMA PagingLoad ==
  ASSUME PagingInv, NEW o \in Nat, NEW n, Load(o, n),
         \A e \in baseline : Unique(e) => e \in seen \/ Cardinality(Newer(e)) >= o
  PROVE  PagedSoFar' /\ WindowContinues' /\ ShownIsSeen'
<1>1. UNCHANGED tableVars /\ offset' = o /\ baseline' = baseline /\ seen' = seen
      /\ phase' = "pending"
  BY DEF Load
<1> QED
  BY <1>1, OrderKept DEF PagedSoFar, WindowContinues, ShownIsSeen

LEMMA PagingPages ==
  ASSUME PagingInv, TypeOK', Pages
  PROVE  PagingInv'
<1> USE DEF PagingInv
<1>0. /\ offset \in Nat /\ limit \in Nat
      /\ \A e \in baseline : Cardinality(Newer(e)) \in Nat
  BY AuditAssumption, NewerFinite DEF TypeOK
<1>1. CASE List
  BY <1>1, PagingList DEF List, ShownIsSeen
<1>2. CASE NameActors
  <2>1. UNCHANGED <<offset, limit, rows, baseline, seen>> /\ phase = "listed" /\ phase' = "named"
    BY <1>2 DEF NameActors
  <2>2. UNCHANGED tableVars
    BY <1>2 DEF NameActors
  <2> QED
    BY <2>1, <2>2, OrderKept DEF PagedSoFar, WindowContinues, ShownIsSeen
<1>3. CASE NameTargets
  <2>1. /\ UNCHANGED <<offset, limit, rows, baseline>> /\ seen' = seen \cup rows
        /\ phase = "named" /\ phase' = "shown"
    BY <1>3 DEF NameTargets
  <2>2. UNCHANGED tableVars
    BY <1>3 DEF NameTargets
  <2> QED
    BY <2>1, <2>2, OrderKept DEF PagedSoFar, WindowContinues, ShownIsSeen
<1>4. CASE LoadFails
  <2>1. UNCHANGED <<offset, baseline, seen>> /\ phase' = "failed"
    BY <1>4 DEF LoadFails
  <2>2. UNCHANGED tableVars
    BY <1>4 DEF LoadFails
  <2> QED
    BY <2>1, <2>2, OrderKept DEF PagedSoFar, WindowContinues, ShownIsSeen
<1>5. CASE Refresh
  BY <1>0, <1>5, PagingLoad DEF Refresh, PagedSoFar
<1>6. CASE Previous
  <2>1. PICK o \in Nat : o <= offset /\ Load(o, limit)
    BY <1>0, <1>6 DEF Previous
  <2> QED
    BY <1>0, <2>1, PagingLoad DEF PagedSoFar
<1>7. CASE NextPage
  <2>1. \A e \in baseline : Unique(e) => e \in seen \/ Cardinality(Newer(e)) >= offset + limit
    BY <1>7 DEF NextPage, WindowContinues, ShownIsSeen
  <2> QED
    BY <1>0, <1>7, <2>1, PagingLoad DEF NextPage
<1>8. ASSUME NEW n \in Limits, ChangeLimit(n)
      PROVE  PagingInv'
  <2>1. \A e \in baseline : Cardinality(Newer(e)) >= 0
    BY <1>0
  <2> QED
    BY <1>8, <2>1, PagingLoad DEF ChangeLimit
<1> QED
  BY <1>1, <1>2, <1>3, <1>4, <1>5, <1>6, <1>7, <1>8 DEF Pages

LEMMA PagingStep == PagingInv /\ [Next]_vars => PagingInv'
<1> SUFFICES ASSUME PagingInv, [Next]_vars PROVE PagingInv'
  OBVIOUS
<1>1. TypeOK'
  BY TypeStep DEF PagingInv
<1>2. CASE Tables
  BY <1>1, <1>2, PagingTables
<1>3. CASE Pages
  BY <1>1, <1>3, PagingPages
<1>4. CASE UNCHANGED vars
  BY <1>1, <1>4, OrderKept DEF vars, pageVars, PagingInv, PagedSoFar,
     WindowContinues, ShownIsSeen
<1> QED
  BY <1>2, <1>3, <1>4, StepCases

LEMMA SkippedByInv == PagingInv => NoEntrySkipped
<1> SUFFICES ASSUME PagingInv, phase = "shown", Cardinality(rows) < limit,
                    NEW e \in baseline, Unique(e)
             PROVE  e \in seen
  BY DEF NoEntrySkipped
<1>1. limit \in Nat /\ Cardinality(rows) \in Nat
  BY AuditAssumption, EntriesFinite DEF PagingInv, TypeOK
<1>2. e \in seen \cup rows
  BY <1>1 DEF PagingInv, WindowContinues
<1> QED
  BY <1>2 DEF PagingInv, ShownIsSeen

-----------------------------------------------------------------------------
(* Labels.                                                                 *)

(* Names given at one moment to accounts that exist.                       *)
LEMMA NamesDistinct ==
  ASSUME TypeOK, AddressesDistinct, NEW ids \in SUBSET User,
         \A u \in ids : account[u].state # "none"
  PROVE  LET names == MapUserDisplayLabels(ids)
         IN  /\ Distinct(names)
             /\ \A u \in ids : ~names[u].removed =>
                  u \in Live /\ names[u].address = account[u].address
<1> DEFINE names == MapUserDisplayLabels(ids)
<1>1. DOMAIN names = ids
  BY DEF MapUserDisplayLabels
<1>2. ASSUME NEW u \in ids, ~names[u].removed
      PROVE  u \in Live /\ names[u].address = account[u].address
  <2>1. account[u].state \in {"none", "live", "removed"}
    BY DEF TypeOK, Account
  <2> QED
    BY <1>2, <2>1 DEF MapUserDisplayLabels, Live
<1>3. Distinct(names)
  BY <1>1, <1>2 DEF Distinct, AddressesDistinct
<1> QED
  BY <1>2, <1>3

LEMMA RowsExist ==
  ASSUME TypeOK, NamedExist
  PROVE  /\ Actors(rows) \subseteq User /\ Targets(rows) \subseteq User
         /\ \A u \in Actors(rows) \cup Targets(rows) : account[u].state # "none"
<1>1. rows \in SUBSET log /\ \A e \in rows : e \in Entry /\ work[e] # Nothing
  BY DEF TypeOK
<1>2. Actors(rows) \subseteq User /\ Targets(rows) \subseteq User
  BY <1>1, RowsName
<1> QED
  BY <1>1, <1>2 DEF Actors, Targets, NamedExist

LEMMA LabelsInit == Init => LabelsInv
<1> SUFFICES ASSUME Init PROVE LabelsInv
  OBVIOUS
<1>1. AddressesDistinct
  BY DEF Init, AddressesDistinct
<1>2. NamedExist
  BY DEF Init, NamedExist
<1>3. phase = "pending"
  BY DEF Init
<1> QED
  BY <1>1, <1>2, <1>3, TypeInit DEF LabelsInv, ActorsNamed, OneLabelOneAccount

(* An account comes into being, is removed, and keeps its address.         *)
LEMMA AccountsStep ==
  ASSUME TypeOK, AddressesDistinct, Tables
  PROVE  /\ AddressesDistinct'
         /\ \A u \in User : account[u].state # "none" =>
              /\ account'[u].state # "none"
              /\ account'[u].address = account[u].address
              /\ account'[u].state = "live" => account[u].state = "live"
<1>1. PICK e \in Entry : (\E w \in Done : Begin(e, w)) \/ CommitWork(e) \/ Abort(e)
  BY DEF Tables
<1>2. CASE UNCHANGED account
  BY <1>2 DEF AddressesDistinct, Live
<1>3. CASE CommitWork(e) /\ work[e].kind = "invite"
  <2> DEFINE u == work[e].target
             a == work[e].address
  <2>1. /\ u \in User /\ account[u].state = "none"
        /\ \A v \in Live : account[v].address # a
        /\ account' = [account EXCEPT ![u] = [state |-> "live", address |-> a]]
    BY <1>3, WorkNames DEF CommitWork, TypeOK
  <2>2. account'[u].state = "live" /\ account'[u].address = a
    BY <2>1 DEF TypeOK
  <2>3. \A v \in User \ {u} : account'[v] = account[v]
    BY <2>1 DEF TypeOK
  <2>4. AddressesDistinct'
    BY <2>1, <2>2, <2>3 DEF AddressesDistinct, Live
  <2> QED
    BY <2>1, <2>3, <2>4
<1>4. CASE CommitWork(e) /\ work[e].kind = "remove"
  <2> DEFINE u == work[e].target
  <2>1. /\ u \in User /\ account[u].state = "live"
        /\ account' = [account EXCEPT ![u] = SoftDelete(account[u])]
    BY <1>4, WorkNames DEF CommitWork, TypeOK
  <2>2. account'[u].state = "removed" /\ account'[u].address = account[u].address
    BY <2>1 DEF TypeOK, Account, SoftDelete
  <2>3. \A v \in User \ {u} : account'[v] = account[v]
    BY <2>1 DEF TypeOK
  <2>4. AddressesDistinct'
    BY <2>2, <2>3 DEF AddressesDistinct, Live
  <2> QED
    BY <2>1, <2>2, <2>3, <2>4
<1> QED
  BY <1>1, <1>2, <1>3, <1>4 DEF Begin, Abort, CommitWork

LEMMA NamedExistStep ==
  ASSUME TypeOK, AddressesDistinct, NamedExist, Tables
  PROVE  NamedExist'
<1>1. PICK e \in Entry : (\E w \in Done : Begin(e, w)) \/ CommitWork(e) \/ Abort(e)
  BY DEF Tables
<1>2. \A f \in Entry : work[f] # Nothing =>
        /\ work[f].actor \in User /\ work[f].target \in User \cup {Document}
        /\ work[f].kind \in {"invite", "remove", "change"}
        /\ work[f].kind \in {"invite", "remove"} => work[f].target \in User
  BY WorkNames DEF TypeOK
<1>3. \A u \in User : account[u].state # "none" => account'[u].state # "none"
  BY AccountsStep
<1>4. log \subseteq Entry /\ \A f \in log : work[f] # Nothing
  BY DEF TypeOK
<1>5. ASSUME NEW w \in Done, Begin(e, w)
      PROVE  NamedExist'
  <2>1. /\ w.actor \in User /\ w.target \in User \cup {Document}
        /\ w.kind \in {"invite", "remove", "change"}
    BY AuditAssumption, WorkNames
  <2>2. account[w.actor].state # "none"
    BY <1>5 DEF Begin, Live
  <2>3. w.kind = "remove" => account[w.target].state # "none"
    BY <1>5 DEF Begin, Live
  <2>4. w.kind = "change" => w.target = Document \/ account[w.target].state # "none"
    BY <1>5 DEF Begin
  <2>5. account' = account /\ log' = log /\ e \notin log
    BY <1>4, <1>5 DEF Begin
  <2>6. work'[e] = w /\ \A f \in Entry \ {e} : work'[f] = work[f]
    BY <1>5 DEF Begin, TypeOK
  <2> QED
    BY <1>4, <2>2, <2>3, <2>4, <2>5, <2>6 DEF NamedExist
<1>6. CASE CommitWork(e)
  <2>1. work' = work /\ log' = log \cup {e} /\ work[e] # Nothing
    BY <1>6 DEF CommitWork
  <2>2. work[e].target = Document \/ account'[work[e].target].state # "none"
    <3>1. CASE work[e].kind = "invite"
      BY <1>2, <1>6, <2>1, <3>1 DEF CommitWork, TypeOK
    <3>2. CASE work[e].kind # "invite"
      BY <1>2, <1>3, <2>1, <3>2 DEF NamedExist
    <3> QED
      BY <3>1, <3>2
  <2> QED
    BY <1>2, <1>3, <1>4, <2>1, <2>2 DEF NamedExist
<1>7. CASE Abort(e)
  <2>1. account' = account /\ log' = log /\ e \notin log
    BY <1>7 DEF Abort
  <2>2. work'[e] = Nothing /\ \A f \in Entry \ {e} : work'[f] = work[f]
    BY <1>7 DEF Abort, TypeOK
  <2> QED
    BY <1>4, <2>1, <2>2 DEF NamedExist
<1> QED
  BY <1>1, <1>5, <1>6, <1>7

LEMMA LabelsTables ==
  ASSUME LabelsInv, TypeOK', Tables
  PROVE  LabelsInv'
<1> USE DEF LabelsInv
<1>1. UNCHANGED pageVars /\ \A e \in log : work'[e] = work[e]
  BY TablesStep
<1>2. Targets(rows)' = Targets(rows)
  BY <1>1 DEF Targets, TypeOK, pageVars
<1>3. /\ \A u \in Targets(rows) : u \in User /\ account[u].state # "none"
      /\ AddressesDistinct'
  BY RowsExist, AccountsStep
<1>4. \A v \in Targets(rows) :
        /\ account'[v].address = account[v].address
        /\ account'[v].state = "live" => account[v].state = "live"
  BY <1>3, AccountsStep
<1>5. ActorsNamed'
  BY <1>1, <1>2, <1>4 DEF ActorsNamed, Distinct, pageVars
<1>6. OneLabelOneAccount'
  BY <1>1 DEF OneLabelOneAccount, pageVars
<1> QED
  BY <1>3, <1>5, <1>6, NamedExistStep

LEMMA LabelsNameActors ==
  ASSUME LabelsInv, NameActors
  PROVE  ActorsNamed' /\ OneLabelOneAccount'
<1> USE DEF LabelsInv
<1>1. /\ actorLabels' = MapUserDisplayLabels(Actors(rows))
      /\ UNCHANGED tableVars /\ rows' = rows /\ phase' = "named"
  BY DEF NameActors, Actors
<1>2. /\ Distinct(actorLabels')
      /\ \A u \in Actors(rows) : ~actorLabels'[u].removed =>
           u \in Live /\ actorLabels'[u].address = account[u].address
  BY <1>1, NamesDistinct, RowsExist
<1>3. DOMAIN actorLabels' = Actors(rows)
  BY <1>1 DEF MapUserDisplayLabels
<1>4. Targets(rows)' = Targets(rows) /\ Targets(rows) \subseteq User
  BY <1>1, RowsExist DEF Targets, tableVars
<1>5. \A u \in Actors(rows), v \in Targets(rows) :
        /\ ~actorLabels'[u].removed
        /\ account[v].state = "live"
        /\ account[v].address = actorLabels'[u].address
        => u = v
  BY <1>2, <1>4 DEF AddressesDistinct, Live
<1>6. ActorsNamed'
  BY <1>1, <1>2, <1>3, <1>4, <1>5 DEF ActorsNamed, Distinct, tableVars
<1> QED
  BY <1>1, <1>6 DEF OneLabelOneAccount

LEMMA LabelsNameTargets ==
  ASSUME LabelsInv, NameTargets
  PROVE  ActorsNamed' /\ OneLabelOneAccount'
<1> USE DEF LabelsInv
<1>1. /\ targetLabels' = MapUserDisplayLabels(Targets(rows))
      /\ UNCHANGED tableVars /\ rows' = rows /\ actorLabels' = actorLabels
      /\ phase = "named" /\ phase' = "shown"
  BY DEF NameTargets, Targets
<1>2. /\ Distinct(targetLabels')
      /\ \A u \in Targets(rows) : ~targetLabels'[u].removed =>
           u \in Live /\ targetLabels'[u].address = account[u].address
  BY <1>1, NamesDistinct, RowsExist
<1>3. DOMAIN targetLabels' = Targets(rows)
  BY <1>1 DEF MapUserDisplayLabels
<1>4. ActorsNamed'
  BY <1>1 DEF ActorsNamed, Distinct, Targets, tableVars
<1>5. \A u \in DOMAIN actorLabels', v \in DOMAIN targetLabels' :
        actorLabels'[u] = targetLabels'[v] /\ ~actorLabels'[u].removed => u = v
  BY <1>1, <1>2, <1>3 DEF ActorsNamed, Live
<1>6. Distinct(actorLabels')
  BY <1>1 DEF ActorsNamed
<1>7. OneLabelOneAccount'
  <2> DEFINE A == {<<u, actorLabels'[u]>> : u \in DOMAIN actorLabels'}
             T == {<<u, targetLabels'[u]>> : u \in DOMAIN targetLabels'}
  <2> SUFFICES ASSUME NEW m \in A \cup T, NEW n \in A \cup T,
                      m[2] = n[2], ~m[2].removed
               PROVE  m[1] = n[1]
    BY DEF OneLabelOneAccount
  <2>1. CASE m \in A /\ n \in A
    BY <1>6, <2>1 DEF Distinct
  <2>2. CASE m \in A /\ n \in T
    BY <1>5, <2>2
  <2>3. CASE m \in T /\ n \in A
    BY <1>5, <2>3
  <2>4. CASE m \in T /\ n \in T
    BY <1>2, <2>4 DEF Distinct
  <2> QED
    BY <2>1, <2>2, <2>3, <2>4
<1> QED
  BY <1>4, <1>7

LEMMA LabelsStep == LabelsInv /\ [Next]_vars => LabelsInv'
<1> SUFFICES ASSUME LabelsInv, [Next]_vars PROVE LabelsInv'
  OBVIOUS
<1>1. TypeOK'
  BY TypeStep DEF LabelsInv
<1>2. CASE Tables
  BY <1>1, <1>2, LabelsTables
<1>3. CASE Pages
  <2>1. UNCHANGED tableVars
    BY <1>3, PagesStep
  <2>2. AddressesDistinct' /\ NamedExist'
    BY <2>1 DEF LabelsInv, AddressesDistinct, NamedExist, Live, tableVars
  <2>3. CASE NameActors
    BY <1>1, <2>2, <2>3, LabelsNameActors DEF LabelsInv
  <2>4. CASE NameTargets
    BY <1>1, <2>2, <2>4, LabelsNameTargets DEF LabelsInv
  <2>5. CASE phase' \notin {"named", "shown"}
    BY <1>1, <2>2, <2>5 DEF LabelsInv, ActorsNamed, OneLabelOneAccount
  <2> QED
    BY <1>3, <2>3, <2>4, <2>5 DEF Pages, List, LoadFails, Refresh, Previous,
       NextPage, ChangeLimit, Load
<1>4. CASE UNCHANGED vars
  <2>1. UNCHANGED tableVars /\ UNCHANGED pageVars
    BY <1>4 DEF vars
  <2>2. AddressesDistinct' /\ NamedExist'
    BY <2>1 DEF LabelsInv, AddressesDistinct, NamedExist, Live, tableVars
  <2>3. ActorsNamed' /\ OneLabelOneAccount'
    BY <2>1 DEF LabelsInv, ActorsNamed, OneLabelOneAccount, Distinct, Targets,
       tableVars, pageVars
  <2> QED
    BY <1>1, <2>2, <2>3 DEF LabelsInv
<1> QED
  BY <1>2, <1>3, <1>4, StepCases

-----------------------------------------------------------------------------
(* The types of every variable, whatever transactions do.                  *)
THEOREM TypeCorrect == Spec => []TypeOK
<1>1. Init => TypeOK
  BY TypeInit
<1>2. TypeOK /\ [Next]_vars => TypeOK'
  BY TypeStep
<1> QED
  BY <1>1, <1>2, PTL DEF Spec

(* The auditor who pages through the log until a window is not full has    *)
(* been shown all that was there when the first window was read, however   *)
(* many entries are committed below, between and above those already read  *)
(* (audit_repository.list_paginated with the offsets of AuditPage).        *)
THEOREM NoEntryIsSkipped == Spec => []NoEntrySkipped
<1>1. Init => PagingInv
  BY PagingInit
<1>2. PagingInv /\ [Next]_vars => PagingInv'
  BY PagingStep
<1>3. PagingInv => NoEntrySkipped
  BY SkippedByInv
<1> QED
  BY <1>1, <1>2, <1>3, PTL DEF Spec

(* Within a window a label without a remark stands for one account,        *)
(* although the statements that name actors and targets see different      *)
(* states of table users (audit_service._enrich).                          *)
THEOREM LabelsStandForOne == Spec => []OneLabelOneAccount
<1>1. Init => LabelsInv
  BY LabelsInit
<1>2. LabelsInv /\ [Next]_vars => LabelsInv'
  BY LabelsStep
<1>3. LabelsInv => OneLabelOneAccount
  BY DEF LabelsInv
<1> QED
  BY <1>1, <1>2, <1>3, PTL DEF Spec
=============================================================================
