-------------------------- MODULE ReadCacheProofs --------------------------
(***************************************************************************)
(* Theorems about ReadCache, for any number of reads, writers and commits.  *)
(* CInv is the inductive invariant.  An answer taken from the cache shows   *)
(* every write that finished before the read began, because an entry is     *)
(* behind only while the writer is still clearing (StaleOnlyWhileClearing), *)
(* and such a write raised no floor (LookupsCovered).                       *)
(***************************************************************************)
EXTENDS ReadCache, TLAPS

FloorBehind ==
    \A r \in Read : \A i \in Item : floor[r][i] <= version[i]

(* What a read that has not looked up yet may find.                         *)
LookupsCovered ==
    \A r \in Read : step[r] = "lookup" /\ key[r] \notin suspect =>
        \A v \in cached[key[r]] : \A i \in View[key[r]] : floor[r][i] <= v[i]

(* What a read has loaded so far.                                           *)
LoadsCovered ==
    \A r \in Read :
        /\ step[r] = "lookup" /\ key[r] = "me" => floor[r]["user"] <= value[r]["user"]
        /\ step[r] = "load" => key[r] # "me"
        /\ step[r] = "loadMore" =>
              key[r] = "detail" /\ floor[r]["batch"] <= value[r]["batch"]
        /\ step[r] = "store" =>
              \A i \in View[key[r]] : floor[r][i] <= value[r][i]

CInv ==
    /\ TypeOK
    /\ StaleOnlyWhileClearing
    /\ FloorBehind
    /\ LookupsCovered
    /\ LoadsCovered
    /\ AnswersShowFinishedWrites

-----------------------------------------------------------------------------
(* The namespaces each writer clears, spelt out.                            *)
LEMMA ClearsValues ==
  /\ ClearCount("manage_user") = 1 /\ Clears["manage_user"][1] = "me"
  /\ ClearCount("record_prediction") = 3
  /\ Clears["record_prediction"][1] = "list"
  /\ Clears["record_prediction"][2] = "detail"
  /\ Clears["record_prediction"][3] = "recent"
  /\ ClearCount("change_batch") = 2
  /\ Clears["change_batch"][1] = "list" /\ Clears["change_batch"][2] = "detail"
  /\ ClearCount("relabel") = 2
  /\ Clears["relabel"][1] = "detail" /\ Clears["relabel"][2] = "recent"
  BY DEF Clears, ClearCount

(* A writer clears one to three namespaces.                                 *)
LEMMA ClearsLength ==
  ASSUME NEW c \in Kind
  PROVE  /\ ClearCount(c) \in 1 .. 3
         /\ \A n \in 1 .. ClearCount(c) : Clears[c][n] \in Key
  BY ClearsValues DEF Kind, Key

(* Every writer clears every view of what it changes.                       *)
LEMMA ClearsCover ==
  ASSUME NEW c \in Kind, NEW k \in Key, NEW i \in View[k], i \in Changes[c]
  PROVE  \E n \in 1 .. ClearCount(c) : Clears[c][n] = k
<1>1. CASE c = "manage_user"
  BY <1>1, ClearsValues DEF Key, View, Changes
<1>2. CASE c = "record_prediction"
  BY <1>2, ClearsValues DEF Key, View, Changes
<1>3. CASE c = "change_batch"
  BY <1>3, ClearsValues DEF Key, View, Changes
<1>4. CASE c = "relabel"
  BY <1>4, ClearsValues DEF Key, View, Changes
<1> QED
  BY <1>1, <1>2, <1>3, <1>4 DEF Kind

(* The views show known data.                                               *)
LEMMA ViewsOfItems == \A k \in Key : View[k] \subseteq Item
  BY DEF Key, View, Item

(* Nothing is cached and nobody has begun.                                  *)
LEMMA InitInvariant == Init => CInv
<1> SUFFICES ASSUME Init PROVE CInv
  OBVIOUS
<1>1. TypeOK
  BY MaxVersionAssumption, ClearsLength DEF Init, TypeOK, Versions, Zero, ReadStep, Key, Kind
<1>2. FloorBehind
  BY DEF Init, FloorBehind, Zero
<1>3. StaleOnlyWhileClearing /\ LookupsCovered /\ LoadsCovered /\ AnswersShowFinishedWrites
  BY DEF Init, StaleOnlyWhileClearing, LookupsCovered, LoadsCovered,
         AnswersShowFinishedWrites
<1> QED
  BY <1>1, <1>2, <1>3 DEF CInv

(* A writer commits.                                                        *)
LEMMA CommitStep ==
  ASSUME CInv, NEW w \in Writer, NEW c \in Kind, Commit(w, c)
  PROVE  CInv'
<1>1. TypeOK'
  <2>1. version' \in Versions
    <3> SUFFICES ASSUME NEW i \in Item PROVE version'[i] \in 0 .. MaxVersion
      BY DEF Commit, Versions
    <3> QED
      BY MaxVersionAssumption DEF CInv, TypeOK, Commit, Versions
  <2>2. kind' \in [Writer -> Kind] /\ next' \in [Writer -> 0 .. 3]
    BY DEF CInv, TypeOK, Commit
  <2>3. ASSUME NEW x \in Writer PROVE next'[x] <= ClearCount(kind'[x])
    <3>1. CASE x = w
      <4>1. next'[x] = 1 /\ kind'[x] = c
        BY <3>1 DEF CInv, TypeOK, Commit
      <4> QED
        BY <4>1, ClearsLength
    <3>2. CASE x # w
      <4>1. next'[x] = next[x] /\ kind'[x] = kind[x]
        BY <3>2 DEF CInv, TypeOK, Commit
      <4> QED
        BY <4>1 DEF CInv, TypeOK
    <3> QED
      BY <3>1, <3>2
  <2> QED
    BY <2>1, <2>2, <2>3 DEF CInv, TypeOK, Commit, readVars
<1>2. StaleOnlyWhileClearing'
  <2> SUFFICES ASSUME NEW k \in Key \ suspect, NEW v \in cached[k], NEW i \in View[k],
                      v[i] # version'[i]
               PROVE  \E x \in Writer : (Pending(x, k) /\ Writing(x, i))'
    BY DEF StaleOnlyWhileClearing, Commit
  <2>1. next[w] = 0 /\ next'[w] = 1 /\ kind'[w] = c
    BY DEF CInv, TypeOK, Commit
  <2>2. CASE i \in Changes[c]
    <3>1. PICK n \in 1 .. ClearCount(c) : Clears[c][n] = k
      BY <2>2, ClearsCover
    <3> QED
      BY <2>1, <2>2, <3>1 DEF Pending, Writing
  <2>3. CASE i \notin Changes[c]
    <3>1. v[i] # version[i]
      BY <2>3, ViewsOfItems DEF Commit
    <3>2. PICK x \in Writer : Pending(x, k) /\ Writing(x, i)
      BY <3>1 DEF CInv, StaleOnlyWhileClearing
    <3>3. next'[x] = next[x] /\ kind'[x] = kind[x]
      BY <2>1, <3>2 DEF Writing, CInv, TypeOK, Commit
    <3> QED
      BY <3>2, <3>3 DEF Pending, Writing
  <2> QED
    BY <2>2, <2>3
<1>3. FloorBehind'
  BY DEF CInv, Commit, TypeOK, Versions, FloorBehind, readVars
<1>4. LookupsCovered'
  BY DEF CInv, Commit, LookupsCovered, readVars
<1>5. LoadsCovered'
  BY DEF CInv, Commit, LoadsCovered, readVars
<1>6. AnswersShowFinishedWrites'
  BY DEF CInv, Commit, AnswersShowFinishedWrites, readVars
<1> QED
  BY <1>1, <1>2, <1>3, <1>4, <1>5, <1>6 DEF CInv

(* A clear arrives.                                                         *)
LEMMA ClearNextStep ==
  ASSUME CInv, NEW w \in Writer, ClearNext(w)
  PROVE  CInv'
<1>0. /\ kind[w] \in Kind /\ ClearCount(kind[w]) \in 1 .. 3 /\ next[w] \in 0 .. 3
      /\ next[w] <= ClearCount(kind[w]) /\ next[w] > 0
      /\ Clears[kind[w]][next[w]] \in Key
  BY ClearsLength DEF CInv, TypeOK, ClearNext
<1>1. TypeOK'
  <2>1. \/ next'[w] = 0 /\ kind'[w] = "manage_user"
        \/ next'[w] = next[w] + 1 /\ kind'[w] = kind[w] /\ next[w] # ClearCount(kind[w])
    BY DEF CInv, TypeOK, ClearNext
  <2>2. kind' \in [Writer -> Kind]
    BY DEF CInv, TypeOK, ClearNext, Kind
  <2>3. next' \in [Writer -> 0 .. 3] /\ next'[w] <= ClearCount(kind'[w])
    <3>1. next'[w] \in 0 .. 3 /\ next'[w] <= ClearCount(kind'[w])
      <4>1. CASE next'[w] = 0 /\ kind'[w] = "manage_user"
        BY <4>1, ClearsValues
      <4>2. CASE next'[w] = next[w] + 1 /\ kind'[w] = kind[w] /\ next[w] # ClearCount(kind[w])
        BY <1>0, <4>2
      <4> QED
        BY <2>1, <4>1, <4>2
    <3>2. next' = [next EXCEPT ![w] = next'[w]]
      BY DEF CInv, TypeOK, ClearNext
    <3> QED
      BY <3>1, <3>2 DEF CInv, TypeOK
  <2>4. ASSUME NEW x \in Writer \ {w} PROVE next'[x] <= ClearCount(kind'[x])
    <3>1. next'[x] = next[x] /\ kind'[x] = kind[x]
      BY DEF CInv, TypeOK, ClearNext
    <3> QED
      BY <3>1 DEF CInv, TypeOK
  <2> QED
    BY <1>0, <2>2, <2>3, <2>4 DEF CInv, TypeOK, ClearNext, Keep, readVars
<1>2. StaleOnlyWhileClearing'
  <2> SUFFICES ASSUME NEW k \in Key \ suspect', NEW v \in cached'[k], NEW i \in View[k],
                      v[i] # version[i]
               PROVE  \E x \in Writer : (Pending(x, k) /\ Writing(x, i))'
    BY DEF StaleOnlyWhileClearing, ClearNext
  <2>1. k # Clears[kind[w]][next[w]] /\ v \in cached[k] /\ k \notin suspect
    BY <1>0 DEF CInv, TypeOK, ClearNext, Keep
  <2>2. PICK x \in Writer : Pending(x, k) /\ Writing(x, i)
    BY <2>1 DEF CInv, StaleOnlyWhileClearing
  <2>3. CASE x # w
    <3>1. next'[x] = next[x] /\ kind'[x] = kind[x]
      BY <2>3 DEF CInv, TypeOK, ClearNext
    <3> QED
      BY <2>2, <3>1 DEF Pending, Writing
  <2>4. CASE x = w
    <3>1. PICK n \in next[w] .. ClearCount(kind[w]) : Clears[kind[w]][n] = k
      BY <2>2, <2>4 DEF Pending
    <3>2. n \in next[w] + 1 .. ClearCount(kind[w]) /\ next[w] # ClearCount(kind[w])
      BY <1>0, <2>1, <3>1 DEF CInv, TypeOK
    <3>3. next'[w] = next[w] + 1 /\ kind'[w] = kind[w]
      BY <3>2 DEF CInv, TypeOK, ClearNext
    <3> QED
      BY <1>0, <2>2, <2>4, <3>1, <3>2, <3>3 DEF Pending, Writing
  <2> QED
    BY <2>3, <2>4
<1>3. FloorBehind'
  BY DEF CInv, ClearNext, FloorBehind, readVars
<1>4. LookupsCovered'
  BY <1>0 DEF CInv, ClearNext, TypeOK, LookupsCovered, readVars, Keep
<1>5. LoadsCovered'
  BY DEF CInv, ClearNext, LoadsCovered, readVars
<1>6. AnswersShowFinishedWrites'
  BY DEF CInv, ClearNext, AnswersShowFinishedWrites, readVars
<1> QED
  BY <1>1, <1>2, <1>3, <1>4, <1>5, <1>6 DEF CInv

(* Clears are lost.                                                         *)
LEMMA WriterDiesStep ==
  ASSUME CInv, NEW w \in Writer, WriterDies(w)
  PROVE  CInv'
<1>1. TypeOK'
  BY ClearsLength DEF CInv, WriterDies, TypeOK, Kind, readVars
<1>2. StaleOnlyWhileClearing'
  <2> SUFFICES ASSUME NEW k \in Key \ suspect', NEW v \in cached[k], NEW i \in View[k],
                      v[i] # version[i]
               PROVE  \E x \in Writer : (Pending(x, k) /\ Writing(x, i))'
    BY DEF StaleOnlyWhileClearing, WriterDies
  <2>1. k \notin suspect /\ ~Pending(w, k)
    BY DEF WriterDies
  <2>2. PICK x \in Writer : Pending(x, k) /\ Writing(x, i)
    BY <2>1 DEF CInv, StaleOnlyWhileClearing
  <2>3. next'[x] = next[x] /\ kind'[x] = kind[x]
    BY <2>1, <2>2 DEF CInv, TypeOK, WriterDies
  <2> QED
    BY <2>2, <2>3 DEF Pending, Writing
<1>3. FloorBehind'
  BY DEF CInv, WriterDies, FloorBehind, readVars
<1>4. LookupsCovered'
  BY DEF CInv, WriterDies, TypeOK, LookupsCovered, readVars, Keep
<1>5. LoadsCovered'
  BY DEF CInv, WriterDies, LoadsCovered, readVars
<1>6. AnswersShowFinishedWrites'
  BY DEF CInv, WriterDies, AnswersShowFinishedWrites, readVars
<1> QED
  BY <1>1, <1>2, <1>3, <1>4, <1>5, <1>6 DEF CInv

(* An entry expires.                                                        *)
LEMMA ExpireStep ==
  ASSUME CInv, NEW k \in Key, Expire(k)
  PROVE  CInv'
<1>1. TypeOK'
  BY DEF CInv, Expire, Keep, TypeOK, readVars, writerVars
<1>2. StaleOnlyWhileClearing'
  BY DEF CInv, TypeOK, Expire, Keep, StaleOnlyWhileClearing, Pending, Writing, writerVars
<1>3. FloorBehind'
  BY DEF CInv, Expire, FloorBehind, readVars
<1>4. LookupsCovered'
  BY DEF CInv, Expire, TypeOK, LookupsCovered, readVars, Keep
<1>5. LoadsCovered'
  BY DEF CInv, Expire, LoadsCovered, readVars
<1>6. AnswersShowFinishedWrites'
  BY DEF CInv, Expire, AnswersShowFinishedWrites, readVars
<1> QED
  BY <1>1, <1>2, <1>3, <1>4, <1>5, <1>6 DEF CInv

(* A read begins.                                                           *)
LEMMA BeginStep ==
  ASSUME CInv, NEW r \in Read, NEW k \in Key, Begin(r, k)
  PROVE  CInv'
<1>1. TypeOK'
  BY MaxVersionAssumption, ViewsOfItems DEF CInv, Begin, TypeOK, ReadStep, writerVars, Versions, Zero, Item
<1>2. StaleOnlyWhileClearing'
  BY DEF CInv, Begin, StaleOnlyWhileClearing, Pending, Writing, writerVars
<1>3. FloorBehind'
  BY DEF CInv, Begin, TypeOK, Versions, FloorBehind
<1>4. LookupsCovered'
  <2> SUFFICES ASSUME NEW s \in Read, step'[s] = "lookup", key'[s] \notin suspect,
                      NEW v \in cached[key'[s]], NEW i \in View[key'[s]]
               PROVE  floor'[s][i] <= v[i]
    BY DEF LookupsCovered, Begin
  <2>1. CASE s # r
    BY <2>1 DEF CInv, TypeOK, Begin, LookupsCovered
  <2>2. CASE s = r
    <3>1. key'[s] = k /\ i \in Item /\ v[i] \in Nat /\ version[i] \in Nat
      BY <2>2, ViewsOfItems DEF CInv, TypeOK, Begin, Versions
    <3>2. CASE \A w \in Writer : ~Writing(w, i)
      BY <2>2, <3>1, <3>2 DEF CInv, TypeOK, Begin, StaleOnlyWhileClearing
    <3>3. CASE \E w \in Writer : Writing(w, i)
      BY <2>2, <3>1, <3>3 DEF CInv, TypeOK, Begin
    <3> QED
      BY <3>2, <3>3
  <2> QED
    BY <2>1, <2>2
<1>5. LoadsCovered'
  BY DEF CInv, Begin, TypeOK, Versions, Zero, Item, LoadsCovered
<1>6. AnswersShowFinishedWrites'
  BY DEF CInv, Begin, AnswersShowFinishedWrites, TypeOK
<1> QED
  BY <1>1, <1>2, <1>3, <1>4, <1>5, <1>6 DEF CInv

(* A read is answered from the cache.                                       *)
LEMMA HitStep ==
  ASSUME CInv, NEW r \in Read, Hit(r)
  PROVE  CInv'
<1>1. TypeOK'
  BY DEF CInv, Hit, TypeOK, ReadStep, writerVars
<1>2. StaleOnlyWhileClearing'
  BY DEF CInv, Hit, StaleOnlyWhileClearing, Pending, Writing, writerVars
<1>3. FloorBehind'
  BY DEF CInv, Hit, FloorBehind, TypeOK
<1>4. LookupsCovered'
  BY DEF CInv, Hit, LookupsCovered, TypeOK
<1>5. LoadsCovered'
  BY ViewsOfItems DEF CInv, Hit, LoadsCovered, TypeOK
<1>6. AnswersShowFinishedWrites'
  BY DEF CInv, Hit, AnswersShowFinishedWrites, LookupsCovered, TypeOK
<1> QED
  BY <1>1, <1>2, <1>3, <1>4, <1>5, <1>6 DEF CInv

(* A read goes on to the tables.                                            *)
LEMMA MissStep ==
  ASSUME CInv, NEW r \in Read, Miss(r)
  PROVE  CInv'
<1>1. TypeOK'
  BY DEF CInv, Miss, TypeOK, ReadStep, writerVars
<1>2. StaleOnlyWhileClearing'
  BY DEF CInv, Miss, StaleOnlyWhileClearing, Pending, Writing, writerVars
<1>3. FloorBehind'
  BY DEF CInv, Miss, FloorBehind, TypeOK
<1>4. LookupsCovered'
  BY DEF CInv, Miss, LookupsCovered, TypeOK
<1>5. LoadsCovered'
  BY DEF CInv, Miss, LoadsCovered, TypeOK, Key, View
<1>6. AnswersShowFinishedWrites'
  BY DEF CInv, Miss, AnswersShowFinishedWrites, TypeOK
<1> QED
  BY <1>1, <1>2, <1>3, <1>4, <1>5, <1>6 DEF CInv

(* The first SELECT.                                                        *)
LEMMA LoadStep ==
  ASSUME CInv, NEW r \in Read, Load(r)
  PROVE  CInv'
<1>1. TypeOK'
  <2>1. ASSUME NEW i \in Item, SeesNow(r, i) PROVE value' \in [Read -> Versions]
    BY <2>1 DEF CInv, TypeOK, SeesNow, Versions
  <2>2. value' \in [Read -> Versions]
    BY <2>1 DEF Load, Item
  <2> QED
    BY <2>2 DEF CInv, TypeOK, Load, ReadStep, writerVars
<1>2. StaleOnlyWhileClearing'
  BY DEF CInv, Load, StaleOnlyWhileClearing, Pending, Writing, writerVars
<1>3. FloorBehind'
  BY DEF CInv, Load, FloorBehind, TypeOK
<1>4. LookupsCovered'
  BY DEF CInv, Load, LookupsCovered, TypeOK
<1>5. LoadsCovered'
  BY DEF CInv, Load, SeesNow, LoadsCovered, FloorBehind, TypeOK, Versions, Item, View
<1>6. AnswersShowFinishedWrites'
  BY DEF CInv, Load, SeesNow, AnswersShowFinishedWrites, TypeOK
<1> QED
  BY <1>1, <1>2, <1>3, <1>4, <1>5, <1>6 DEF CInv

(* The second SELECT.                                                       *)
LEMMA LoadMoreStep ==
  ASSUME CInv, NEW r \in Read, LoadMore(r)
  PROVE  CInv'
<1>1. TypeOK'
  BY DEF CInv, LoadMore, TypeOK, ReadStep, writerVars, SeesNow, Versions, Item
<1>2. StaleOnlyWhileClearing'
  BY DEF CInv, LoadMore, StaleOnlyWhileClearing, Pending, Writing, writerVars
<1>3. FloorBehind'
  BY DEF CInv, LoadMore, FloorBehind, TypeOK
<1>4. LookupsCovered'
  BY DEF CInv, LoadMore, LookupsCovered, TypeOK
<1>5. LoadsCovered'
  BY DEF CInv, LoadMore, SeesNow, LoadsCovered, FloorBehind, TypeOK, Versions, Item, View
<1>6. AnswersShowFinishedWrites'
  BY DEF CInv, LoadMore, SeesNow, AnswersShowFinishedWrites, TypeOK
<1> QED
  BY <1>1, <1>2, <1>3, <1>4, <1>5, <1>6 DEF CInv

(* A result is stored.                                                      *)
LEMMA StoreStep ==
  ASSUME CInv, NEW r \in Read, Store(r)
  PROVE  CInv'
<1>1. TypeOK'
  BY DEF CInv, Store, TypeOK, ReadStep, writerVars
<1>2. StaleOnlyWhileClearing'
  BY DEF CInv, TypeOK, Store, OutOfDate, StaleOnlyWhileClearing, Pending, Writing, writerVars
<1>3. FloorBehind'
  BY DEF CInv, Store, FloorBehind, TypeOK
<1>4. LookupsCovered'
  <2> SUFFICES ASSUME NEW s \in Read, step'[s] = "lookup", key[s] \notin suspect',
                      NEW v \in cached'[key[s]], NEW i \in View[key[s]]
               PROVE  floor[s][i] <= v[i]
    BY DEF LookupsCovered, Store
  <2>1. s # r /\ step[s] = "lookup" /\ key[s] \in Key
    BY DEF CInv, TypeOK, Store
  <2>2. CASE v = value[r] /\ key[s] = key[r]
    BY <2>1, <2>2, ViewsOfItems DEF CInv, Store, OutOfDate, FloorBehind
  <2>3. CASE ~(v = value[r] /\ key[s] = key[r])
    <3>1. v \in cached[key[s]] /\ key[s] \notin suspect
      BY <2>1, <2>3 DEF CInv, TypeOK, Store
    <3> QED
      BY <2>1, <3>1 DEF CInv, LookupsCovered
  <2> QED
    BY <2>2, <2>3
<1>5. LoadsCovered'
  BY ViewsOfItems DEF CInv, Store, LoadsCovered, TypeOK
<1>6. AnswersShowFinishedWrites'
  BY DEF CInv, Store, AnswersShowFinishedWrites, LoadsCovered, TypeOK
<1> QED
  BY <1>1, <1>2, <1>3, <1>4, <1>5, <1>6 DEF CInv

(* A result is answered unstored.                                           *)
LEMMA StoreFailsStep ==
  ASSUME CInv, NEW r \in Read, StoreFails(r)
  PROVE  CInv'
<1>1. TypeOK'
  BY DEF CInv, StoreFails, TypeOK, ReadStep, writerVars
<1>2. StaleOnlyWhileClearing'
  BY DEF CInv, StoreFails, StaleOnlyWhileClearing, Pending, Writing, writerVars
<1>3. FloorBehind'
  BY DEF CInv, StoreFails, FloorBehind, TypeOK
<1>4. LookupsCovered'
  BY DEF CInv, StoreFails, LookupsCovered, TypeOK
<1>5. LoadsCovered'
  BY ViewsOfItems DEF CInv, StoreFails, LoadsCovered, TypeOK
<1>6. AnswersShowFinishedWrites'
  BY DEF CInv, StoreFails, AnswersShowFinishedWrites, LoadsCovered, TypeOK
<1> QED
  BY <1>1, <1>2, <1>3, <1>4, <1>5, <1>6 DEF CInv

(* A read is over.                                                          *)
LEMMA EndStep ==
  ASSUME CInv, NEW r \in Read, End(r)
  PROVE  CInv'
<1>1. TypeOK'
  BY MaxVersionAssumption DEF CInv, End, TypeOK, ReadStep, writerVars, Key, Versions, Zero
<1>2. StaleOnlyWhileClearing'
  BY DEF CInv, End, StaleOnlyWhileClearing, Pending, Writing, writerVars
<1>3. FloorBehind'
  BY DEF CInv, End, FloorBehind, TypeOK, Versions, Zero
<1>4. LookupsCovered'
  BY DEF CInv, End, LookupsCovered, TypeOK
<1>5. LoadsCovered'
  BY ViewsOfItems DEF CInv, End, LoadsCovered, TypeOK
<1>6. AnswersShowFinishedWrites'
  BY DEF CInv, End, AnswersShowFinishedWrites, TypeOK
<1> QED
  BY <1>1, <1>2, <1>3, <1>4, <1>5, <1>6 DEF CInv

(* Every step keeps the invariant.                                           *)
LEMMA NextInvariant == CInv /\ [Next]_vars => CInv'
<1> SUFFICES ASSUME CInv, [Next]_vars PROVE CInv'
  OBVIOUS
<1>1. CASE \E w \in Writer : (\E c \in Kind : Commit(w, c)) \/ ClearNext(w) \/ WriterDies(w)
  BY <1>1, CommitStep, ClearNextStep, WriterDiesStep
<1>2. CASE \E k \in Key : Expire(k)
  BY <1>2, ExpireStep
<1>3. CASE \E r \in Read, k \in Called : Begin(r, k)
  BY <1>3, BeginStep, CalledAssumption DEF Key
<1>4. CASE \E r \in Read : Hit(r) \/ Miss(r) \/ Load(r) \/ LoadMore(r)
  BY <1>4, HitStep, MissStep, LoadStep, LoadMoreStep
<1>5. CASE \E r \in Read : Store(r) \/ StoreFails(r) \/ End(r)
  BY <1>5, StoreStep, StoreFailsStep, EndStep
<1>6. CASE UNCHANGED vars
  BY <1>6 DEF vars, writerVars, readVars, CInv, TypeOK, StaleOnlyWhileClearing, Pending,
              Writing, FloorBehind, LookupsCovered, LoadsCovered, AnswersShowFinishedWrites
<1> QED
  BY <1>1, <1>2, <1>3, <1>4, <1>5, <1>6 DEF Next

(* The invariant holds throughout.                                          *)
THEOREM Invariance == Spec => []CInv
  BY InitInvariant, NextInvariant, PTL DEF Spec

(* Versions, entries, reads and clears stay well-formed: an index in Clears *)
(* never passes the end of the clears of its writer.                        *)
THEOREM TypeCorrect == Spec => []TypeOK
  BY Invariance, PTL DEF CInv

(* Every writer's clears cover every view of what it writes: an entry is    *)
(* behind in a datum only while its writer clears, or was stored behind, or *)
(* lost its clear (services, FastAPICache.clear after each commit).       *)
THEOREM StaleOnlyWhileClearingTheorem == Spec => []StaleOnlyWhileClearing
  BY Invariance, PTL DEF CInv

(* A GET that begins after a write was answered shows the write, save by a  *)
(* hit on an entry of those two kinds.                                      *)
THEOREM AnswersShowFinishedWritesTheorem == Spec => []AnswersShowFinishedWrites
  BY Invariance, PTL DEF CInv
=============================================================================
