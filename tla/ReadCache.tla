----------------------------- MODULE ReadCache -----------------------------
(***************************************************************************)
(* The read caches of the API: GET /me, /batches, /batches/{id} and         *)
(* /predictions/recent carry @cache of fastapi-cache, which looks the key   *)
(* up in Redis, on a miss runs the endpoint and stores its result for 15 to *)
(* 60 seconds.  Writers commit first and clear afterwards, one              *)
(* FastAPICache.clear per namespace.  The module follows one user and one   *)
(* batch with its prediction: entries of other ids hold other data.  A      *)
(* datum is the number of commits that changed it.                          *)
(*                                                                         *)
(* The keys of me and detail name the user and the batch: one entry.  Those *)
(* of list and recent come from the library's default key builder, which    *)
(* hashes the arguments of the call, the page among them: several entries   *)
(* live side by side in the namespace, and which of them a call finds, if   *)
(* any, is left open.                                                       *)
(***************************************************************************)
EXTENDS Naturals, Sequences

CONSTANTS Called,    \* bound: keys of the endpoints that are called
          Read,      \* slots of GET requests in flight
          Writer,    \* slots of writing requests and jobs in flight
          MaxVersion \* bound: commits that change one datum

ASSUME CalledAssumption == Called \subseteq {"me", "list", "detail", "recent"}
ASSUME MaxVersionAssumption == MaxVersion \in Nat

Item == {"user", "batch", "prediction"}
(* Keys of the cache: that of /me by the id of its user, that of a batch's  *)
(* detail by the id of the batch, those of the two lists by the arguments.  *)
Key == {"me", "list", "detail", "recent"}
Kind == {"manage_user", "record_prediction", "change_batch", "relabel"}

VARIABLES
    version,  \* Postgres: item -> its version
    cached,   \* Redis: key -> its entries, each the versions it shows
    kind,     \* writer -> what it commits
    next,     \* writer -> index in Clears of the next clear; 0 when idle
    step,     \* read -> how far it is
    key,      \* read -> the key it asks for
    value,    \* read -> versions it has loaded or answers with
    floor,    \* history: read -> versions that writes finished before it set
    excused,  \* history: read -> its answer is a hit on a suspect entry
    suspect   \* history: keys with an entry that was out of date when stored
              \*   or that a lost clear was to drop

writerVars == <<kind, next>>
readVars == <<step, key, value, floor, excused>>
vars == <<version, cached, writerVars, readVars, suspect>>

Versions == [Item -> 0 .. MaxVersion]
Zero == [i \in Item |-> 0]
ReadStep == {"idle", "lookup", "load", "loadMore", "store", "answered"}

(* The data an endpoint answers with.  The prediction_count of the list     *)
(* changes with the batch alone: record_prediction commits both.            *)
View == [me |-> {"user"}, list |-> {"batch"},
         detail |-> {"batch", "prediction"}, recent |-> {"prediction"}]

(* The data a writer changes: the three account operations; a batch row     *)
(* received from a browser or marked failed.                                *)
Changes == [manage_user |-> {"user"},
            record_prediction |-> {"batch", "prediction"},
            change_batch |-> {"batch"},
            relabel |-> {"prediction"}]

(* A relabel that leaves the recent predictions cached.                     *)
Clears_relabel_detail_only ==
    [manage_user |-> <<"me">>,
     record_prediction |-> <<"list", "detail", "recent">>,
     change_batch |-> <<"list", "detail">>,
     relabel |-> <<"detail">>]

(* The namespaces a writer clears after its commit, in order.               *)
Clears == [manage_user |-> <<"me">>,
           record_prediction |-> <<"list", "detail", "recent">>,
           change_batch |-> <<"list", "detail">>,
           relabel |-> <<"detail", "recent">>]

ClearCount(c) == Len(Clears[c])

TypeOK ==
    /\ version \in Versions
    /\ cached \in [Key -> SUBSET Versions]
    /\ kind \in [Writer -> Kind]
    /\ next \in [Writer -> 0 .. 3]
    /\ \A w \in Writer : next[w] <= ClearCount(kind[w])
    /\ step \in [Read -> ReadStep]
    /\ key \in [Read -> Key]
    /\ value \in [Read -> Versions]
    /\ floor \in [Read -> Versions]
    /\ excused \in [Read -> BOOLEAN]
    /\ suspect \in SUBSET Key

Init ==
    /\ version = Zero
    /\ cached = [k \in Key |-> {}]
    /\ kind = [w \in Writer |-> "manage_user"]
    /\ next = [w \in Writer |-> 0]
    /\ step = [r \in Read |-> "idle"]
    /\ key = [r \in Read |-> "me"]
    /\ value = [r \in Read |-> Zero]
    /\ floor = [r \in Read |-> Zero]
    /\ excused = [r \in Read |-> FALSE]
    /\ suspect = {}

(* The one entry of these keys is replaced by the next store.               *)
Single == {"me", "detail"}

(* Writer w has committed and its clear of k is still to come.              *)
Pending(w, k) ==
    next[w] > 0 /\ \E n \in next[w] .. ClearCount(kind[w]) : Clears[kind[w]][n] = k

Writing(w, i) == next[w] > 0 /\ i \in Changes[kind[w]]

-----------------------------------------------------------------------------
(* A service that returns after its commit without clearing anything.       *)
Commit_never_clears(w, c) ==
    /\ next[w] = 0
    /\ \A i \in Changes[c] : version[i] < MaxVersion
    /\ version' = [i \in Item |-> IF i \in Changes[c] THEN version[i] + 1
                                  ELSE version[i]]
    /\ UNCHANGED <<cached, writerVars, readVars, suspect>>

Commit(w, c) ==
    /\ next[w] = 0
    /\ \A i \in Changes[c] : version[i] < MaxVersion
    /\ version' = [i \in Item |-> IF i \in Changes[c] THEN version[i] + 1
                                  ELSE version[i]]
    /\ kind' = [kind EXCEPT ![w] = c]
    /\ next' = [next EXCEPT ![w] = 1]
    /\ UNCHANGED <<cached, readVars, suspect>>

(* The entries of k are now those in left; history ends with the last one.  *)
Keep(k, left) ==
    /\ cached' = [cached EXCEPT ![k] = left]
    /\ suspect' = IF left = {} THEN suspect \ {k} ELSE suspect

(* Clears that run on past the last namespace.                              *)
ClearNext_one_more(w) ==
    /\ next[w] \in 1 .. ClearCount(kind[w])
    /\ Keep(Clears[kind[w]][next[w]], {})
    /\ next' = [next EXCEPT ![w] = @ + 1]
    /\ UNCHANGED <<version, kind, readVars>>

ClearNext(w) ==
    /\ next[w] > 0
    /\ Keep(Clears[kind[w]][next[w]], {})
    /\ IF next[w] = ClearCount(kind[w])
       THEN next' = [next EXCEPT ![w] = 0] /\ kind' = [kind EXCEPT ![w] = "manage_user"]
       ELSE next' = [next EXCEPT ![w] = @ + 1] /\ kind' = kind
    /\ UNCHANGED <<version, readVars>>

(* Redis refuses a clear, or the process dies: the rest is not cleared.     *)
WriterDies(w) ==
    /\ next[w] > 0
    /\ suspect' = suspect \cup {k \in Key : Pending(w, k) /\ cached[k] # {}}
    /\ next' = [next EXCEPT ![w] = 0]
    /\ kind' = [kind EXCEPT ![w] = "manage_user"]
    /\ UNCHANGED <<version, cached, readVars>>

(* The time to live of an entry is over.                                    *)
Expire(k) ==
    /\ \E v \in cached[k] : Keep(k, cached[k] \ {v})
    /\ UNCHANGED <<version, writerVars, readVars>>

-----------------------------------------------------------------------------
(* A request comes in.  The dependencies run before the lookup: they load   *)
(* the user, which is all that GET /me answers with.                        *)
Begin(r, k) ==
    /\ step[r] = "idle"
    /\ step' = [step EXCEPT ![r] = "lookup"]
    /\ key' = [key EXCEPT ![r] = k]
    /\ value' = [value EXCEPT ![r] = IF k = "me"
                    THEN [Zero EXCEPT !["user"] = version["user"]] ELSE Zero]
    /\ floor' = [floor EXCEPT ![r] =
                    [i \in Item |-> IF i \in View[k] /\ \A w \in Writer : ~Writing(w, i)
                                    THEN version[i] ELSE 0]]
    /\ UNCHANGED <<version, cached, writerVars, excused, suspect>>

Hit(r) ==
    LET k == key[r] IN
    /\ step[r] = "lookup"
    /\ \E v \in cached[k] : value' = [value EXCEPT ![r] = v]
    /\ excused' = [excused EXCEPT ![r] = k \in suspect]
    /\ step' = [step EXCEPT ![r] = "answered"]
    /\ UNCHANGED <<version, cached, writerVars, key, floor, suspect>>

(* No entry under the key, or Redis does not answer (the decorator logs     *)
(* that and goes on).                                                       *)
Miss(r) ==
    /\ step[r] = "lookup"
    /\ step' = [step EXCEPT ![r] = IF key[r] = "me" THEN "store" ELSE "load"]
    /\ UNCHANGED <<version, cached, writerVars, key, value, floor, excused, suspect>>

SeesNow(r, i) == value' = [value EXCEPT ![r][i] = version[i]]

(* The first SELECT of the endpoint, the batch in the case of get_batch.    *)
Load(r) ==
    /\ step[r] = "load"
    /\ \/ key[r] \in {"list", "detail"} /\ SeesNow(r, "batch")
       \/ key[r] = "recent" /\ SeesNow(r, "prediction")
    /\ step' = [step EXCEPT ![r] = IF key[r] = "detail" THEN "loadMore" ELSE "store"]
    /\ UNCHANGED <<version, cached, writerVars, key, floor, excused, suspect>>

(* The second SELECT of get_batch: another snapshot.                        *)
LoadMore(r) ==
    /\ step[r] = "loadMore"
    /\ SeesNow(r, "prediction")
    /\ step' = [step EXCEPT ![r] = "store"]
    /\ UNCHANGED <<version, cached, writerVars, key, floor, excused, suspect>>

OutOfDate(v, k) == \E i \in View[k] : v[i] # version[i]

(* The decorator stores what the endpoint returned, whatever was committed  *)
(* or cleared since it was loaded, and answers with it.                     *)
Store(r) ==
    LET k == key[r] IN
    /\ step[r] = "store"
    /\ \E others \in SUBSET cached[k] :
         /\ k \in Single => others = {}
         /\ cached' = [cached EXCEPT ![k] = others \cup {value[r]}]
    /\ suspect' = IF OutOfDate(value[r], k) THEN suspect \cup {k}
                  ELSE IF k \in Single THEN suspect \ {k} ELSE suspect
    /\ excused' = [excused EXCEPT ![r] = FALSE]
    /\ step' = [step EXCEPT ![r] = "answered"]
    /\ UNCHANGED <<version, writerVars, key, value, floor>>

(* Redis refuses the entry; the decorator logs that and answers.            *)
StoreFails(r) ==
    /\ step[r] = "store"
    /\ excused' = [excused EXCEPT ![r] = FALSE]
    /\ step' = [step EXCEPT ![r] = "answered"]
    /\ UNCHANGED <<version, cached, writerVars, key, value, floor, suspect>>

End(r) ==
    /\ step[r] = "answered"
    /\ step' = [step EXCEPT ![r] = "idle"]
    /\ key' = [key EXCEPT ![r] = "me"]
    /\ value' = [value EXCEPT ![r] = Zero]
    /\ floor' = [floor EXCEPT ![r] = Zero]
    /\ excused' = [excused EXCEPT ![r] = FALSE]
    /\ UNCHANGED <<version, cached, writerVars, suspect>>

Next ==
    \/ \E w \in Writer : (\E c \in Kind : Commit(w, c)) \/ ClearNext(w) \/ WriterDies(w)
    \/ \E k \in Key : Expire(k)
    \/ \E r \in Read :
        \/ \E k \in Called : Begin(r, k)
        \/ Hit(r) \/ Miss(r) \/ Load(r) \/ LoadMore(r)
        \/ Store(r) \/ StoreFails(r) \/ End(r)

Spec == Init /\ [][Next]_vars

-----------------------------------------------------------------------------
(* An entry that was up to date when it was stored and whose clears arrive  *)
(* is out of date in a datum only while a writer that changed that datum    *)
(* has still to clear it: every writer clears every view of what it writes. *)
(* (Out of date when stored is also what get_batch makes of two SELECTs     *)
(* with a commit between them, if it is cached after that commit.)          *)
StaleOnlyWhileClearing ==
    \A k \in Key \ suspect : \A v \in cached[k] : \A i \in View[k] :
        v[i] # version[i] =>
            \E w \in Writer : Pending(w, k) /\ Writing(w, i)

(* A GET that begins after a write was answered shows that write, unless    *)
(* it hits an entry that was out of date when stored or whose clear was     *)
(* lost: no other interleaving of reads, commits, clears and expiries       *)
(* serves an old answer.                                                    *)
AnswersShowFinishedWrites ==
    \A r \in Read : step[r] = "answered" /\ ~excused[r] =>
        \A i \in View[key[r]] : floor[r][i] <= value[r][i]
=============================================================================
