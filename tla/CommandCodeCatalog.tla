------------------------- MODULE CommandCodeCatalog -------------------------
(***************************************************************************)
(* The model catalog of the Command Code plugin                            *)
(* (auth-commandcode/go/models.go: catalogFor, fetchModels).               *)
(*                                                                         *)
(* Its one user, modelsForAuth, refreshes and passes a context nobody      *)
(* cancels.  Callers of one key share a fetch: the leader fetches outside  *)
(* the lock, the others wait for what it stores.  After a failure the list *)
(* known before is served, for a while (catalogBackoff) without a fetch.   *)
(*                                                                         *)
(* A step is one critical section of modelCatalogs.mu, one receive, or the *)
(* upstream's answer.  A list goes by the number of its publication; what  *)
(* it may be is CommandCodeModels'.                                        *)
(***************************************************************************)
EXTENDS CommandCodeModels

CONSTANTS
  Callers,     \* calls of modelsForAuth
  Keys,        \* API keys
  None,
  MaxVersion,  \* bound: publications of one key's list
  Usable       \* publications parseModelsResponse accepts: some id is not blank

ASSUME CatalogAssumption ==
  /\ None \notin Callers
  /\ MaxVersion \in Nat
  /\ Usable \subseteq 1..MaxVersion

VARIABLES
  published,  \* [Keys -> the publication the upstream answers with]
  entries,    \* modelCatalogs.entries: the list (0: none) and whether it is on back-off
  inflight,   \* modelCatalogs.inflight: whose catalogWait it is
  wait,       \* [Callers -> the catalogWait the caller made]
  caller      \* [Callers -> the call and its variables]

catalogVars == <<published, entries, inflight, wait, caller>>

Versions == 0..MaxVersion

Entry == [version : Versions, backoff : BOOLEAN]

Wait == [done : BOOLEAN, version : Versions]

\* "known" is a history: the list in the cache when the call began.
Caller == [pc : {"idle", "joined", "fetching", "fetched", "returned"},
           key : Keys \cup {None}, leader : Callers \cup {None},
           version : Versions, known : Versions]

CatalogTypeOK ==
  /\ published \in [Keys -> Versions]
  /\ entries \in [Keys -> Entry]
  /\ inflight \in [Keys -> Callers \cup {None}]
  /\ wait \in [Callers -> Wait]
  /\ caller \in [Callers -> Caller]

-----------------------------------------------------------------------------
CallerBecomes(a, value) == caller' = [caller EXCEPT ![a] = value]

Asks(a, k, pc) ==
  [caller[a] EXCEPT !.pc = pc, !.key = k, !.known = entries[k].version]

Leads(a) == caller[a].pc \in {"fetching", "fetched"}

\* After a failed fetch the known list is served without another.
ServedFromBackoff(a, k) ==
  /\ caller[a].pc = "idle"
  /\ entries[k].backoff /\ entries[k].version # 0
  /\ CallerBecomes(a, [Asks(a, k, "returned") EXCEPT !.version = entries[k].version])
  /\ UNCHANGED <<published, entries, inflight, wait>>

\* Variant: the back-off is only written.
MustFetch_Always(a, k) == caller[a].pc = "idle" /\ k \in Keys

MustFetch(a, k) ==
  /\ caller[a].pc = "idle"
  /\ ~(entries[k].backoff /\ entries[k].version # 0)

\* A fetch of the key is under way.
Join(a, k) ==
  /\ MustFetch(a, k)
  /\ inflight[k] # None
  /\ CallerBecomes(a, [Asks(a, k, "joined") EXCEPT !.leader = inflight[k]])
  /\ UNCHANGED <<published, entries, inflight, wait>>

\* Variant: everyone fetches.
Lead_Always(a, k) ==
  /\ MustFetch(a, k)
  /\ inflight' = [inflight EXCEPT ![k] = a]
  /\ CallerBecomes(a, Asks(a, k, "fetching"))
  /\ UNCHANGED <<published, entries, wait>>

Lead(a, k) ==
  /\ MustFetch(a, k)
  /\ inflight[k] = None
  /\ inflight' = [inflight EXCEPT ![k] = a]
  /\ CallerBecomes(a, Asks(a, k, "fetching"))
  /\ UNCHANGED <<published, entries, wait>>

\* fetchModels returns the upstream's list.
FetchAnswers(a) ==
  /\ caller[a].pc = "fetching"
  /\ published[caller[a].key] \in Usable
  /\ CallerBecomes(a, [caller[a] EXCEPT !.pc = "fetched", !.version = published[caller[a].key]])
  /\ UNCHANGED <<published, entries, inflight, wait>>

\* fetchModels fails: no answer, another status, or a list with no usable id.
FetchFails(a) ==
  /\ caller[a].pc = "fetching"
  /\ CallerBecomes(a, [caller[a] EXCEPT !.pc = "fetched", !.version = 0])
  /\ UNCHANGED <<published, entries, inflight, wait>>

\* What the leader leaves in its catalogWait and returns: its list, else the known one.
Outcome(a) ==
  IF caller[a].version # 0 THEN caller[a].version ELSE entries[caller[a].key].version

\* Variant: a failure is handed to those who joined, as it is.
Shared_Raw(a) == caller[a].version

Shared(a) == Outcome(a)

\* The entry afterwards; a failure starts the back-off, of a list that is known.
Stored(a) ==
  [version |-> Outcome(a), backoff |-> caller[a].version = 0 /\ Outcome(a) # 0]

Unlisted(a) == [inflight EXCEPT ![caller[a].key] = None]

\* Variant: the return of a failure forgets to close done.
Closed_OnSuccess(a) == caller[a].version # 0

Closed(a) == Leads(a)

\* The critical section after the fetch.
Store(a) ==
  /\ caller[a].pc = "fetched"
  /\ inflight' = Unlisted(a)
  /\ entries' = [entries EXCEPT ![caller[a].key] = Stored(a)]
  /\ wait' = [wait EXCEPT ![a] = [done |-> Closed(a), version |-> Shared(a)]]
  /\ CallerBecomes(a, [caller[a] EXCEPT !.pc = "returned", !.version = Outcome(a)])
  /\ UNCHANGED published

\* wait.done is closed.
JoinedReturns(a) ==
  /\ caller[a].pc = "joined"
  /\ wait[caller[a].leader].done
  /\ CallerBecomes(a, [caller[a] EXCEPT !.pc = "returned",
                                        !.version = wait[caller[a].leader].version])
  /\ UNCHANGED <<published, entries, inflight, wait>>

\* catalogBackoff has passed.
BackoffEnds(k) ==
  /\ entries[k].backoff
  /\ entries' = [entries EXCEPT ![k].backoff = FALSE]
  /\ UNCHANGED <<published, inflight, wait, caller>>

\* The upstream's list changes.
Publish(k) ==
  /\ published[k] < MaxVersion
  /\ published' = [published EXCEPT ![k] = published[k] + 1]
  /\ UNCHANGED <<entries, inflight, wait, caller>>

-----------------------------------------------------------------------------
CatalogInit ==
  /\ published = [k \in Keys |-> 0]
  /\ entries = [k \in Keys |-> [version |-> 0, backoff |-> FALSE]]
  /\ inflight = [k \in Keys |-> None]
  /\ wait = [a \in Callers |-> [done |-> FALSE, version |-> 0]]
  /\ caller = [a \in Callers |->
       [pc |-> "idle", key |-> None, leader |-> None, version |-> 0, known |-> 0]]

Ask(a) == \E k \in Keys : ServedFromBackoff(a, k) \/ Join(a, k) \/ Lead(a, k)

CallerStep(a) == FetchAnswers(a) \/ FetchFails(a) \/ Store(a) \/ JoinedReturns(a)

CatalogNext ==
  \/ \E a \in Callers : Ask(a) \/ CallerStep(a)
  \/ \E k \in Keys : BackoffEnds(k) \/ Publish(k)

CatalogSpec == CatalogInit /\ [][CatalogNext]_catalogVars

\* A call that has begun goes on; a fetch ends (doJSON has a timeout, and the host's call returns).
CatalogFairSpec == CatalogSpec /\ \A a \in Callers : WF_catalogVars(CallerStep(a))

-----------------------------------------------------------------------------
\* Concurrent calls for a key cost one request (models_test.go:91): whoever fetches is the
\* one the key's in-flight entry names, and that one is fetching.
OneFetchPerKey ==
  \A k \in Keys, a \in Callers : inflight[k] = a <=> Leads(a) /\ caller[a].key = k

\* No call, leading, joined or on back-off, answers with an error or an older list when a
\* list was known as it began, whatever fails meanwhile (models_test.go:47).
KnownListServed ==
  \A a \in Callers : caller[a].pc = "returned" => caller[a].version >= caller[a].known

\* Those who share a fetch get the same answer.
JoinersAgree ==
  \A a, b \in Callers :
    (caller[a].pc = "returned" /\ caller[b].pc = "returned" /\ caller[a].leader = b) =>
      caller[a].version = caller[b].version

\* Every call answers the list known, or a newer one, and those who share a fetch the same.
AnswersAreCurrent == KnownListServed /\ JoinersAgree

\* A list is never lost nor replaced by an older one, although fetches fail and answers
\* are stored some time after the upstream gave them.
CatalogNeverGoesBack ==
  [][\A k \in Keys : entries'[k].version >= entries[k].version]_catalogVars

\* The upstream is left alone for the time of the back-off: no fetch of the key runs.
BackoffIsQuiet ==
  \A k \in Keys : entries[k].backoff => inflight[k] = None

\* The upstream is asked for a key's list by one call at a time, and by none on back-off.
UpstreamIsSpared == OneFetchPerKey /\ BackoffIsQuiet

\* Whoever is answered a list is offered each of its models that nobody hides, once, and each
\* request goes to the endpoint of its model, whatever list is known (models.go:179, 228).
ModelsAreListed ==
  \A a \in Callers : (caller[a].pc = "returned" /\ caller[a].version # 0) => ModelsGoByTheirIds

\* Every call returns: no one waits for a leader that has gone.
CatalogReturns == \A a \in Callers : caller[a].pc = "joined" ~> caller[a].pc = "returned"
=============================================================================
