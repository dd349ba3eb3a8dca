------------------------- MODULE CommandCodeProofs -------------------------
(***************************************************************************)
(* Theorems about the Command Code plugin: its model catalog, for any      *)
(* number of callers, keys and publications, its requests, for any number  *)
(* of requests and events, and what goes upstream of them, for any images, *)
(* bodies and bases.                                                       *)
(***************************************************************************)
EXTENDS CommandCodeCatalog, MCCommandCodeStream, ListTheorems, FiniteSetTheorems, TLAPS

-----------------------------------------------------------------------------
(***************************************************************************)
(* The model catalog.                                                      *)
(***************************************************************************)
(* The inductive invariant. *)

\* Whoever has begun has a key, and only those who joined have a leader.
CallsHaveKeys ==
  \A a \in Callers :
    /\ caller[a].pc # "idle" => caller[a].key \in Keys
    /\ caller[a].pc \in {"idle", "fetching", "fetched"} => caller[a].leader = None
    /\ caller[a].pc = "joined" => caller[a].leader \in Callers

\* A back-off is of a list that is known.
BackoffHasList == \A k \in Keys : entries[k].backoff => entries[k].version # 0

\* What is stored was published, and what is fetched is no older than what is stored.
StoredIsOlder ==
  /\ \A k \in Keys : entries[k].version <= published[k]
  /\ \A a \in Callers : caller[a].pc = "fetched" /\ caller[a].version # 0 =>
       /\ caller[a].version >= entries[caller[a].key].version
       /\ caller[a].version <= published[caller[a].key]

\* The list a call knew is still there.
KnownIsStored ==
  \A a \in Callers : caller[a].pc # "idle" =>
    caller[a].known <= entries[caller[a].key].version

\* A wait is done when its leader has returned, with what the leader returned.
DoneIsReturned ==
  \A b \in Callers : wait[b].done =>
    caller[b].pc = "returned" /\ wait[b].version = caller[b].version

\* The leader of one who joined is fetching the same key, or has left an answer.
JoinedHasLeader ==
  \A a \in Callers : caller[a].pc = "joined" =>
    LET b == caller[a].leader IN
    \/ Leads(b) /\ caller[b].key = caller[a].key
    \/ wait[b].done /\ wait[b].version >= caller[a].known

\* One who joined and has returned took the answer of its leader.
JoinedAnswer ==
  \A a \in Callers : caller[a].pc = "returned" /\ caller[a].leader # None =>
    LET b == caller[a].leader IN
    b \in Callers /\ wait[b].done /\ wait[b].version = caller[a].version

CatalogInv ==
  /\ CatalogTypeOK
  /\ CallsHaveKeys
  /\ OneFetchPerKey
  /\ BackoffIsQuiet
  /\ BackoffHasList
  /\ StoredIsOlder
  /\ KnownIsStored
  /\ KnownListServed
  /\ DoneIsReturned
  /\ JoinedHasLeader
  /\ JoinedAnswer

(***************************************************************************)
(* Type correctness.                                                       *)
(***************************************************************************)
LEMMA CatalogInitType == CatalogInit => CatalogTypeOK
BY CatalogAssumption DEF CatalogInit, CatalogTypeOK, Versions, Entry, Wait, Caller

LEMMA CatalogTypeStep ==
  ASSUME CatalogTypeOK, CallsHaveKeys, [CatalogNext]_catalogVars
  PROVE  CatalogTypeOK'
<1> USE CatalogAssumption DEF Versions
<1>1. ASSUME NEW a \in Callers, NEW k \in Keys, ServedFromBackoff(a, k)
      PROVE  CatalogTypeOK'
  <2>1. caller[a] \in Caller /\ entries[k] \in Entry
    BY DEF CatalogTypeOK
  <2>2. [Asks(a, k, "returned") EXCEPT !.version = entries[k].version] \in Caller
    BY <2>1 DEF Asks, Caller, Entry
  <2> QED
    BY <1>1, <2>2 DEF ServedFromBackoff, CallerBecomes, CatalogTypeOK
<1>2. ASSUME NEW a \in Callers, NEW k \in Keys, Join(a, k)
      PROVE  CatalogTypeOK'
  <2>1. caller[a] \in Caller /\ entries[k] \in Entry /\ inflight[k] \in Callers \cup {None}
    BY DEF CatalogTypeOK
  <2>2. [Asks(a, k, "joined") EXCEPT !.leader = inflight[k]] \in Caller
    BY <2>1 DEF Asks, Caller, Entry
  <2> QED
    BY <1>2, <2>2 DEF Join, CallerBecomes, CatalogTypeOK
<1>3. ASSUME NEW a \in Callers, NEW k \in Keys, Lead(a, k)
      PROVE  CatalogTypeOK'
  <2>1. caller[a] \in Caller /\ entries[k] \in Entry
    BY DEF CatalogTypeOK
  <2>2. Asks(a, k, "fetching") \in Caller
    BY <2>1 DEF Asks, Caller, Entry
  <2> QED
    BY <1>3, <2>2 DEF Lead, CallerBecomes, CatalogTypeOK
<1>4. ASSUME NEW a \in Callers, FetchAnswers(a) \/ FetchFails(a)
      PROVE  CatalogTypeOK'
  <2>1. caller[a] \in Caller
    BY DEF CatalogTypeOK
  <2>2. \A v \in Versions : [caller[a] EXCEPT !.pc = "fetched", !.version = v] \in Caller
    BY <2>1 DEF Caller
  <2>3. Usable \subseteq Versions /\ 0 \in Versions
    OBVIOUS
  <2>4. \E v \in Versions :
          caller' = [caller EXCEPT ![a] = [caller[a] EXCEPT !.pc = "fetched", !.version = v]]
    BY <1>4, <2>3 DEF FetchAnswers, FetchFails, CallerBecomes
  <2> QED
    BY <1>4, <2>2, <2>4 DEF FetchAnswers, FetchFails, CatalogTypeOK
<1>5. ASSUME NEW a \in Callers, Store(a)
      PROVE  CatalogTypeOK'
  <2>1. caller[a] \in Caller /\ caller[a].key \in Keys
    BY <1>5 DEF CatalogTypeOK, CallsHaveKeys, Store
  <2>2. Outcome(a) \in Versions
    BY <2>1 DEF Outcome, CatalogTypeOK, Entry, Caller
  <2>3. Stored(a) \in Entry /\ [done |-> Closed(a), version |-> Shared(a)] \in Wait
    BY <2>1, <2>2 DEF Stored, Closed, Leads, Shared, Entry, Wait
  <2>4. [caller[a] EXCEPT !.pc = "returned", !.version = Outcome(a)] \in Caller
    BY <2>1, <2>2 DEF Caller
  <2> QED
    BY <1>5, <2>3, <2>4 DEF Store, Unlisted, CallerBecomes, CatalogTypeOK
<1>6. ASSUME NEW a \in Callers, JoinedReturns(a)
      PROVE  CatalogTypeOK'
  <2>1. caller[a] \in Caller /\ caller[a].leader \in Callers
    BY <1>6 DEF CatalogTypeOK, CallsHaveKeys, JoinedReturns
  <2>2. wait[caller[a].leader] \in Wait
    BY <2>1 DEF CatalogTypeOK
  <2>3. [caller[a] EXCEPT !.pc = "returned", !.version = wait[caller[a].leader].version] \in Caller
    BY <2>1, <2>2 DEF Caller, Wait
  <2> QED
    BY <1>6, <2>3 DEF JoinedReturns, CallerBecomes, CatalogTypeOK
<1>7. ASSUME NEW k \in Keys, BackoffEnds(k)
      PROVE  CatalogTypeOK'
  BY <1>7 DEF BackoffEnds, CatalogTypeOK, Entry
<1>8. ASSUME NEW k \in Keys, Publish(k)
      PROVE  CatalogTypeOK'
  BY <1>8 DEF Publish, CatalogTypeOK
<1>9. CASE UNCHANGED catalogVars
  BY <1>9 DEF catalogVars, CatalogTypeOK
<1> QED
  BY <1>1, <1>2, <1>3, <1>4, <1>5, <1>6, <1>7, <1>8, <1>9 DEF CatalogNext, Ask, CallerStep

(***************************************************************************)
(* The inductive invariant holds.                                          *)
(***************************************************************************)
LEMMA CatalogInvInit == CatalogInit => CatalogInv
<1> SUFFICES ASSUME CatalogInit PROVE CatalogInv
  OBVIOUS
<1> USE CatalogAssumption DEF CatalogInit
<1>1. CatalogTypeOK
  BY CatalogInitType
<1>2. CallsHaveKeys /\ OneFetchPerKey
  BY DEF CallsHaveKeys, OneFetchPerKey, Leads
<1>3. BackoffIsQuiet /\ BackoffHasList /\ StoredIsOlder
  BY DEF BackoffIsQuiet, BackoffHasList, StoredIsOlder
<1>4. KnownIsStored /\ KnownListServed /\ DoneIsReturned /\ JoinedHasLeader /\ JoinedAnswer
  BY DEF KnownIsStored, KnownListServed, DoneIsReturned, JoinedHasLeader, JoinedAnswer
<1> QED
  BY <1>1, <1>2, <1>3, <1>4 DEF CatalogInv

LEMMA AsksFields ==
  ASSUME CatalogTypeOK, NEW a \in Callers, NEW k \in Keys,
         NEW pc \in {"joined", "fetching", "returned"}
  PROVE  /\ Asks(a, k, pc) \in Caller
         /\ Asks(a, k, pc).pc = pc /\ Asks(a, k, pc).key = k
         /\ Asks(a, k, pc).known = entries[k].version
         /\ Asks(a, k, pc).leader = caller[a].leader
<1>1. caller[a] \in Caller /\ entries[k] \in Entry
  BY DEF CatalogTypeOK
<1> QED
  BY <1>1 DEF Asks, Caller, Entry

\* A call begins.
LEMMA AskSteps ==
  ASSUME CatalogInv, CatalogTypeOK', NEW a \in Callers, Ask(a)
  PROVE  CatalogInv'
<1> USE CatalogAssumption DEF CatalogInv
<1>1. PICK k \in Keys : ServedFromBackoff(a, k) \/ Join(a, k) \/ Lead(a, k)
  BY DEF Ask
<1>2. /\ caller[a] \in Caller /\ caller[a].pc = "idle" /\ caller[a].leader = None
      /\ ~wait[a].done
      /\ published' = published /\ entries' = entries /\ wait' = wait
  BY <1>1 DEF CatalogTypeOK, ServedFromBackoff, Join, Lead, MustFetch, CallsHaveKeys,
              DoneIsReturned
<1>3. \A b \in Callers \ {a} : caller'[b] = caller[b]
  BY <1>1 DEF CatalogTypeOK, ServedFromBackoff, Join, Lead, CallerBecomes
<1>4. caller'[a].key = k /\ caller'[a].known = entries[k].version
  BY <1>1, AsksFields DEF CatalogTypeOK, ServedFromBackoff, Join, Lead, CallerBecomes, Caller
<1>5. \A b \in Callers : entries[k] \in Entry /\ wait[b] \in Wait
  BY DEF CatalogTypeOK
<1>6. \A b \in Callers : caller[b] \in Caller
  BY DEF CatalogTypeOK
<1>7. CASE ServedFromBackoff(a, k)
  <2>1. /\ caller'[a].pc = "returned" /\ caller'[a].version = entries[k].version
        /\ caller'[a].leader = None /\ inflight' = inflight
    BY <1>2, <1>7, AsksFields DEF CatalogTypeOK, ServedFromBackoff, CallerBecomes, Caller
  <2> QED
    BY <1>2, <1>3, <1>4, <1>5, <1>6, <2>1
    DEF CallsHaveKeys, OneFetchPerKey, BackoffIsQuiet, BackoffHasList, StoredIsOlder,
        KnownIsStored, KnownListServed, DoneIsReturned, JoinedHasLeader, JoinedAnswer, Leads,
        Entry, Caller, Versions
<1>8. CASE Join(a, k)
  <2>1. /\ caller'[a].pc = "joined" /\ caller'[a].leader = inflight[k]
        /\ inflight[k] # None /\ inflight' = inflight
    BY <1>2, <1>8, AsksFields DEF CatalogTypeOK, Join, CallerBecomes, Caller
  <2>2. inflight[k] \in Callers /\ inflight[k] # a
    BY <1>2, <2>1 DEF CatalogTypeOK, OneFetchPerKey, Leads
  <2>3. Leads(inflight[k]) /\ caller[inflight[k]].key = k
    BY <2>2 DEF OneFetchPerKey
  <2> QED
    BY <1>2, <1>3, <1>4, <1>5, <1>6, <2>1, <2>2, <2>3
    DEF CallsHaveKeys, OneFetchPerKey, BackoffIsQuiet, BackoffHasList, StoredIsOlder,
        KnownIsStored, KnownListServed, DoneIsReturned, JoinedHasLeader, JoinedAnswer, Leads,
        Entry, Caller, Versions
<1>9. CASE Lead(a, k)
  <2>1. /\ caller'[a].pc = "fetching" /\ caller'[a].leader = None
        /\ inflight[k] = None /\ inflight' = [inflight EXCEPT ![k] = a]
        /\ ~entries[k].backoff
    BY <1>2, <1>9, AsksFields DEF CatalogTypeOK, Lead, MustFetch, BackoffHasList, CallerBecomes
  <2>2. CallsHaveKeys' /\ OneFetchPerKey' /\ BackoffIsQuiet' /\ BackoffHasList'
    BY <1>2, <1>3, <1>4, <2>1
    DEF CallsHaveKeys, OneFetchPerKey, BackoffIsQuiet, BackoffHasList, Leads, CatalogTypeOK
  <2>3. StoredIsOlder' /\ KnownIsStored' /\ KnownListServed'
    BY <1>2, <1>3, <1>4, <1>5, <2>1
    DEF StoredIsOlder, KnownIsStored, KnownListServed, Entry, Versions
  <2>4. DoneIsReturned'
    BY <1>2, <1>3, <2>1 DEF DoneIsReturned
  <2>5. JoinedHasLeader'
    BY <1>2, <1>3, <2>1 DEF JoinedHasLeader, CallsHaveKeys, Leads
  <2>6. JoinedAnswer'
    BY <1>2, <1>3, <2>1 DEF JoinedAnswer
  <2> QED
    BY <2>2, <2>3, <2>4, <2>5, <2>6
<1> QED
  BY <1>1, <1>7, <1>8, <1>9

\* The upstream answers, or the fetch fails.
LEMMA FetchSteps ==
  ASSUME CatalogInv, CatalogTypeOK', NEW a \in Callers, FetchAnswers(a) \/ FetchFails(a)
  PROVE  CatalogInv'
<1> USE CatalogAssumption DEF CatalogInv
<1>1. /\ caller[a] \in Caller /\ caller[a].pc = "fetching" /\ caller[a].key \in Keys
      /\ caller[a].leader = None /\ ~wait[a].done
      /\ published' = published /\ entries' = entries /\ wait' = wait /\ inflight' = inflight
  BY DEF CatalogTypeOK, FetchAnswers, FetchFails, CallsHaveKeys, DoneIsReturned
<1>2. \A b \in Callers \ {a} : caller'[b] = caller[b]
  BY DEF CatalogTypeOK, FetchAnswers, FetchFails, CallerBecomes
<1>3. /\ caller'[a].pc = "fetched" /\ caller'[a].key = caller[a].key
      /\ caller'[a].leader = None /\ caller'[a].known = caller[a].known
      /\ caller'[a].version \in {0, published[caller[a].key]}
  <2>1. CASE FetchAnswers(a)
    BY <1>1, <2>1 DEF CatalogTypeOK, FetchAnswers, CallerBecomes, Caller
  <2>2. CASE FetchFails(a)
    BY <1>1, <2>2 DEF CatalogTypeOK, FetchFails, CallerBecomes, Caller
  <2> QED
    BY <2>1, <2>2
<1>4. \A k \in Keys : entries[k].version \in Nat /\ published[k] \in Nat
  BY DEF CatalogTypeOK, Entry, Versions
<1>5. CallsHaveKeys' /\ OneFetchPerKey' /\ BackoffIsQuiet' /\ BackoffHasList'
  BY <1>1, <1>2, <1>3 DEF CallsHaveKeys, OneFetchPerKey, BackoffIsQuiet, BackoffHasList, Leads
<1>6. StoredIsOlder'
  BY <1>1, <1>2, <1>3, <1>4 DEF StoredIsOlder
<1>7. KnownIsStored' /\ KnownListServed' /\ DoneIsReturned'
  BY <1>1, <1>2, <1>3 DEF KnownIsStored, KnownListServed, DoneIsReturned
<1>8. JoinedHasLeader' /\ JoinedAnswer'
  BY <1>1, <1>2, <1>3 DEF JoinedHasLeader, JoinedAnswer, CallsHaveKeys, Leads
<1> QED
  BY <1>5, <1>6, <1>7, <1>8

\* What a leader leaves is what it returns, and no older than what is stored.
LEMMA OutcomeIsNewer ==
  ASSUME CatalogInv, NEW a \in Callers, caller[a].pc = "fetched"
  PROVE  /\ Outcome(a) \in Nat
         /\ Outcome(a) >= entries[caller[a].key].version
         /\ Outcome(a) <= published[caller[a].key]
BY DEF CatalogInv, Outcome, StoredIsOlder, CallsHaveKeys, CatalogTypeOK, Entry, Caller, Versions

\* The critical section after the fetch.
LEMMA StoreSteps ==
  ASSUME CatalogInv, CatalogTypeOK', NEW a \in Callers, Store(a)
  PROVE  CatalogInv'
<1> USE CatalogAssumption DEF CatalogInv
<1> DEFINE k == caller[a].key
<1>1. /\ caller[a] \in Caller /\ caller[a].pc = "fetched" /\ k \in Keys
      /\ caller[a].leader = None /\ ~wait[a].done /\ inflight[k] = a
      /\ published' = published
  BY DEF CatalogTypeOK, Store, CallsHaveKeys, DoneIsReturned, OneFetchPerKey, Leads
<1>2. \A b \in Callers \ {a} : caller'[b] = caller[b] /\ wait'[b] = wait[b]
  BY DEF CatalogTypeOK, Store, CallerBecomes
<1>3. /\ caller'[a].pc = "returned" /\ caller'[a].key = k
      /\ caller'[a].leader = None /\ caller'[a].known = caller[a].known
      /\ caller'[a].version = Outcome(a)
      /\ wait'[a].done /\ wait'[a].version = Outcome(a)
  BY <1>1 DEF CatalogTypeOK, Store, CallerBecomes, Caller, Closed, Leads, Shared
<1>4. /\ \A j \in Keys \ {k} : entries'[j] = entries[j] /\ inflight'[j] = inflight[j]
      /\ inflight'[k] = None /\ entries'[k].version = Outcome(a)
      /\ entries'[k].backoff => Outcome(a) # 0
  BY <1>1 DEF CatalogTypeOK, Store, Unlisted, Stored
<1>5. /\ Outcome(a) \in Nat /\ Outcome(a) >= entries[k].version /\ Outcome(a) <= published[k]
  BY <1>1, OutcomeIsNewer
<1>6. /\ \A j \in Keys : entries[j].version \in Nat /\ published[j] \in Nat
      /\ \A b \in Callers : caller[b].known \in Nat /\ caller[b].version \in Nat
  BY DEF CatalogTypeOK, Entry, Caller, Versions
<1>7. \A j \in Keys : entries'[j].version >= entries[j].version
  BY <1>4, <1>5, <1>6
<1>8. CallsHaveKeys'
  BY <1>1, <1>2, <1>3 DEF CallsHaveKeys
<1>9. \A b \in Callers \ {a} : Leads(b) => caller[b].key # k
  BY <1>1 DEF OneFetchPerKey
<1>10. OneFetchPerKey'
  <2> SUFFICES ASSUME NEW j \in Keys, NEW b \in Callers
               PROVE  inflight'[j] = b <=> Leads(b)' /\ caller'[b].key = j
    BY DEF OneFetchPerKey
  <2>1. CASE b = a
    BY <1>1, <1>3, <1>4, <2>1 DEF OneFetchPerKey, Leads
  <2>2. CASE b # a /\ j = k
    BY <1>2, <1>4, <1>9, <2>2 DEF Leads
  <2>3. CASE b # a /\ j # k
    BY <1>2, <1>4, <2>3 DEF OneFetchPerKey, Leads
  <2> QED
    BY <2>1, <2>2, <2>3
<1>11. BackoffIsQuiet' /\ BackoffHasList'
  BY <1>4 DEF BackoffIsQuiet, BackoffHasList
<1>12. StoredIsOlder'
  <2>1. \A j \in Keys : entries'[j].version <= published'[j]
    BY <1>1, <1>4, <1>5 DEF StoredIsOlder
  <2>2. ASSUME NEW b \in Callers, caller'[b].pc = "fetched", caller'[b].version # 0
        PROVE  /\ caller'[b].version >= entries'[caller'[b].key].version
               /\ caller'[b].version <= published'[caller'[b].key]
    <3>1. b # a /\ caller'[b] = caller[b]
      BY <1>2, <1>3, <2>2
    <3>2. caller[b].key \in Keys \ {k}
      BY <1>9, <2>2, <3>1 DEF CallsHaveKeys, Leads
    <3> QED
      BY <1>1, <1>4, <2>2, <3>1, <3>2 DEF StoredIsOlder
  <2> QED
    BY <2>1, <2>2 DEF StoredIsOlder
<1>13. KnownIsStored'
  <2> SUFFICES ASSUME NEW b \in Callers, caller'[b].pc # "idle"
               PROVE  caller'[b].known <= entries'[caller'[b].key].version
    BY DEF KnownIsStored
  <2>1. caller[b].pc # "idle" /\ caller'[b].known = caller[b].known
        /\ caller'[b].key = caller[b].key /\ caller[b].key \in Keys
    BY <1>1, <1>2, <1>3 DEF CallsHaveKeys
  <2>2. entries'[caller[b].key].version \in Nat
    BY <2>1 DEF CatalogTypeOK, Entry, Versions
  <2> QED
    BY <1>6, <1>7, <2>1, <2>2 DEF KnownIsStored
<1>14. KnownListServed'
  BY <1>1, <1>2, <1>3, <1>5, <1>6 DEF KnownListServed, KnownIsStored
<1>15. DoneIsReturned'
  BY <1>2, <1>3 DEF DoneIsReturned
<1>16. JoinedHasLeader'
  <2> SUFFICES ASSUME NEW c \in Callers, caller'[c].pc = "joined"
               PROVE  LET b == caller'[c].leader IN
                      \/ /\ caller'[b].pc \in {"fetching", "fetched"}
                         /\ caller'[b].key = caller'[c].key
                      \/ wait'[b].done /\ wait'[b].version >= caller'[c].known
    BY DEF JoinedHasLeader, Leads
  <2>1. c # a /\ caller'[c] = caller[c] /\ caller[c].leader \in Callers
    BY <1>2, <1>3 DEF CallsHaveKeys
  <2>2. CASE caller[c].leader = a
    <3>1. caller[c].key = k
      BY <1>1, <2>1, <2>2 DEF JoinedHasLeader
    <3>2. caller[c].known <= entries[k].version
      BY <2>1, <3>1 DEF KnownIsStored
    <3> QED
      BY <1>1, <1>3, <1>5, <1>6, <2>1, <2>2, <3>2
  <2>3. CASE caller[c].leader # a
    <3>1. /\ caller'[caller[c].leader] = caller[caller[c].leader]
          /\ wait'[caller[c].leader] = wait[caller[c].leader]
      BY <1>2, <2>1, <2>3
    <3> QED
      BY <2>1, <3>1 DEF JoinedHasLeader, Leads
  <2> QED
    BY <2>2, <2>3
<1>17. JoinedAnswer'
  <2> SUFFICES ASSUME NEW c \in Callers, caller'[c].pc = "returned", caller'[c].leader # None
               PROVE  LET b == caller'[c].leader IN
                      b \in Callers /\ wait'[b].done /\ wait'[b].version = caller'[c].version
    BY DEF JoinedAnswer
  <2>1. c # a /\ caller'[c] = caller[c]
    BY <1>2, <1>3
  <2>2. caller[c].leader # a
    BY <1>1, <2>1 DEF JoinedAnswer
  <2> QED
    BY <1>2, <2>1, <2>2 DEF JoinedAnswer
<1> QED
  BY <1>8, <1>10, <1>11, <1>12, <1>13, <1>14, <1>15, <1>16, <1>17

\* One who joined takes what the leader left.
LEMMA JoinedSteps ==
  ASSUME CatalogInv, CatalogTypeOK', NEW a \in Callers, JoinedReturns(a)
  PROVE  CatalogInv'
<1> USE CatalogAssumption DEF CatalogInv
<1> DEFINE b == caller[a].leader
<1>1. /\ caller[a] \in Caller /\ caller[a].pc = "joined" /\ caller[a].key \in Keys
      /\ b \in Callers /\ wait[b].done /\ ~wait[a].done
      /\ published' = published /\ entries' = entries /\ wait' = wait /\ inflight' = inflight
  BY DEF CatalogTypeOK, JoinedReturns, CallsHaveKeys, DoneIsReturned
<1>2. \A c \in Callers \ {a} : caller'[c] = caller[c]
  BY DEF CatalogTypeOK, JoinedReturns, CallerBecomes
<1>3. /\ caller'[a].pc = "returned" /\ caller'[a].key = caller[a].key
      /\ caller'[a].leader = b /\ caller'[a].known = caller[a].known
      /\ caller'[a].version = wait[b].version
  BY <1>1 DEF CatalogTypeOK, JoinedReturns, CallerBecomes, Caller
<1>4. wait[b].version >= caller[a].known
  BY <1>1 DEF JoinedHasLeader, DoneIsReturned, Leads
<1>5. CallsHaveKeys' /\ OneFetchPerKey' /\ BackoffIsQuiet' /\ BackoffHasList'
  BY <1>1, <1>2, <1>3 DEF CallsHaveKeys, OneFetchPerKey, BackoffIsQuiet, BackoffHasList, Leads
<1>6. StoredIsOlder' /\ KnownIsStored' /\ KnownListServed'
  BY <1>1, <1>2, <1>3, <1>4 DEF StoredIsOlder, KnownIsStored, KnownListServed
<1>7. DoneIsReturned' /\ JoinedAnswer'
  BY <1>1, <1>2, <1>3 DEF DoneIsReturned, JoinedAnswer
<1>8. JoinedHasLeader'
  BY <1>1, <1>2, <1>3 DEF JoinedHasLeader, CallsHaveKeys, Leads
<1> QED
  BY <1>5, <1>6, <1>7, <1>8

\* What passes with time: the back-off ends, the upstream publishes another list.
LEMMA OtherSteps ==
  ASSUME CatalogInv, CatalogTypeOK', NEW k \in Keys, BackoffEnds(k) \/ Publish(k)
  PROVE  CatalogInv'
<1> USE CatalogAssumption DEF CatalogInv
<1>1. /\ inflight' = inflight /\ wait' = wait /\ caller' = caller
      /\ \A j \in Keys : /\ entries'[j].version = entries[j].version
                         /\ entries'[j].backoff => entries[j].backoff
                         /\ published'[j] >= published[j]
  BY DEF CatalogTypeOK, BackoffEnds, Publish, Entry, Versions
<1>2. \A j \in Keys : /\ entries[j].version \in Nat /\ published[j] \in Nat
                      /\ published'[j] \in Nat
  BY DEF CatalogTypeOK, Entry, Versions
<1>3. \A b \in Callers : caller[b].version \in Nat
  BY DEF CatalogTypeOK, Caller, Versions
<1>4. CallsHaveKeys' /\ OneFetchPerKey' /\ BackoffIsQuiet' /\ BackoffHasList'
  BY <1>1 DEF CallsHaveKeys, OneFetchPerKey, BackoffIsQuiet, BackoffHasList, Leads
<1>5. StoredIsOlder' /\ KnownIsStored'
  BY <1>1, <1>2, <1>3 DEF StoredIsOlder, KnownIsStored, CallsHaveKeys
<1>6. KnownListServed' /\ DoneIsReturned' /\ JoinedHasLeader' /\ JoinedAnswer'
  BY <1>1 DEF KnownListServed, DoneIsReturned, JoinedHasLeader, JoinedAnswer, Leads
<1> QED
  BY <1>4, <1>5, <1>6

LEMMA CatalogInvStep == CatalogInv /\ [CatalogNext]_catalogVars => CatalogInv'
<1> SUFFICES ASSUME CatalogInv, [CatalogNext]_catalogVars PROVE CatalogInv'
  OBVIOUS
<1>1. CatalogTypeOK'
  BY CatalogTypeStep DEF CatalogInv
<1>2. CASE UNCHANGED catalogVars
  BY <1>1, <1>2
  DEF catalogVars, CatalogInv, CallsHaveKeys, OneFetchPerKey, BackoffIsQuiet, BackoffHasList,
      StoredIsOlder, KnownIsStored, KnownListServed, DoneIsReturned, JoinedHasLeader,
      JoinedAnswer, Leads
<1>3. CASE CatalogNext
  BY <1>1, <1>3, AskSteps, FetchSteps, StoreSteps, JoinedSteps, OtherSteps
  DEF CatalogNext, CallerStep
<1> QED
  BY <1>2, <1>3

THEOREM CatalogInvariant == CatalogSpec => []CatalogInv
BY CatalogInvInit, CatalogInvStep, PTL DEF CatalogSpec

(***************************************************************************)
(* What it is for.                                                         *)
(***************************************************************************)
\* Every variable of the catalog keeps its type.
THEOREM CatalogTypeCorrect == CatalogSpec => []CatalogTypeOK
<1>1. CatalogInv => CatalogTypeOK
  BY DEF CatalogInv
<1> QED
  BY <1>1, CatalogInvariant, PTL

\* catalogFor never fetches one key's list twice at a time.
THEOREM FetchesAreSingle == CatalogSpec => []OneFetchPerKey
<1>1. CatalogInv => OneFetchPerKey
  BY DEF CatalogInv
<1> QED
  BY <1>1, CatalogInvariant, PTL

\* A list known when a call began is never answered with an error or an older one.
THEOREM KnownListsAreServed == CatalogSpec => []KnownListServed
<1>1. CatalogInv => KnownListServed
  BY DEF CatalogInv
<1> QED
  BY <1>1, CatalogInvariant, PTL

\* Those who joined a fetch answer what its leader answers.
THEOREM JoinersDoAgree == CatalogSpec => []JoinersAgree
<1>1. CatalogInv => JoinersAgree
  BY CatalogAssumption DEF CatalogInv, JoinersAgree, JoinedAnswer, DoneIsReturned
<1> QED
  BY <1>1, CatalogInvariant, PTL

\* While a key is on back-off no fetch of its list runs.
THEOREM BackoffsAreQuiet == CatalogSpec => []BackoffIsQuiet
<1>1. CatalogInv => BackoffIsQuiet
  BY DEF CatalogInv
<1> QED
  BY <1>1, CatalogInvariant, PTL

\* No step of the catalog puts an older list in the place of a newer one, or none.
THEOREM CatalogOnlyAdvances == CatalogSpec => CatalogNeverGoesBack
<1>1. CatalogInv /\ [CatalogNext]_catalogVars =>
        [\A k \in Keys : entries'[k].version >= entries[k].version]_catalogVars
  <2> SUFFICES ASSUME CatalogInv, CatalogNext, NEW k \in Keys
               PROVE  entries'[k].version >= entries[k].version
    OBVIOUS
  <2>1. entries[k] \in Entry /\ entries[k].version \in Nat
    BY DEF CatalogInv, CatalogTypeOK, Entry, Versions
  <2>2. ASSUME NEW a \in Callers, Store(a)
        PROVE  entries'[k].version >= entries[k].version
    <3>1. Outcome(a) \in Nat /\ Outcome(a) >= entries[caller[a].key].version
      BY <2>2, OutcomeIsNewer DEF Store
    <3> QED
      BY <2>1, <2>2, <3>1 DEF Store, Stored, CatalogInv, CatalogTypeOK
  <2>3. ASSUME NEW j \in Keys, BackoffEnds(j) \/ Publish(j)
        PROVE  entries'[k].version >= entries[k].version
    BY <2>1, <2>3 DEF BackoffEnds, Publish, CatalogInv, CatalogTypeOK, Entry
  <2>4. ASSUME NEW a \in Callers, Ask(a) \/ FetchAnswers(a) \/ FetchFails(a) \/ JoinedReturns(a)
        PROVE  entries'[k].version >= entries[k].version
    <3>1. entries' = entries
      BY <2>4, Zenon
      DEF Ask, ServedFromBackoff, Join, Lead, FetchAnswers, FetchFails, JoinedReturns
    <3> QED
      BY <2>1, <3>1
  <2> QED
    BY <2>2, <2>3, <2>4 DEF CatalogNext, CallerStep
<1> QED
  BY <1>1, CatalogInvariant, PTL DEF CatalogSpec, CatalogNeverGoesBack

\* catalogFor asks the upstream for a key's list one call at a time, and never on back-off.
THEOREM UpstreamSpared == CatalogSpec => []UpstreamIsSpared
<1>1. OneFetchPerKey /\ BackoffIsQuiet => UpstreamIsSpared
  BY DEF UpstreamIsSpared
<1> QED
  BY <1>1, FetchesAreSingle, BackoffsAreQuiet, PTL

\* Every call of catalogFor answers the list known or a newer one, and those who share a fetch
\* the same.
THEOREM AnswersStayCurrent == CatalogSpec => []AnswersAreCurrent
<1>1. KnownListServed /\ JoinersAgree => AnswersAreCurrent
  BY DEF AnswersAreCurrent
<1> QED
  BY <1>1, KnownListsAreServed, JoinersDoAgree, PTL

-----------------------------------------------------------------------------
(***************************************************************************)
(* Type correctness.                                                       *)
(***************************************************************************)
LEMMA IdleTypes ==
  \A route \in Routes, framed \in BOOLEAN : Idle(route, framed) \in Request
BY DEF Idle, Request, Pcs, Results, NoEvent, Wire, WireEvent

LEMMA BecomesTypes ==
  ASSUME StreamTypeOK, NEW r \in Requests, NEW value \in Request, ReqBecomes(r, value)
  PROVE  req' \in [Requests -> Request]
BY DEF StreamTypeOK, ReqBecomes

LEMMA ReturnTypes ==
  ASSUME StreamTypeOK, NEW r \in Requests, NEW result \in {"complete", "error"},
         StreamReturns(r, result)
  PROVE  req' \in [Requests -> Request]
<1>1. req[r] \in Request
  BY DEF StreamTypeOK
<1>2. NoEvent \in WireEvent
  BY DEF NoEvent, Wire, WireEvent
<1>3. [req[r] EXCEPT !.pc = "returned", !.result = result, !.event = NoEvent] \in Request
  BY <1>1, <1>2 DEF Request, Pcs, Results
<1> QED
  BY <1>3, BecomesTypes DEF StreamReturns

LEMMA OrdinalsType ==
  ASSUME NEW s \in Seq(WireEvent)
  PROVE  Ordinals(s) \in Nat
<1>1. IsFiniteSet(1..Len(s))
  BY FS_Interval
<1>2. {i \in DOMAIN s : s[i].kind = "tool"} \in SUBSET (1..Len(s))
  OBVIOUS
<1>3. IsFiniteSet({i \in DOMAIN s : s[i].kind = "tool"})
  BY <1>1, <1>2, FS_Subset
<1> QED
  BY <1>3, FS_CardinalityType DEF Ordinals

LEMMA EventTypes ==
  ASSUME StreamTypeOK, NEW r \in Requests
  PROVE  Events(r) \subseteq WireEvent
<1>1. Ordinals(sent[r]) \in Int
  BY OrdinalsType DEF StreamTypeOK
<1>2. \A kind \in {"text", "tool", "args", "delta", "stop", "ping", "cut"}, tool \in Int,
        reason \in StopReasons \cup {"none"} : Wire(kind, tool, reason) \in WireEvent
  BY DEF Wire, WireEvent
<1>3. Upstream(r) \subseteq WireEvent
  <2>1. /\ Wire("text", -1, "none") \in WireEvent
        /\ Wire("tool", Ordinals(sent[r]), "none") \in WireEvent
        /\ Wire("args", Ordinals(sent[r]) - 1, "none") \in WireEvent
        /\ Wire("stop", -1, "none") \in WireEvent
    BY <1>1, <1>2
  <2>2. {Wire("delta", -1, reason) : reason \in StopReasons} \subseteq WireEvent
    BY <1>2
  <2> QED
    BY <2>1, <2>2, Zenon DEF Upstream
<1> QED
  BY <1>2, <1>3 DEF Events

LEMMA ChunkTypes ==
  ASSUME StreamTypeOK, NEW r \in Requests, NEW chunks \in ChunksOf(r)
  PROVE  chunks \in Seq(Chunk)
<1>1. req[r] \in Request
  BY DEF StreamTypeOK
<1>2. ToolIndex(r) \in Int
  BY <1>1 DEF ToolIndex, Request
<1>3. CASE Silent(r)
  BY <1>3 DEF ChunksOf
<1>4. CASE ~Silent(r)
  <2>1. ChunkOf(r) \in Chunk
    BY <1>1, <1>2, <1>4 DEF ChunkOf, Silent, Request, WireEvent, Chunk, FinishReasons
  <2>2. <<ChunkOf(r)>> \in Seq(Chunk) /\ <<>> \in Seq(Chunk)
    BY <2>1
  <2> QED
    BY <1>4, <2>2, Zenon DEF ChunksOf
<1> QED
  BY <1>3, <1>4

LEMMA ForwardedTypes ==
  ASSUME StreamTypeOK, NEW r \in Requests, NEW chunks \in ChunksOf(r)
  PROVE  Forwarded(r, chunks) \in Request
<1>1. req[r] \in Request
  BY DEF StreamTypeOK
<1>2. ToolIndex(r) \in Int /\ NoEvent \in WireEvent
  BY <1>1 DEF ToolIndex, Request, NoEvent, Wire, WireEvent
<1>3. \A reason : MapStopReason(reason) \in FinishReasons
  BY DEF MapStopReason, FinishReasons
<1>4. (req[r].roleSent \/ (chunks # <<>> /\ chunks[1].role)) \in BOOLEAN
  OBVIOUS
<1> DEFINE rr == [req[r] EXCEPT
                    !.event = NoEvent, !.toolIndex = ToolIndex(r),
                    !.roleSent = @ \/ (chunks # <<>> /\ chunks[1].role),
                    !.finish = IF req[r].event.kind = "delta"
                               THEN MapStopReason(req[r].event.reason) ELSE @]
<1>5. rr \in Request
  BY <1>1, <1>2, <1>3, <1>4 DEF Request
<1>6. /\ [rr EXCEPT !.pc = "reading"] \in Request
      /\ [rr EXCEPT !.pc = "terminating"] \in Request
      /\ [rr EXCEPT !.pc = "returned", !.result = "complete"] \in Request
  <2> HIDE DEF rr
  <2> QED
    BY <1>5 DEF Request, Pcs, Results
<1> QED
  BY <1>6 DEF Forwarded

LEMMA AcceptTypes ==
  ASSUME StreamTypeOK, NEW r \in Requests, NEW route \in Routes, NEW framed \in BOOLEAN,
         Accept(r, route, framed)
  PROVE  StreamTypeOK'
<1>1. [Idle(route, framed) EXCEPT !.pc = IF route = "unary" THEN "calling" ELSE "opening"]
        \in Request
  BY IdleTypes DEF Request, Pcs, Results
<1> QED
  BY <1>1, BecomesTypes DEF Accept, StreamTypeOK

LEMMA ReceiveTypes ==
  ASSUME StreamTypeOK, NEW r \in Requests, NEW e \in Events(r), NEW more \in BOOLEAN,
         Receive(r, e, more)
  PROVE  StreamTypeOK'
<1>1. e \in WireEvent /\ req[r] \in Request
  BY EventTypes DEF StreamTypeOK
<1>2. [req[r] EXCEPT !.pc = "forwarding", !.event = e, !.more = more, !.over = e.kind = "cut"]
        \in Request
  BY <1>1 DEF Request, Pcs, Results
<1>3. req' \in [Requests -> Request]
  BY <1>2, BecomesTypes DEF Receive
<1>4. sent' \in [Requests -> Seq(WireEvent)]
  BY <1>1 DEF Receive, StreamTypeOK
<1> QED
  BY <1>3, <1>4 DEF Receive, StreamTypeOK

LEMMA ForwardTypes ==
  ASSUME StreamTypeOK, NEW r \in Requests, Forward(r)
  PROVE  StreamTypeOK'
<1>1. PICK chunks \in ChunksOf(r) :
        got' = [got EXCEPT ![r] = @ \o chunks] /\ ReqBecomes(r, Forwarded(r, chunks))
  BY DEF Forward
<1>2. req' \in [Requests -> Request]
  BY <1>1, ForwardedTypes, BecomesTypes
<1>3. got' \in [Requests -> Seq(Chunk)]
  BY <1>1, ChunkTypes DEF StreamTypeOK
<1> QED
  BY <1>2, <1>3 DEF Forward, StreamTypeOK

LEMMA TerminateTypes ==
  ASSUME StreamTypeOK, NEW r \in Requests, Terminate(r)
  PROVE  StreamTypeOK'
<1>1. [role |-> FALSE, kind |-> "done", tool |-> -1, reason |-> "none"] \in Chunk
  BY DEF Chunk
<1>2. req' \in [Requests -> Request]
  BY ReturnTypes DEF Terminate
<1>3. got' \in [Requests -> Seq(Chunk)]
  BY <1>1 DEF Terminate, StreamTypeOK
<1> QED
  BY <1>2, <1>3 DEF Terminate, StreamTypeOK

\* The steps that change a request's own variables and nothing else.
LEMMA OwnStepTypes ==
  ASSUME StreamTypeOK, NEW r \in Requests,
         \/ \E result \in {"complete", "error"} : Call(r, result)
         \/ Open(r) \/ OpenFails(r) \/ OpenRefused(r) \/ StreamFails(r) \/ EmitFails(r)
         \/ CloseBody(r) \/ CloseStream(r)
  PROVE  StreamTypeOK'
<1> USE DEF StreamTypeOK
<1>1. req[r] \in Request
  OBVIOUS
<1>2. UNCHANGED <<sent, got, inFlight, snapshot, cancelled>>
  BY DEF Call, Open, OpenFails, OpenRefused, StreamFails, EmitFails, CloseBody, CloseStream
<1>3. req' \in [Requests -> Request]
  <2>1. CASE \E result \in {"complete", "error"} : Call(r, result)
    <3>1. \A result \in {"complete", "error"} :
            [req[r] EXCEPT !.pc = "leaving", !.result = result, !.told = result] \in Request
      BY <1>1 DEF Request, Pcs, Results
    <3> QED
      BY <2>1, <3>1, BecomesTypes DEF Call
  <2>2. CASE Open(r)
    <3>1. [req[r] EXCEPT !.pc = "reading", !.body = "open"] \in Request
      BY <1>1 DEF Request, Pcs, Results
    <3> QED
      BY <2>2, <3>1, BecomesTypes DEF Open
  <2>3. CASE OpenRefused(r)
    <3>1. [req[r] EXCEPT !.pc = "returned", !.result = "error", !.body = "open"] \in Request
      BY <1>1 DEF Request, Pcs, Results
    <3> QED
      BY <2>3, <3>1, BecomesTypes DEF OpenRefused
  <2>4. CASE OpenFails(r) \/ StreamFails(r) \/ EmitFails(r)
    BY <2>4, ReturnTypes DEF OpenFails, StreamFails, EmitFails
  <2>5. CASE CloseBody(r)
    <3>1. [req[r] EXCEPT !.pc = "closing", !.body = IF @ = "open" THEN "closed" ELSE @]
            \in Request
      BY <1>1 DEF Request, Pcs, Results
    <3> QED
      BY <2>5, <3>1, BecomesTypes DEF CloseBody
  <2>6. CASE CloseStream(r)
    <3>1. [req[r] EXCEPT !.pc = "leaving", !.told = req[r].result] \in Request
      BY <1>1 DEF Request, Pcs, Results
    <3> QED
      BY <2>6, <3>1, BecomesTypes DEF CloseStream
  <2> QED
    BY <2>1, <2>2, <2>3, <2>4, <2>5, <2>6
<1> QED
  BY <1>2, <1>3

LEMMA UnregisterTypes ==
  ASSUME StreamTypeOK, NEW r \in Requests, Unregister(r)
  PROVE  StreamTypeOK'
<1>1. req[r] \in Request
  BY DEF StreamTypeOK
<1>2. [req[r] EXCEPT !.pc = "ended"] \in Request
  BY <1>1 DEF Request, Pcs, Results
<1> QED
  BY <1>2, BecomesTypes DEF Unregister, ReqAt, StreamTypeOK

LEMMA QuiesceTypes ==
  ASSUME StreamTypeOK, Quiesce \/ \E r \in Requests : CancelNext(r)
  PROVE  StreamTypeOK'
BY DEF Quiesce, CancelNext, StreamTypeOK

LEMMA StreamTypeStep == StreamTypeOK /\ [StreamNext]_streamVars => StreamTypeOK'
<1> SUFFICES ASSUME StreamTypeOK, [StreamNext]_streamVars PROVE StreamTypeOK'
  OBVIOUS
<1>1. CASE \E r \in Requests, route \in Routes, framed \in BOOLEAN : Accept(r, route, framed)
  BY <1>1, AcceptTypes
<1>2. CASE \E r \in Requests : RequestStep(r)
  <2>1. PICK r \in Requests : RequestStep(r)
    BY <1>2
  <2>2. CASE \E e \in Events(r), more \in BOOLEAN : Receive(r, e, more)
    BY <2>2, ReceiveTypes
  <2>3. CASE Forward(r)
    BY <2>3, ForwardTypes
  <2>4. CASE Terminate(r)
    BY <2>4, TerminateTypes
  <2>5. CASE Unregister(r)
    BY <2>5, UnregisterTypes
  <2> QED
    BY <2>1, <2>2, <2>3, <2>4, <2>5, OwnStepTypes DEF RequestStep
<1>3. CASE Quiesce \/ \E r \in Requests : CancelNext(r)
  BY <1>3, QuiesceTypes
<1>4. CASE UNCHANGED streamVars
  BY <1>4 DEF streamVars, StreamTypeOK
<1> QED
  BY <1>1, <1>2, <1>3, <1>4 DEF StreamNext

\* A request's variables, the events and the chunks keep their types.
THEOREM StreamTypeCorrect == StreamSpec => []StreamTypeOK
<1>1. StreamInit => StreamTypeOK
  <2>1. Idle("chat", FALSE) \in Request
    BY IdleTypes DEF Routes
  <2>2. <<>> \in Seq(WireEvent) /\ <<>> \in Seq(Chunk)
    OBVIOUS
  <2> QED
    BY <2>1, <2>2 DEF StreamInit, StreamTypeOK
<1> QED
  BY <1>1, StreamTypeStep, PTL DEF StreamSpec

(***************************************************************************)
(* How a request ends.  NothingLeft says nothing of a request that is not  *)
(* over yet: the invariant follows it through its life.  A result is there *)
(* from the moment the stream's function returns, and told from the moment *)
(* the host is; the body is closed in between; and whoever is about to     *)
(* call the answer complete has seen the upstream's end.                   *)
(***************************************************************************)
Working == {"idle", "calling", "opening", "reading", "forwarding", "terminating"}

Life(r) ==
  /\ req[r].pc \in Working => req[r].result = "none"
  /\ req[r].pc \notin Working => req[r].result # "none"
  /\ req[r].pc \notin {"leaving", "ended"} => req[r].told = "none"
  /\ req[r].pc \in {"leaving", "ended"} => req[r].told = req[r].result
  /\ req[r].pc \in {"idle", "calling", "opening", "closing", "leaving", "ended"}
       => req[r].body # "open"
  /\ req[r].pc = "calling" => req[r].route = "unary"
  /\ req[r].pc = "ended" => r \notin inFlight

EndSeen(r) ==
  (\/ req[r].pc = "forwarding" /\ req[r].event.kind = "stop"
   \/ req[r].pc = "terminating"
   \/ req[r].result = "complete" /\ req[r].route # "unary") => Stopped(r)

LifeInv == \A r \in Requests : Life(r) /\ EndSeen(r)


LEMMA Others ==
  ASSUME StreamTypeOK, NEW r \in Requests, NEW s \in Requests, s # r,
         \/ \E route \in Routes, framed \in BOOLEAN : Accept(r, route, framed)
         \/ RequestStep(r)
  PROVE  req'[s] = req[s] /\ sent'[s] = sent[s] /\ got'[s] = got[s]
         /\ (s \in inFlight' <=> s \in inFlight)
<1> USE DEF StreamTypeOK, ReqBecomes
<1>1. CASE \E route \in Routes, framed \in BOOLEAN : Accept(r, route, framed)
  BY <1>1 DEF Accept
<1>2. CASE RequestStep(r)
  <2>1. CASE \E result \in {"complete", "error"} : Call(r, result)
    BY <2>1 DEF Call
  <2>2. CASE Open(r) \/ OpenFails(r) \/ OpenRefused(r)
    BY <2>2 DEF Open, OpenFails, OpenRefused, StreamReturns
  <2>3. CASE \E e \in Events(r), more \in BOOLEAN : Receive(r, e, more)
    BY <2>3 DEF Receive
  <2>4. CASE StreamFails(r) \/ EmitFails(r) \/ Terminate(r)
    BY <2>4 DEF StreamFails, EmitFails, Terminate, StreamReturns
  <2>5. CASE Forward(r)
    BY <2>5 DEF Forward
  <2>6. CASE CloseBody(r) \/ CloseStream(r) \/ Unregister(r)
    BY <2>6 DEF CloseBody, CloseStream, Unregister, ReqAt
  <2> QED
    BY <1>2, <2>1, <2>2, <2>3, <2>4, <2>5, <2>6 DEF RequestStep
<1> QED
  BY <1>1, <1>2

\* A step on r: what becomes of r when its record becomes value.
LEMMA Becomes ==
  ASSUME StreamTypeOK, NEW r \in Requests, NEW value, ReqBecomes(r, value)
  PROVE  req'[r] = value
BY DEF StreamTypeOK, ReqBecomes

LEMMA LifeOfAccepted ==
  ASSUME StreamTypeOK, NEW r \in Requests, Life(r), EndSeen(r),
         NEW route \in Routes, NEW framed \in BOOLEAN, Accept(r, route, framed)
  PROVE  Life(r)' /\ EndSeen(r)'
<1>1. req'[r] = [Idle(route, framed) EXCEPT
                   !.pc = IF route = "unary" THEN "calling" ELSE "opening"]
  BY Becomes DEF Accept
<1> QED
  BY <1>1 DEF Idle, Life, EndSeen, Working

LEMMA LifeOfReturned ==
  ASSUME StreamTypeOK, NEW r \in Requests, Life(r), EndSeen(r),
         req[r].pc \in {"opening", "reading", "forwarding", "terminating"},
         NEW result \in {"complete", "error"}, StreamReturns(r, result),
         result = "complete" => req[r].pc = "terminating",
         UNCHANGED sent
  PROVE  Life(r)' /\ EndSeen(r)'
<1>1. req[r] \in Request
  BY DEF StreamTypeOK
<1>2. req'[r] = [req[r] EXCEPT !.pc = "returned", !.result = result, !.event = NoEvent]
  BY Becomes DEF StreamReturns
<1>3. Stopped(r)' <=> Stopped(r)
  BY DEF Stopped
<1> QED
  BY <1>1, <1>2, <1>3 DEF Request, Life, EndSeen, Working

LEMMA LifeOfReceived ==
  ASSUME StreamTypeOK, NEW r \in Requests, Life(r), EndSeen(r),
         NEW e \in Events(r), NEW more \in BOOLEAN, Receive(r, e, more)
  PROVE  Life(r)' /\ EndSeen(r)'
<1>1. req[r] \in Request /\ sent[r] \in Seq(WireEvent) /\ e \in WireEvent
  BY EventTypes DEF StreamTypeOK
<1>2. req'[r] = [req[r] EXCEPT !.pc = "forwarding", !.event = e, !.more = more,
                               !.over = e.kind = "cut"]
  BY Becomes DEF Receive
<1>3. Life(r)'
  BY <1>1, <1>2 DEF Receive, Request, Life, Working
<1>4. ASSUME e.kind = "stop" PROVE Stopped(r)'
  <2>1. sent'[r] = Append(sent[r], e)
    BY <1>4 DEF Receive, StreamTypeOK
  <2>2. Append(sent[r], e) # <<>> /\ Last(Append(sent[r], e)) = e
    BY <1>1 DEF Last
  <2> QED
    BY <1>4, <2>1, <2>2 DEF Stopped
<1>5. EndSeen(r)'
  BY <1>1, <1>2, <1>4 DEF Receive, Request, Life, EndSeen, Working
<1> QED
  BY <1>3, <1>5

LEMMA LifeOfForwarded ==
  ASSUME StreamTypeOK, NEW r \in Requests, Life(r), EndSeen(r), Forward(r)
  PROVE  Life(r)' /\ EndSeen(r)'
<1>1. req[r] \in Request
  BY DEF StreamTypeOK
<1>2. PICK chunks \in ChunksOf(r) : req'[r] = Forwarded(r, chunks)
  BY Becomes DEF Forward
<1>3. /\ req'[r].result \in {"none", "complete"} /\ req'[r].told = req[r].told
      /\ req'[r].body = req[r].body /\ req'[r].route = req[r].route
      /\ req'[r].pc \in {"reading", "terminating", "returned"}
      /\ req'[r].pc = "returned" <=> req'[r].result = "complete"
      /\ req'[r].pc # "reading" => req[r].event.kind = "stop"
  BY <1>1, <1>2 DEF Forward, Forwarded, Request, Life, Working
<1>4. Stopped(r)' <=> Stopped(r)
  BY DEF Forward, Stopped
<1>5. req[r].pc = "forwarding"
  BY DEF Forward
<1> QED
  BY <1>1, <1>3, <1>4, <1>5 DEF Life, EndSeen, Working, Request

\* The other steps of a request.
LEMMA LifeOfOthers ==
  ASSUME StreamTypeOK, NEW r \in Requests, Life(r), EndSeen(r),
         \/ \E result \in {"complete", "error"} : Call(r, result)
         \/ Open(r) \/ OpenRefused(r) \/ CloseBody(r) \/ CloseStream(r) \/ Unregister(r)
  PROVE  Life(r)' /\ EndSeen(r)'
<1>1. req[r] \in Request
  BY DEF StreamTypeOK
<1> USE <1>1 DEF Request, Life, EndSeen, Working
<1>2. Stopped(r)' <=> Stopped(r)
  BY DEF Stopped, Call, Open, OpenRefused, CloseBody, CloseStream, Unregister
<1>3. CASE \E result \in {"complete", "error"} : Call(r, result)
  <2>1. PICK result \in {"complete", "error"} : Call(r, result)
    BY <1>3
  <2>2. req'[r] = [req[r] EXCEPT !.pc = "leaving", !.result = result, !.told = result]
    BY <2>1, Becomes DEF Call
  <2> QED
    BY <2>1, <2>2 DEF Call
<1>4. CASE Open(r)
  <2>1. req'[r] = [req[r] EXCEPT !.pc = "reading", !.body = "open"]
    BY <1>4, Becomes DEF Open
  <2> QED
    BY <1>4, <2>1 DEF Open
<1>5. CASE OpenRefused(r)
  <2>1. req'[r] = [req[r] EXCEPT !.pc = "returned", !.result = "error", !.body = "open"]
    BY <1>5, Becomes DEF OpenRefused
  <2> QED
    BY <1>5, <2>1 DEF OpenRefused
<1>6. CASE CloseBody(r)
  <2>1. req'[r] = [req[r] EXCEPT !.pc = "closing", !.body = IF @ = "open" THEN "closed" ELSE @]
    BY <1>6, Becomes DEF CloseBody
  <2> QED
    BY <1>2, <1>6, <2>1 DEF CloseBody
<1>7. CASE CloseStream(r)
  <2>1. req'[r] = [req[r] EXCEPT !.pc = "leaving", !.told = req[r].result]
    BY <1>7, Becomes DEF CloseStream
  <2> QED
    BY <1>2, <1>7, <2>1 DEF CloseStream
<1>8. CASE Unregister(r)
  <2>1. req'[r] = [req[r] EXCEPT !.pc = "ended"]
    BY <1>8, Becomes DEF Unregister, ReqAt
  <2> QED
    BY <1>2, <1>8, <2>1 DEF Unregister
<1> QED
  BY <1>3, <1>4, <1>5, <1>6, <1>7, <1>8

LEMMA LifeStep == StreamTypeOK /\ LifeInv /\ [StreamNext]_streamVars => LifeInv'
<1> SUFFICES ASSUME StreamTypeOK, LifeInv, [StreamNext]_streamVars PROVE LifeInv'
  OBVIOUS
<1>1. ASSUME NEW r \in Requests,
             \/ \E route \in Routes, framed \in BOOLEAN : Accept(r, route, framed)
             \/ RequestStep(r)
      PROVE  LifeInv'
  <2>1. Life(r) /\ EndSeen(r)
    BY DEF LifeInv
  <2>2. Life(r)' /\ EndSeen(r)'
    <3>1. CASE \E route \in Routes, framed \in BOOLEAN : Accept(r, route, framed)
      BY <2>1, <3>1, LifeOfAccepted
    <3>2. CASE OpenFails(r) \/ StreamFails(r) \/ EmitFails(r)
      BY <2>1, <3>2, LifeOfReturned DEF OpenFails, StreamFails, EmitFails
    <3>3. CASE Terminate(r)
      BY <2>1, <3>3, LifeOfReturned DEF Terminate
    <3>4. CASE \E e \in Events(r), more \in BOOLEAN : Receive(r, e, more)
      BY <2>1, <3>4, LifeOfReceived
    <3>5. CASE Forward(r)
      BY <2>1, <3>5, LifeOfForwarded
    <3> QED
      BY <1>1, <2>1, <3>1, <3>2, <3>3, <3>4, <3>5, LifeOfOthers DEF RequestStep
  <2>3. ASSUME NEW s \in Requests, s # r PROVE Life(s)' /\ EndSeen(s)'
    BY <1>1, <2>3, Others DEF LifeInv, Life, EndSeen, Stopped
  <2> QED
    BY <2>2, <2>3 DEF LifeInv
<1>2. CASE Quiesce \/ (\E r \in Requests : CancelNext(r)) \/ UNCHANGED streamVars
  BY <1>2 DEF Quiesce, CancelNext, streamVars, LifeInv, Life, EndSeen, Stopped
<1> QED
  BY <1>1, <1>2 DEF StreamNext

LEMMA LifeInit == StreamInit => LifeInv
BY DEF StreamInit, Idle, LifeInv, Life, EndSeen, Working

LEMMA LifeHolds == StreamSpec => []LifeInv
BY LifeInit, LifeStep, StreamTypeCorrect, PTL DEF StreamSpec

\* executor.go:95-126: a request that is over has told the host how it ended, has closed the
\* upstream's stream and is not in flight any more.
THEOREM NothingIsLeft == StreamSpec => []NothingLeft
<1>1. LifeInv => NothingLeft
  BY DEF LifeInv, Life, NothingLeft, Working
<1> QED
  BY <1>1, LifeHolds, PTL

\* openai.go:181, anthropic.go:540: no stream is reported complete whose upstream has not sent
\* its end, wherever it broke.
THEOREM CompleteHasEnd ==
  StreamSpec => [](\A r \in Requests :
                     req[r].route # "unary" /\ req[r].told = "complete" => Stopped(r))
<1>1. LifeInv => \A r \in Requests :
                   req[r].route # "unary" /\ req[r].told = "complete" => Stopped(r)
  BY DEF LifeInv, Life, EndSeen, Working
<1> QED
  BY <1>1, LifeHolds, PTL

(***************************************************************************)
(* What the client hears.  As long as a request reads, some events have    *)
(* been handled: all that were sent, but for the one being forwarded.  The *)
(* client has heard what they say, and the goroutine's variables sum them  *)
(* up.                                                                     *)
(***************************************************************************)
SaidKinds == {"text", "tool", "args"}

AnyChunk == [role : BOOLEAN, kind : {"text", "tool", "args", "delta", "finish", "ping", "cut", "done"},
             tool : Int, reason : FinishReasons \cup {"none"}]

Done == [role |-> FALSE, kind |-> "done", tool |-> -1, reason |-> "none"]

\* What a list of events that are told is told as.
TextChunks(r, said) ==
  [i \in DOMAIN said |-> [role |-> i = 1 /\ req[r].route # "chat", kind |-> said[i].kind,
                          tool |-> said[i].tool, reason |-> "none"]]

Told(r) ==
  [i \in DOMAIN Said(r) |->
     [role |-> i = 1 /\ req[r].route # "chat",
      kind |-> IF Said(r)[i].kind = "stop" THEN "finish" ELSE Said(r)[i].kind,
      tool |-> Said(r)[i].tool,
      reason |-> IF Said(r)[i].kind = "stop" THEN Reason(sent[r]) ELSE "none"]]

InOrder(r) ==
  LET whole == Without(got[r], CutChunks) IN
  /\ IsPrefix(whole, Expected(r))
  /\ IsPrefix(whole, got[r]) /\ Len(got[r]) <= Len(whole) + 1

LastDelta(h) == h # <<>> /\ Last(h).kind = "delta"

\* The events h of an upstream that has not ended its message.
Unended(r, h) ==
  /\ h \in Seq(WireEvent)
  /\ \A i \in DOMAIN h : h[i].kind \in SaidKinds \cup {"delta"}
  /\ \A i \in DOMAIN h : h[i].kind = "delta" =>
       i = Len(h) /\ h[i] \in {Wire("delta", -1, reason) : reason \in StopReasons}
  /\ req[r].route = "chat" => \A i \in DOMAIN h : h[i].kind = "text"
  /\ h # <<>> /\ Last(h).kind \in {"tool", "args"} => Ordinals(h) >= 1

\* They are what the client has heard and the goroutine remembers.
Heard(r, h) ==
  /\ got[r] = TextChunks(r, Without(h, Unsaid(r)))
  /\ Without(got[r], CutChunks) = got[r]
  /\ req[r].toolIndex = Ordinals(h) - 1
  /\ req[r].finish = IF LastDelta(h) THEN MapStopReason(Last(h).reason) ELSE "none"
  /\ req[r].roleSent <=> req[r].route # "chat" /\ got[r] # <<>>

\* What may come after them.
Follows(r, h, e) ==
  /\ e \in WireEvent /\ e.kind \in SaidKinds \cup {"delta", "stop"}
  /\ e.kind = "tool" => e.tool = Ordinals(h)
  /\ e.kind = "args" => e.tool = Ordinals(h) - 1 /\ Ordinals(h) >= 1
  /\ e.kind \in {"text", "stop"} => e.tool = -1
  /\ e.kind = "delta" => e \in {Wire("delta", -1, reason) : reason \in StopReasons}
  /\ req[r].route = "chat" => e.kind \in {"text", "stop"}
  /\ LastDelta(h) => e.kind = "stop"

Pending(r) == req[r].pc = "forwarding" /\ req[r].event.kind \notin {"ping", "cut"}

Reads(r) ==
  \/ req[r].pc = "reading" /\ ~req[r].over
  \/ req[r].pc = "forwarding"

Hears(r) ==
  \E h : /\ Unended(r, h) /\ Heard(r, h)
         /\ ~Pending(r) => sent[r] = h
         /\ Pending(r) => Follows(r, h, req[r].event) /\ sent[r] = Append(h, req[r].event)

Silence(r) ==
  /\ sent[r] = <<>> /\ got[r] = <<>>
  /\ req[r].pc \in {"idle", "opening"} =>
       /\ req[r].toolIndex = -1 /\ ~req[r].roleSent /\ req[r].finish = "none" /\ ~req[r].over
       /\ req[r].event = NoEvent

Relay(r) ==
  /\ req[r].pc \in {"idle", "opening"} \/ req[r].route = "unary" => Silence(r)
  /\ req[r].route = "unary" => req[r].pc \in {"calling", "leaving", "ended"}
  /\ req[r].pc = "forwarding" => (req[r].over <=> req[r].event.kind = "cut")
  /\ Reads(r) => Hears(r)
  /\ req[r].pc = "terminating" =>
       got[r] = Told(r) /\ req[r].framed /\ Without(got[r], CutChunks) = got[r]
  /\ req[r].result = "complete" /\ req[r].route # "unary" => got[r] = Expected(r)
  /\ InOrder(r)

RelayInv == \A r \in Requests : Relay(r)

-----------------------------------------------------------------------------
LEMMA OrdinalsAppend ==
  ASSUME NEW h \in Seq(WireEvent), NEW e \in WireEvent
  PROVE  Ordinals(Append(h, e)) = IF e.kind = "tool" THEN Ordinals(h) + 1 ELSE Ordinals(h)
<1> DEFINE ToolsIn(s) == {i \in DOMAIN s : s[i].kind = "tool"}
<1>1. /\ Len(h) \in Nat /\ DOMAIN h = 1 .. Len(h)
      /\ DOMAIN Append(h, e) = 1 .. Len(h) + 1 /\ Append(h, e)[Len(h) + 1] = e
      /\ \A i \in 1 .. Len(h) : Append(h, e)[i] = h[i]
  BY AppendProperties
<1>2. IsFiniteSet(ToolsIn(h))
  <2>1. IsFiniteSet(1 .. Len(h)) /\ ToolsIn(h) \subseteq 1 .. Len(h)
    BY <1>1, FS_Interval
  <2> QED BY <2>1, FS_Subset
<1>3. CASE e.kind = "tool"
  <2>1. ToolsIn(Append(h, e)) = ToolsIn(h) \cup {Len(h) + 1} /\ Len(h) + 1 \notin ToolsIn(h)
    BY <1>1, <1>3
  <2>2. Cardinality(ToolsIn(h) \cup {Len(h) + 1}) = Cardinality(ToolsIn(h)) + 1
    <3> HIDE DEF ToolsIn
    <3> QED BY <1>2, <2>1, FS_AddElement
  <2> QED BY <1>3, <2>1, <2>2 DEF Ordinals
<1>4. CASE e.kind # "tool"
  <2>1. ToolsIn(Append(h, e)) = ToolsIn(h)
    BY <1>1, <1>4
  <2> QED BY <1>4, <2>1 DEF Ordinals
<1> QED BY <1>3, <1>4

LEMMA OrdinalsEmpty == Ordinals(<<>>) = 0
<1>1. {i \in DOMAIN <<>> : <<>>[i].kind = "tool"} = {}
  OBVIOUS
<1> QED BY <1>1, FS_EmptySet DEF Ordinals

\* What the client is told of an event more.
LEMMA PlainAppend ==
  ASSUME NEW r, NEW said \in Seq(WireEvent), NEW e \in WireEvent
  PROVE  TextChunks(r, Append(said, e))
           = Append(TextChunks(r, said), [role |-> said = <<>> /\ req[r].route # "chat",
                                     kind |-> e.kind, tool |-> e.tool, reason |-> "none"])
<1> DEFINE c == [role |-> said = <<>> /\ req[r].route # "chat",
                 kind |-> e.kind, tool |-> e.tool, reason |-> "none"]
           n == Len(said)
           T == {TextChunks(r, said)[i] : i \in 1 .. n} \cup {c}
<1>1. /\ n \in Nat /\ DOMAIN said = 1 .. n
      /\ DOMAIN Append(said, e) = 1 .. n + 1 /\ Append(said, e)[n + 1] = e
      /\ \A i \in 1 .. n : Append(said, e)[i] = said[i]
  BY AppendProperties
<1>2. n = 0 <=> said = <<>>
  BY EmptySeq
<1>3. TextChunks(r, said) \in [1 .. n -> T]
  BY <1>1 DEF TextChunks
<1>4. TextChunks(r, said) \in Seq(T) /\ Len(TextChunks(r, said)) = n /\ c \in T
  BY <1>1, <1>3
<1> DEFINE longer == Append(TextChunks(r, said), c)
<1>5. /\ longer \in Seq(T) /\ Len(longer) = n + 1 /\ longer[n + 1] = c
      /\ \A i \in 1 .. n : longer[i] = TextChunks(r, said)[i]
  BY <1>4, AppendProperties
<1>6. TextChunks(r, Append(said, e)) \in [1 .. n + 1 -> T]
  <2>1. DOMAIN TextChunks(r, Append(said, e)) = 1 .. n + 1
    BY <1>1 DEF TextChunks
  <2>2. ASSUME NEW i \in 1 .. n
        PROVE  TextChunks(r, Append(said, e))[i] = TextChunks(r, said)[i]
    BY <1>1 DEF TextChunks
  <2>3. TextChunks(r, Append(said, e))[n + 1] = c
    BY <1>1, <1>2 DEF TextChunks
  <2>4. TextChunks(r, Append(said, e)) = [i \in 1 .. n + 1 |-> TextChunks(r, Append(said, e))[i]]
    BY <2>1 DEF TextChunks
  <2>5. \A i \in 1 .. n + 1 : i \in 1 .. n \/ i = n + 1
    BY <1>1
  <2> QED BY <2>2, <2>3, <2>4, <2>5
<1>7. \A i \in 1 .. n + 1 : TextChunks(r, Append(said, e))[i] = longer[i]
  <2>1. \A i \in 1 .. n : TextChunks(r, Append(said, e))[i] = TextChunks(r, said)[i]
    BY <1>1 DEF TextChunks
  <2>2. TextChunks(r, Append(said, e))[n + 1] = c
    BY <1>1, <1>2 DEF TextChunks
  <2>3. \A i \in 1 .. n + 1 : i \in 1 .. n \/ i = n + 1
    BY <1>1
  <2> QED BY <1>5, <2>1, <2>2, <2>3
<1>8. TextChunks(r, Append(said, e)) \in Seq(T) /\ Len(TextChunks(r, Append(said, e))) = n + 1
  BY <1>1, <1>6
<1>9. longer = TextChunks(r, Append(said, e))
  <2> HIDE DEF longer, T
  <2> QED BY <1>5, <1>7, <1>8, SeqEqual
<1> QED BY <1>9

LEMMA SaidMembers ==
  ASSUME NEW r, NEW h, Unended(r, h)
  PROVE  /\ Without(h, Unsaid(r)) \in Seq(WireEvent)
         /\ \A i \in 1 .. Len(Without(h, Unsaid(r))) :
              Without(h, Unsaid(r))[i].kind \in SaidKinds
<1> DEFINE said == Without(h, Unsaid(r))
<1>1. said \in Seq(WireEvent) /\ ToSet(said) = ToSet(h) \ Unsaid(r)
  BY WithoutKeeps DEF Unended
<1> HIDE DEF said
<1>2. \A e \in ToSet(h) : e \in WireEvent /\ e.kind \in SaidKinds \cup {"delta"}
  BY DEF Unended, ToSet
<1>3. ASSUME NEW i \in 1 .. Len(said)
      PROVE  said[i].kind \in SaidKinds
  <2>1. said[i] \in ToSet(said)
    BY <1>1 DEF ToSet
  <2> QED BY <1>1, <1>2, <2>1 DEF Unsaid
<1> QED BY <1>1, <1>3 DEF said

LEMMA PlainType ==
  ASSUME NEW r, NEW said \in Seq(WireEvent), \A i \in 1 .. Len(said) : said[i].kind \in SaidKinds
  PROVE  TextChunks(r, said) \in Seq(AnyChunk) /\ Len(TextChunks(r, said)) = Len(said)
<1>1. Len(said) \in Nat /\ DOMAIN said = 1 .. Len(said)
  OBVIOUS
<1>2. ASSUME NEW i \in 1 .. Len(said)
      PROVE  [role |-> i = 1 /\ req[r].route # "chat", kind |-> said[i].kind,
              tool |-> said[i].tool, reason |-> "none"] \in AnyChunk
  <2>1. said[i] \in WireEvent
    OBVIOUS
  <2> QED BY <2>1 DEF AnyChunk, SaidKinds, WireEvent
<1>3. TextChunks(r, said) \in [1 .. Len(said) -> AnyChunk]
  BY <1>1, <1>2 DEF TextChunks
<1> QED BY <1>1, <1>3

LEMMA ToldType ==
  ASSUME StreamTypeOK, NEW r \in Requests
  PROVE  /\ Said(r) \in Seq(WireEvent)
         /\ Told(r) \in Seq(AnyChunk) /\ Len(Told(r)) = Len(Said(r))
<1>1. Said(r) \in Seq(WireEvent)
  BY WithoutKeeps DEF StreamTypeOK, Said
<1>2. Reason(sent[r]) \in FinishReasons
  BY DEF Reason, FinishReasons
<1>3. Len(Said(r)) \in Nat /\ DOMAIN Said(r) = 1 .. Len(Said(r))
  BY <1>1
<1>4. ASSUME NEW i \in 1 .. Len(Said(r))
      PROVE  [role |-> i = 1 /\ req[r].route # "chat",
              kind |-> IF Said(r)[i].kind = "stop" THEN "finish" ELSE Said(r)[i].kind,
              tool |-> Said(r)[i].tool,
              reason |-> IF Said(r)[i].kind = "stop" THEN Reason(sent[r]) ELSE "none"] \in AnyChunk
  <2>1. Said(r)[i] \in WireEvent
    BY <1>1
  <2> QED BY <1>2, <2>1 DEF AnyChunk, WireEvent
<1>5. Told(r) \in [1 .. Len(Said(r)) -> AnyChunk]
  BY <1>3, <1>4 DEF Told
<1> QED BY <1>1, <1>3, <1>5

\* What is expected is what is told, and the terminator after the end.
LEMMA ExpectedIsTold ==
  ASSUME StreamTypeOK, NEW r \in Requests
  PROVE  /\ Expected(r) \in Seq(AnyChunk) /\ Len(Told(r)) <= Len(Expected(r))
         /\ \A i \in 1 .. Len(Told(r)) : Expected(r)[i] = Told(r)[i]
         /\ Stopped(r) /\ req[r].framed => Expected(r) = Append(Told(r), Done)
         /\ ~(Stopped(r) /\ req[r].framed) => Expected(r) = Told(r)
<1> DEFINE rest == IF Stopped(r) /\ req[r].framed THEN <<Done>> ELSE <<>>
<1>1. Told(r) \in Seq(AnyChunk)
  BY ToldType
<1>2. Expected(r) = Told(r) \o rest
  BY DEF Expected, Told, Done
<1>3. rest \in Seq(AnyChunk)
  <2>1. Done \in AnyChunk
    BY DEF Done, AnyChunk
  <2> QED BY <2>1
<1>4. Told(r) \o <<Done>> = Append(Told(r), Done) /\ Told(r) \o <<>> = Told(r)
  BY <1>1
<1>5. /\ Told(r) \o rest \in Seq(AnyChunk)
      /\ Len(Told(r) \o rest) = Len(Told(r)) + Len(rest)
      /\ \A i \in 1 .. Len(Told(r)) + Len(rest) :
           (Told(r) \o rest)[i] = IF i <= Len(Told(r)) THEN Told(r)[i] ELSE rest[i - Len(Told(r))]
  <2> HIDE DEF rest
  <2> QED BY <1>1, <1>3, ConcatProperties
<1>6. Len(rest) \in Nat /\ Len(Told(r)) \in Nat
  BY <1>1, <1>3
<1> QED BY <1>2, <1>4, <1>5, <1>6

\* While the upstream goes on, the client has heard what it should have, in its order.
LEMMA HeardInOrder ==
  ASSUME StreamTypeOK, NEW r \in Requests, NEW h, Unended(r, h),
         got[r] = TextChunks(r, Without(h, Unsaid(r))), Without(got[r], CutChunks) = got[r],
         \/ sent[r] = h
         \/ \E e \in WireEvent : sent[r] = Append(h, e)
  PROVE  InOrder(r)
<1> DEFINE said == Without(h, Unsaid(r))
<1>1. said \in Seq(WireEvent) /\ \A i \in 1 .. Len(said) : said[i].kind \in SaidKinds
  BY SaidMembers
<1>2. got[r] = TextChunks(r, said)
  OBVIOUS
<1>3. \/ Said(r) = said
      \/ \E e \in WireEvent : Said(r) = Append(said, e)
  <2>1. CASE sent[r] = h
    BY <2>1 DEF Said
  <2>2. CASE \E e \in WireEvent : sent[r] = Append(h, e)
    <3>1. PICK e \in WireEvent : sent[r] = Append(h, e)
      BY <2>2
    <3>2. Without(Append(h, e), Unsaid(r)) = IF e \in Unsaid(r) THEN said ELSE Append(said, e)
      BY WithoutAppend DEF Unended
    <3> QED BY <3>1, <3>2 DEF Said
  <2> QED BY <2>1, <2>2
<1> HIDE DEF said
<1>4. got[r] \in Seq(AnyChunk) /\ Len(got[r]) = Len(said)
  BY <1>1, <1>2, PlainType
<1>5. Len(said) <= Len(Said(r)) /\ \A i \in 1 .. Len(said) : Said(r)[i] = said[i]
  BY <1>1, <1>3, AppendProperties
<1>6. Told(r) \in Seq(AnyChunk) /\ Len(Told(r)) = Len(Said(r)) /\ Said(r) \in Seq(WireEvent)
  BY ToldType
<1>7. ASSUME NEW i \in 1 .. Len(said)
      PROVE  Told(r)[i] = got[r][i]
  <2>1. i \in DOMAIN said /\ i \in DOMAIN Said(r) /\ Said(r)[i] = said[i] /\ said[i].kind # "stop"
    BY <1>1, <1>5, <1>6 DEF SaidKinds
  <2> QED BY <1>2, <2>1 DEF Told, TextChunks
<1>8. IsPrefix(got[r], Expected(r))
  <2>1. /\ Expected(r) \in Seq(AnyChunk) /\ Len(Told(r)) <= Len(Expected(r))
        /\ \A i \in 1 .. Len(Told(r)) : Expected(r)[i] = Told(r)[i]
    BY ExpectedIsTold
  <2>2. Len(said) \in Nat /\ Len(Told(r)) \in Nat /\ Len(Expected(r)) \in Nat
    BY <1>1, <1>6, <2>1
  <2>3. Len(got[r]) <= Len(Expected(r))
    BY <1>4, <1>5, <1>6, <2>1, <2>2
  <2>4. \A i \in 1 .. Len(said) : i \in 1 .. Len(Told(r))
    BY <1>5, <1>6, <2>2
  <2>5. \A i \in 1 .. Len(got[r]) : got[r][i] = Expected(r)[i]
    BY <1>4, <1>7, <2>1, <2>4, Zenon
  <2> QED BY <1>4, <2>1, <2>3, <2>5, PrefixByMembers
<1>9. IsPrefix(got[r], got[r])
  BY <1>4 DEF IsPrefix
<1>10. Len(got[r]) \in Nat
  BY <1>4
<1> QED BY <1>8, <1>9, <1>10 DEF InOrder

\* The reason of the end is the one that was announced.
LEMMA ReasonOfEnd ==
  ASSUME NEW r, NEW h, Unended(r, h), NEW e \in WireEvent, e.kind = "stop"
  PROVE  Reason(Append(h, e)) = IF LastDelta(h) THEN MapStopReason(Last(h).reason) ELSE "stop"
<1> DEFINE Says(reason) == Contains(Append(h, e), Wire("delta", -1, reason))
<1>1. /\ h \in Seq(WireEvent) /\ Len(h) \in Nat /\ DOMAIN h = 1 .. Len(h)
      /\ Len(Append(h, e)) = Len(h) + 1 /\ Append(h, e)[Len(h) + 1] = e
      /\ \A i \in 1 .. Len(h) : Append(h, e)[i] = h[i]
  BY AppendProperties DEF Unended
<1>2. \A reason \in StopReasons : Says(reason) <=> LastDelta(h) /\ Last(h).reason = reason
  <2> SUFFICES ASSUME NEW reason \in StopReasons
               PROVE  Says(reason) <=> LastDelta(h) /\ Last(h).reason = reason
    OBVIOUS
  <2>1. ASSUME Says(reason)
        PROVE  LastDelta(h) /\ Last(h).reason = reason
    <3>1. PICK i \in 1 .. Len(h) + 1 : Append(h, e)[i] = Wire("delta", -1, reason)
      BY <1>1, <2>1 DEF Contains
    <3>2. Append(h, e)[i].kind = "delta" /\ Append(h, e)[i].reason = reason
      BY <3>1 DEF Wire
    <3>3. i \in 1 .. Len(h)
      BY <1>1, <3>2
    <3>4. h[i].kind = "delta" /\ h[i].reason = reason
      BY <1>1, <3>2, <3>3
    <3>5. i = Len(h)
      BY <1>1, <3>3, <3>4 DEF Unended
    <3> QED BY <1>1, <3>3, <3>4, <3>5 DEF LastDelta, Last
  <2>2. ASSUME LastDelta(h), Last(h).reason = reason
        PROVE  Says(reason)
    <3>1. Len(h) \in 1 .. Len(h) /\ h[Len(h)].kind = "delta" /\ h[Len(h)].reason = reason
      BY <1>1, <2>2, EmptySeq DEF LastDelta, Last
    <3>2. PICK other \in StopReasons : h[Len(h)] = Wire("delta", -1, other)
      BY <1>1, <3>1 DEF Unended
    <3>3. h[Len(h)] = Wire("delta", -1, reason)
      BY <3>1, <3>2 DEF Wire
    <3> QED BY <1>1, <3>1, <3>3 DEF Contains
  <2> QED BY <2>1, <2>2
<1>3. LastDelta(h) => Last(h).reason \in StopReasons
  <2> SUFFICES ASSUME LastDelta(h)
               PROVE  Last(h).reason \in StopReasons
    OBVIOUS
  <2>1. Len(h) \in 1 .. Len(h) /\ h[Len(h)].kind = "delta" /\ Last(h) = h[Len(h)]
    BY <1>1, EmptySeq DEF LastDelta, Last
  <2>2. PICK other \in StopReasons : h[Len(h)] = Wire("delta", -1, other)
    BY <1>1, <2>1 DEF Unended
  <2> QED BY <2>1, <2>2 DEF Wire
<1>4. Reason(Append(h, e)) = CASE Says("max_tokens") -> "length"
                               [] Says("tool_use") -> "tool_calls"
                               [] OTHER -> "stop"
  BY DEF Reason
<1> HIDE DEF Says
<1>5. {"max_tokens", "tool_use", "end_turn"} = StopReasons
  BY DEF StopReasons
<1> QED BY <1>2, <1>3, <1>4, <1>5 DEF MapStopReason

-----------------------------------------------------------------------------
\* What Relay says of a request depends on its variables, events and chunks alone.
LEMMA RelayUnchanged ==
  ASSUME NEW r, Relay(r), req'[r] = req[r], sent'[r] = sent[r], got'[r] = got[r]
  PROVE  Relay(r)'
<1>1. /\ Unsaid(r)' = Unsaid(r) /\ Said(r)' = Said(r) /\ Stopped(r)' = Stopped(r)
  BY DEF Unsaid, Said, Stopped
<1>2. Expected(r)' = Expected(r) /\ Told(r)' = Told(r)
  BY <1>1 DEF Expected, Told
<1>3. InOrder(r)' <=> InOrder(r)
  BY <1>2 DEF InOrder
<1>4. \A h : /\ Unended(r, h)' <=> Unended(r, h)
             /\ Heard(r, h)' <=> Heard(r, h)
             /\ Follows(r, h, req[r].event)' <=> Follows(r, h, req[r].event)
  BY <1>1 DEF Unended, Heard, Follows, TextChunks
<1>5. Hears(r)' <=> Hears(r)
  BY <1>4 DEF Hears, Pending
<1> QED BY <1>1, <1>2, <1>3, <1>5 DEF Relay, Reads, Silence

\* Nor does InOrder depend on more than what was sent and heard, and on the route.
LEMMA InOrderUnchanged ==
  ASSUME NEW r, InOrder(r), req'[r].route = req[r].route, req'[r].framed = req[r].framed,
         sent'[r] = sent[r], got'[r] = got[r]
  PROVE  InOrder(r)' /\ Expected(r)' = Expected(r) /\ Told(r)' = Told(r)
<1>1. /\ Unsaid(r)' = Unsaid(r) /\ Said(r)' = Said(r) /\ Stopped(r)' = Stopped(r)
  BY DEF Unsaid, Said, Stopped
<1>2. Expected(r)' = Expected(r) /\ Told(r)' = Told(r)
  BY <1>1 DEF Expected, Told
<1> QED BY <1>2 DEF InOrder

LEMMA SilenceInOrder ==
  ASSUME NEW r, sent[r] = <<>>, got[r] = <<>>
  PROVE  InOrder(r)
<1>1. Said(r) = <<>> /\ Without(got[r], CutChunks) = <<>> /\ ~Stopped(r)
  BY WithoutEmpty DEF Said, Stopped
<1>2. Told(r) = <<>>
  BY <1>1 DEF Told
<1>3. Expected(r) = Told(r) \o <<>>
  BY <1>1 DEF Expected, Told
<1>4. Expected(r) = <<>>
  BY <1>2, <1>3
<1>5. IsPrefix(<<>>, <<>>) /\ Len(<<>>) <= Len(<<>>) + 1
  BY DEF IsPrefix
<1> QED BY <1>1, <1>4, <1>5 DEF InOrder

\* The steps of a request that send, hear and read nothing, and after which it reads no more.
LEMMA RelayOfLast ==
  ASSUME StreamTypeOK, NEW r \in Requests, Relay(r), sent'[r] = sent[r], got'[r] = got[r],
         req'[r].route = req[r].route, req'[r].framed = req[r].framed,
         req'[r].pc \in {"returned", "closing", "leaving", "ended"},
         req[r].route = "unary" => req'[r].pc \in {"leaving", "ended"},
         req'[r].result = "complete" /\ req[r].route # "unary" =>
           req[r].result = "complete"
  PROVE  Relay(r)'
<1>1. InOrder(r)' /\ Expected(r)' = Expected(r)
  BY InOrderUnchanged DEF Relay
<1> QED BY <1>1 DEF Relay, Reads, Silence

\* What is in order in every state, and so in the next.
OrderLaw ==
  /\ \A r : sent[r] = <<>> /\ got[r] = <<>> => InOrder(r)
  /\ StreamTypeOK => \A r \in Requests : \A h :
       /\ Unended(r, h) /\ got[r] = TextChunks(r, Without(h, Unsaid(r)))
       /\ Without(got[r], CutChunks) = got[r]
       /\ sent[r] = h \/ \E e \in WireEvent : sent[r] = Append(h, e)
       => InOrder(r)

LEMMA OrderLawHolds == OrderLaw
BY SilenceInOrder, HeardInOrder DEF OrderLaw

LEMMA OrderLawNext == OrderLaw'
BY OrderLawHolds, PTL

LEMMA RelayOfOthers ==
  ASSUME StreamTypeOK, NEW r \in Requests, Life(r), Relay(r),
         \/ \E result \in {"complete", "error"} : Call(r, result)
         \/ OpenFails(r) \/ OpenRefused(r) \/ StreamFails(r) \/ EmitFails(r)
         \/ CloseBody(r) \/ CloseStream(r) \/ Unregister(r)
  PROVE  Relay(r)'
<1>1. req[r] \in Request
  BY DEF StreamTypeOK
<1>2. sent' = sent /\ got' = got
  BY DEF Call, OpenFails, OpenRefused, StreamFails, EmitFails, CloseBody, CloseStream, Unregister
<1>3. req[r].route = "unary" => req[r].pc \in {"calling", "leaving", "ended"}
  BY DEF Relay
<1> DEFINE Goes ==
             /\ req'[r].route = req[r].route /\ req'[r].framed = req[r].framed
             /\ req'[r].pc \in {"returned", "closing", "leaving", "ended"}
             /\ req[r].route = "unary" => req'[r].pc \in {"leaving", "ended"}
             /\ req'[r].result = "complete" /\ req[r].route # "unary" =>
                  req[r].result = "complete"
<1>4. Goes
  <2>1. CASE \E result \in {"complete", "error"} : Call(r, result)
    <3>1. PICK result \in {"complete", "error"} : Call(r, result)
      BY <2>1
    <3>2. req'[r] = [req[r] EXCEPT !.pc = "leaving", !.result = result, !.told = result]
      BY <3>1, Becomes DEF Call
    <3>3. req[r].route = "unary"
      BY <3>1 DEF Call, Life
    <3> QED BY <1>1, <3>2, <3>3 DEF Request
  <2>2. CASE OpenRefused(r)
    <3>1. req'[r] = [req[r] EXCEPT !.pc = "returned", !.result = "error", !.body = "open"]
      BY <2>2, Becomes DEF OpenRefused
    <3> QED BY <1>1, <1>3, <2>2, <3>1 DEF Request, OpenRefused
  <2>3. CASE OpenFails(r) \/ StreamFails(r) \/ EmitFails(r)
    <3>1. req'[r] = [req[r] EXCEPT !.pc = "returned", !.result = "error", !.event = NoEvent]
      BY <2>3, Becomes DEF OpenFails, StreamFails, EmitFails, StreamReturns
    <3>2. req[r].pc \in {"opening", "reading", "forwarding", "terminating"}
      BY <2>3 DEF OpenFails, StreamFails, EmitFails
    <3> QED BY <1>1, <1>3, <3>1, <3>2 DEF Request
  <2>4. CASE CloseBody(r)
    <3>1. req'[r] = [req[r] EXCEPT !.pc = "closing", !.body = IF @ = "open" THEN "closed" ELSE @]
      BY <2>4, Becomes DEF CloseBody
    <3> QED BY <1>1, <1>3, <2>4, <3>1 DEF Request, CloseBody
  <2>5. CASE CloseStream(r)
    <3>1. req'[r] = [req[r] EXCEPT !.pc = "leaving", !.told = req[r].result]
      BY <2>5, Becomes DEF CloseStream
    <3> QED BY <1>1, <1>3, <2>5, <3>1 DEF Request, CloseStream
  <2>6. CASE Unregister(r)
    <3>1. req'[r] = [req[r] EXCEPT !.pc = "ended"]
      BY <2>6, Becomes DEF Unregister, ReqAt
    <3> QED BY <1>1, <1>3, <2>6, <3>1 DEF Request, Unregister
  <2> QED BY <2>1, <2>2, <2>3, <2>4, <2>5, <2>6
<1> HIDE DEF Goes
<1>5. sent'[r] = sent[r] /\ got'[r] = got[r]
  BY <1>2
<1> QED BY <1>4, <1>5, RelayOfLast DEF Goes

LEMMA RelayOfAccepted ==
  ASSUME StreamTypeOK, NEW r \in Requests, Relay(r),
         NEW route \in Routes, NEW framed \in BOOLEAN, Accept(r, route, framed)
  PROVE  Relay(r)'
<1>1. req'[r] = [Idle(route, framed) EXCEPT
                   !.pc = IF route = "unary" THEN "calling" ELSE "opening"]
  BY Becomes DEF Accept
<1>2. sent'[r] = <<>> /\ got'[r] = <<>>
  BY DEF Accept, Relay, Silence
<1>3. InOrder(r)'
  BY <1>2, OrderLawNext DEF OrderLaw
<1>4. /\ req'[r].route = route /\ req'[r].result = "none" /\ req'[r].toolIndex = -1
      /\ ~req'[r].roleSent /\ req'[r].finish = "none" /\ ~req'[r].over /\ req'[r].event = NoEvent
      /\ req'[r].pc = IF route = "unary" THEN "calling" ELSE "opening"
  BY <1>1 DEF Idle
<1> QED BY <1>2, <1>3, <1>4 DEF Relay, Reads, Silence

\* The stream is open and nothing has been sent: there is nothing to have heard.
LEMMA RelayOfOpened ==
  ASSUME StreamTypeOK, NEW r \in Requests, Life(r), Relay(r), Open(r)
  PROVE  Relay(r)'
<1>1. req[r] \in Request /\ req[r].pc = "opening" /\ sent' = sent /\ got' = got
  BY DEF StreamTypeOK, Open
<1>2. req'[r] = [req[r] EXCEPT !.pc = "reading", !.body = "open"]
  BY Becomes DEF Open
<1>3. /\ req'[r].pc = "reading" /\ req'[r].route = req[r].route /\ req'[r].result = "none"
      /\ req'[r].framed = req[r].framed /\ req'[r].over = req[r].over
      /\ req'[r].toolIndex = req[r].toolIndex /\ req'[r].finish = req[r].finish
      /\ req'[r].roleSent = req[r].roleSent
  BY <1>1, <1>2 DEF Request, Life, Working
<1>4. /\ sent'[r] = <<>> /\ got'[r] = <<>> /\ req[r].route # "unary"
      /\ req[r].toolIndex = -1 /\ ~req[r].roleSent /\ req[r].finish = "none" /\ ~req[r].over
      /\ InOrder(r)
  BY <1>1 DEF Relay, Silence
<1>5. InOrder(r)'
  BY <1>1, <1>3, <1>4, InOrderUnchanged
<1>6. Unended(r, <<>>)'
  BY DEF Unended
<1>7. Heard(r, <<>>)'
  <2>1. Without(<<>>, Unsaid(r)') = <<>> /\ Without(<<>>, CutChunks) = <<>>
    BY WithoutEmpty
  <2>2. TextChunks(r, <<>>)' = <<>>
    BY DEF TextChunks
  <2>3. ~LastDelta(<<>>)
    BY DEF LastDelta
  <2> QED BY <1>3, <1>4, <2>1, <2>2, <2>3, OrdinalsEmpty DEF Heard
<1>8. Hears(r)'
  BY <1>3, <1>4, <1>6, <1>7 DEF Hears, Pending
<1> QED BY <1>3, <1>4, <1>5, <1>8 DEF Relay

\* The upstream's protocol, of the events that were sent.
LEMMA UpstreamFollows ==
  ASSUME NEW r, NEW h, Unended(r, h), sent[r] = h, NEW e \in Upstream(r)
  PROVE  Follows(r, h, e)
<1> DEFINE last == IF h = <<>> THEN "none" ELSE Last(h).kind
<1>1. Ordinals(h) \in Nat
  BY OrdinalsType DEF Unended
<1>2. \A kind \in SaidKinds \cup {"stop"}, tool \in Int : Wire(kind, tool, "none") \in WireEvent
  BY DEF Wire, WireEvent, SaidKinds
<1>3. \A reason \in StopReasons : Wire("delta", -1, reason) \in WireEvent
  BY DEF Wire, WireEvent
<1>4. CASE req[r].route = "chat"
  <2>1. e \in {Wire("text", -1, "none"), Wire("stop", -1, "none")}
    BY <1>4 DEF Upstream
  <2>2. h # <<>> => Last(h).kind = "text"
    <3>1. h # <<>> => Len(h) \in DOMAIN h
      BY EmptySeq DEF Unended
    <3> QED BY <1>4, <3>1 DEF Unended, Last
  <2>3. ~LastDelta(h)
    BY <2>2 DEF LastDelta
  <2>4. e.kind \in {"text", "stop"} /\ e.tool = -1 /\ e \in WireEvent
    BY <1>2, <2>1 DEF Wire, SaidKinds
  <2> QED BY <2>3, <2>4 DEF Follows, SaidKinds
<1>5. CASE req[r].route # "chat" /\ last = "delta"
  <2>1. e = Wire("stop", -1, "none")
    BY <1>5 DEF Upstream
  <2>2. e.kind = "stop" /\ e.tool = -1 /\ e \in WireEvent
    BY <1>2, <2>1 DEF Wire, SaidKinds
  <2> QED BY <1>5, <2>2 DEF Follows
<1>6. CASE req[r].route # "chat" /\ last # "delta"
  <2>1. \/ e \in {Wire("text", -1, "none"), Wire("tool", Ordinals(h), "none"),
                  Wire("stop", -1, "none")}
        \/ e \in {Wire("delta", -1, reason) : reason \in StopReasons}
        \/ last \in {"tool", "args"} /\ e = Wire("args", Ordinals(h) - 1, "none")
    BY <1>6, Zenon DEF Upstream
  <2>2. ~LastDelta(h)
    BY <1>6 DEF LastDelta
  <2>3. CASE e \in {Wire("text", -1, "none"), Wire("tool", Ordinals(h), "none"),
                    Wire("stop", -1, "none")}
    <3>1. \/ e.kind \in {"text", "stop"} /\ e.tool = -1
          \/ e.kind = "tool" /\ e.tool = Ordinals(h)
      BY <2>3 DEF Wire
    <3>2. e \in WireEvent
      BY <1>1, <1>2, <2>3 DEF SaidKinds
    <3> QED BY <1>6, <2>2, <3>1, <3>2 DEF Follows, SaidKinds
  <2>4. CASE e \in {Wire("delta", -1, reason) : reason \in StopReasons}
    <3>1. e \in WireEvent
      BY <1>3, <2>4
    <3>2. e.kind = "delta"
      BY <2>4 DEF Wire
    <3> QED BY <1>6, <2>2, <2>4, <3>1, <3>2 DEF Follows
  <2>5. CASE last \in {"tool", "args"} /\ e = Wire("args", Ordinals(h) - 1, "none")
    <3>1. h # <<>> /\ Last(h).kind \in {"tool", "args"}
      BY <2>5
    <3>2. Ordinals(h) >= 1
      BY <3>1 DEF Unended
    <3>3. e.kind = "args" /\ e.tool = Ordinals(h) - 1
      BY <2>5 DEF Wire
    <3>4. e \in WireEvent
      BY <1>1, <1>2, <2>5 DEF SaidKinds
    <3> QED BY <1>6, <2>2, <3>2, <3>3, <3>4 DEF Follows, SaidKinds
  <2> QED BY <2>1, <2>3, <2>4, <2>5
<1> QED BY <1>4, <1>5, <1>6

LEMMA RelayOfReceived ==
  ASSUME StreamTypeOK, NEW r \in Requests, Life(r), Relay(r),
         NEW e \in Events(r), NEW more \in BOOLEAN, Receive(r, e, more)
  PROVE  Relay(r)'
<1>1. /\ req[r] \in Request /\ req[r].pc = "reading" /\ ~req[r].over /\ got' = got
      /\ e \in WireEvent /\ StreamTypeOK'
  BY EventTypes, ReceiveTypes DEF StreamTypeOK, Receive, MayRead
<1>2. req'[r] = [req[r] EXCEPT !.pc = "forwarding", !.event = e, !.more = more,
                               !.over = e.kind = "cut"]
  BY Becomes DEF Receive
<1>3. /\ req'[r].pc = "forwarding" /\ req'[r].event = e /\ (req'[r].over <=> e.kind = "cut")
      /\ req'[r].route = req[r].route /\ req'[r].result = "none"
      /\ req'[r].toolIndex = req[r].toolIndex /\ req'[r].finish = req[r].finish
      /\ req'[r].roleSent = req[r].roleSent
  BY <1>1, <1>2 DEF Request, Life, Working
<1>4. PICK h : Unended(r, h) /\ Heard(r, h) /\ sent[r] = h
  BY <1>1 DEF Relay, Reads, Hears, Pending
<1>5. Unended(r, h)' /\ Heard(r, h)'
  <2>1. Unsaid(r)' = Unsaid(r) /\ \A said : TextChunks(r, said)' = TextChunks(r, said)
    BY <1>3 DEF Unsaid, TextChunks
  <2> QED BY <1>1, <1>3, <1>4, <2>1 DEF Unended, Heard
<1>6. CASE e.kind \in {"ping", "cut"}
  <2>1. sent'[r] = h
    BY <1>4, <1>6 DEF Receive
  <2>2. Hears(r)'
    BY <1>3, <1>5, <1>6, <2>1 DEF Hears, Pending
  <2>3. InOrder(r)'
    BY <1>1, <1>5, <2>1, OrderLawNext DEF OrderLaw, Heard
  <2>4. req[r].route # "unary"
    BY <1>1 DEF Relay
  <2> QED BY <1>3, <2>2, <2>3, <2>4 DEF Relay
<1>7. CASE e.kind \notin {"ping", "cut"}
  <2>1. sent'[r] = Append(h, e)
    BY <1>4, <1>7 DEF Receive, StreamTypeOK
  <2>2. e \in Upstream(r)
    <3>1. e \notin {Wire("ping", -1, "none"), Wire("cut", -1, "none")}
      BY <1>7 DEF Wire
    <3> QED BY <3>1 DEF Events
  <2>3. Follows(r, h, e)
    BY <1>4, <2>2, UpstreamFollows
  <2>4. Follows(r, h, req[r].event)'
    BY <1>3, <2>3 DEF Follows
  <2>5. Hears(r)'
    BY <1>3, <1>5, <1>7, <2>1, <2>4 DEF Hears, Pending
  <2>6. InOrder(r)'
    BY <1>1, <1>5, <2>1, OrderLawNext DEF OrderLaw, Heard
  <2>7. req[r].route # "unary"
    BY <1>1 DEF Relay
  <2> QED BY <1>3, <2>5, <2>6, <2>7 DEF Relay
<1> QED BY <1>6, <1>7

-----------------------------------------------------------------------------
LEMMA ForwardedFields ==
  ASSUME StreamTypeOK, NEW r \in Requests, NEW chunks \in ChunksOf(r)
  PROVE  /\ Forwarded(r, chunks).route = req[r].route /\ Forwarded(r, chunks).framed = req[r].framed
         /\ Forwarded(r, chunks).over = req[r].over /\ Forwarded(r, chunks).event = NoEvent
         /\ Forwarded(r, chunks).toolIndex = ToolIndex(r)
         /\ Forwarded(r, chunks).roleSent = (req[r].roleSent \/ (chunks # <<>> /\ chunks[1].role))
         /\ Forwarded(r, chunks).finish = IF req[r].event.kind = "delta"
                                          THEN MapStopReason(req[r].event.reason)
                                          ELSE req[r].finish
         /\ req[r].event.kind # "stop" =>
              Forwarded(r, chunks).pc = "reading" /\ Forwarded(r, chunks).result = req[r].result
         /\ req[r].event.kind = "stop" /\ req[r].framed =>
              Forwarded(r, chunks).pc = "terminating" /\ Forwarded(r, chunks).result = req[r].result
         /\ req[r].event.kind = "stop" /\ ~req[r].framed =>
              Forwarded(r, chunks).pc = "returned" /\ Forwarded(r, chunks).result = "complete"
<1>1. req[r] \in Request
  BY DEF StreamTypeOK
<1> DEFINE rr == [req[r] EXCEPT
                    !.event = NoEvent, !.toolIndex = ToolIndex(r),
                    !.roleSent = @ \/ (chunks # <<>> /\ chunks[1].role),
                    !.finish = IF req[r].event.kind = "delta"
                               THEN MapStopReason(req[r].event.reason) ELSE @]
<1>2. /\ rr.route = req[r].route /\ rr.framed = req[r].framed /\ rr.over = req[r].over
      /\ rr.event = NoEvent /\ rr.toolIndex = ToolIndex(r) /\ rr.result = req[r].result
      /\ rr.roleSent = (req[r].roleSent \/ (chunks # <<>> /\ chunks[1].role))
      /\ rr.finish = IF req[r].event.kind = "delta"
                     THEN MapStopReason(req[r].event.reason) ELSE req[r].finish
  BY <1>1 DEF Request
<1>3. rr \in Request
  <2>1. ToolIndex(r) \in Int /\ NoEvent \in WireEvent
    BY <1>1 DEF ToolIndex, Request, NoEvent, Wire, WireEvent
  <2>2. \A reason : MapStopReason(reason) \in FinishReasons
    BY DEF MapStopReason, FinishReasons
  <2>3. (req[r].roleSent \/ (chunks # <<>> /\ chunks[1].role)) \in BOOLEAN
    OBVIOUS
  <2> QED BY <1>1, <2>1, <2>2, <2>3 DEF Request
<1>4. Forwarded(r, chunks) = IF req[r].event.kind # "stop" THEN [rr EXCEPT !.pc = "reading"]
                             ELSE IF rr.framed THEN [rr EXCEPT !.pc = "terminating"]
                             ELSE [rr EXCEPT !.pc = "returned", !.result = "complete"]
  BY DEF Forwarded
<1> HIDE DEF rr
<1>5. CASE req[r].event.kind # "stop"
  BY <1>2, <1>3, <1>4, <1>5 DEF Request
<1>6. CASE req[r].event.kind = "stop" /\ rr.framed
  BY <1>2, <1>3, <1>4, <1>6 DEF Request
<1>7. CASE req[r].event.kind = "stop" /\ ~rr.framed
  BY <1>2, <1>3, <1>4, <1>7 DEF Request
<1> QED BY <1>2, <1>5, <1>6, <1>7

\* The protocol goes on with an event that is not the end.
LEMMA UnendedAppend ==
  ASSUME NEW r, NEW h, Unended(r, h), NEW e, Follows(r, h, e), e.kind # "stop"
  PROVE  Unended(r, Append(h, e))
<1>1. /\ h \in Seq(WireEvent) /\ e \in WireEvent
      /\ Append(h, e) \in Seq(WireEvent)
      /\ Len(h) \in Nat /\ DOMAIN h = 1 .. Len(h) /\ Len(Append(h, e)) = Len(h) + 1
      /\ DOMAIN Append(h, e) = 1 .. Len(h) + 1 /\ Append(h, e)[Len(h) + 1] = e
      /\ \A i \in 1 .. Len(h) : Append(h, e)[i] = h[i]
  BY AppendProperties DEF Unended, Follows
<1>2. \A i \in 1 .. Len(h) + 1 : i \in 1 .. Len(h) \/ i = Len(h) + 1
  BY <1>1
<1>3. e.kind \in SaidKinds \cup {"delta"} /\ ~LastDelta(h)
  BY DEF Follows
<1>4. \A i \in 1 .. Len(h) : h[i].kind # "delta"
  <2> SUFFICES ASSUME NEW i \in 1 .. Len(h), h[i].kind = "delta"
               PROVE  FALSE
    OBVIOUS
  <2>1. i = Len(h)
    BY <1>1 DEF Unended
  <2>2. h # <<>>
    BY <1>1
  <2> QED BY <1>3, <2>1, <2>2 DEF LastDelta, Last
<1>5. \A i \in DOMAIN Append(h, e) : Append(h, e)[i].kind \in SaidKinds \cup {"delta"}
  BY <1>1, <1>2, <1>3 DEF Unended
<1>6. \A i \in DOMAIN Append(h, e) : Append(h, e)[i].kind = "delta" =>
        /\ i = Len(Append(h, e))
        /\ Append(h, e)[i] \in {Wire("delta", -1, reason) : reason \in StopReasons}
  BY <1>1, <1>2, <1>4 DEF Follows
<1>7. req[r].route = "chat" => \A i \in DOMAIN Append(h, e) : Append(h, e)[i].kind = "text"
  BY <1>1, <1>2, <1>3 DEF Unended, Follows, SaidKinds
<1>8. e.kind \in {"tool", "args"} => Ordinals(Append(h, e)) >= 1
  <2>1. Ordinals(h) \in Nat
    BY <1>1, OrdinalsType
  <2> QED BY <1>1, <2>1, OrdinalsAppend DEF Follows
<1>9. Last(Append(h, e)) = e
  BY <1>1 DEF Last
<1> QED BY <1>1, <1>5, <1>6, <1>7, <1>8, <1>9 DEF Unended

\* The chunk that is made of an event is what the client is told of it.
LEMMA ChunkIsPlain ==
  ASSUME StreamTypeOK, NEW r \in Requests, NEW h, Unended(r, h), Heard(r, h),
         Follows(r, h, req[r].event), req[r].event.kind \in SaidKinds \cup {"stop"},
         ~Silent(r)
  PROVE  /\ ChunkOf(r) \in Chunk
         /\ ChunkOf(r).role = (Without(h, Unsaid(r)) = <<>> /\ req[r].route # "chat")
         /\ ChunkOf(r).tool = req[r].event.tool
         /\ req[r].event.kind # "stop" =>
              ChunkOf(r) = [role |-> Without(h, Unsaid(r)) = <<>> /\ req[r].route # "chat",
                            kind |-> req[r].event.kind, tool |-> req[r].event.tool,
                            reason |-> "none"]
<1> DEFINE said == Without(h, Unsaid(r))
           e == req[r].event
<1>1. req[r] \in Request /\ e \in WireEvent
  BY DEF StreamTypeOK, Request
<1>2. said \in Seq(WireEvent) /\ \A i \in 1 .. Len(said) : said[i].kind \in SaidKinds
  BY SaidMembers
<1>3. got[r] = <<>> <=> said = <<>>
  <2>1. Len(got[r]) = Len(said) /\ got[r] \in Seq(AnyChunk)
    BY <1>2, PlainType DEF Heard
  <2> QED BY <1>2, <2>1, EmptySeq
<1>4. Ordinals(h) \in Nat
  BY OrdinalsType DEF Unended
<1>5. e.kind \in {"tool", "args"} => ToolIndex(r) = e.tool
  BY <1>4 DEF ToolIndex, Heard, Follows
<1>6. (IF e.kind \in {"tool", "args"} THEN ToolIndex(r) ELSE -1) = e.tool
  BY <1>5 DEF Follows, SaidKinds
<1>7. (req[r].route # "chat" /\ ~req[r].roleSent) = (said = <<>> /\ req[r].route # "chat")
  BY <1>3 DEF Heard
<1>8. ChunkOf(r).role = (said = <<>> /\ req[r].route # "chat") /\ ChunkOf(r).tool = e.tool
  BY <1>6, <1>7 DEF ChunkOf
<1>9. ChunkOf(r) \in Chunk
  <2>1. <<ChunkOf(r)>> \in ChunksOf(r)
    BY DEF ChunksOf
  <2>2. <<ChunkOf(r)>> \in Seq(Chunk)
    BY <2>1, ChunkTypes
  <2> QED BY <2>2
<1>10. e.kind # "stop" =>
         ChunkOf(r) = [role |-> said = <<>> /\ req[r].route # "chat", kind |-> e.kind,
                       tool |-> e.tool, reason |-> "none"]
  BY <1>6, <1>7 DEF ChunkOf
<1> QED BY <1>8, <1>9, <1>10

\* A client that has been told all, or all and the terminator, has been told in order.
EndLaw ==
  StreamTypeOK => \A r \in Requests :
    /\ got[r] = Told(r) \/ got[r] = Expected(r)
    /\ Without(got[r], CutChunks) = got[r]
    => InOrder(r)

LEMMA EndLawHolds == EndLaw
<1> SUFFICES ASSUME StreamTypeOK, NEW r \in Requests, got[r] = Told(r) \/ got[r] = Expected(r),
                    Without(got[r], CutChunks) = got[r]
             PROVE  InOrder(r)
  BY DEF EndLaw
<1>1. Told(r) \in Seq(AnyChunk) /\ Expected(r) \in Seq(AnyChunk)
  BY ToldType, ExpectedIsTold
<1>2. IsPrefix(Told(r), Expected(r)) /\ IsPrefix(Expected(r), Expected(r))
  <2>1. Len(Told(r)) <= Len(Expected(r)) /\ \A i \in 1 .. Len(Told(r)) : Expected(r)[i] = Told(r)[i]
    BY ExpectedIsTold
  <2>2. IsPrefix(Told(r), Expected(r))
    BY <1>1, <2>1, PrefixByMembers
  <2> QED BY <1>1, <2>2 DEF IsPrefix
<1>3. got[r] \in Seq(AnyChunk)
  BY <1>1
<1>4. IsPrefix(got[r], got[r]) /\ Len(got[r]) \in Nat
  BY <1>3 DEF IsPrefix
<1> QED BY <1>2, <1>4 DEF InOrder

LEMMA EndLawNext == EndLaw'
BY EndLawHolds, PTL

LEMMA SaidAppend ==
  ASSUME NEW r, NEW h \in Seq(WireEvent), NEW e \in WireEvent
  PROVE  Without(Append(h, e), Unsaid(r))
           = IF e \in Unsaid(r) THEN Without(h, Unsaid(r)) ELSE Append(Without(h, Unsaid(r)), e)
BY WithoutAppend

\* What is told at the upstream's end.
LEMMA ToldAtEnd ==
  ASSUME StreamTypeOK, NEW r \in Requests, NEW h, Unended(r, h), Heard(r, h),
         Follows(r, h, req[r].event), req[r].event.kind = "stop",
         sent[r] = Append(h, req[r].event)
  PROVE  /\ req[r].route = "chat" => Told(r) = got[r]
         /\ req[r].route # "chat" => Told(r) = Append(got[r], ChunkOf(r))
<1> DEFINE said == Without(h, Unsaid(r))
           e == req[r].event
<1>1. /\ said \in Seq(WireEvent) /\ Len(said) \in Nat /\ DOMAIN said = 1 .. Len(said)
      /\ \A i \in 1 .. Len(said) : said[i].kind \in SaidKinds
  BY SaidMembers
<1>2. e \in WireEvent /\ h \in Seq(WireEvent)
  BY DEF Follows, Unended
<1>3. Said(r) = IF e \in Unsaid(r) THEN said ELSE Append(said, e)
  <2>1. Without(Append(h, e), Unsaid(r)) = IF e \in Unsaid(r) THEN said ELSE Append(said, e)
    BY <1>2, SaidAppend
  <2>2. Said(r) = Without(Append(h, e), Unsaid(r))
    BY DEF Said
  <2> QED BY <2>1, <2>2
<1>4. got[r] = TextChunks(r, said) /\ got[r] \in Seq(AnyChunk) /\ Len(got[r]) = Len(said)
  BY <1>1, PlainType DEF Heard
<1>5. CASE req[r].route = "chat"
  <2>1. Said(r) = said
    BY <1>2, <1>3, <1>5 DEF Unsaid
  <2>2. \A i \in DOMAIN said : said[i].kind # "stop"
    BY <1>1 DEF SaidKinds
  <2>3. Told(r) = TextChunks(r, said)
    <3> HIDE DEF said
    <3> QED BY <2>1, <2>2 DEF Told, TextChunks
  <2> QED BY <1>4, <1>5, <2>3
<1>6. CASE req[r].route # "chat"
  <2> DEFINE c == ChunkOf(r)
  <2>1. Said(r) = Append(said, e)
    BY <1>3, <1>6 DEF Unsaid
  <2>2. /\ ~Silent(r) /\ c.kind = "finish"
        /\ c.reason = IF req[r].finish = "none" THEN "stop" ELSE req[r].finish
    BY <1>6 DEF Silent, ChunkOf
  <2>3. c \in Chunk /\ c.role = (said = <<>> /\ req[r].route # "chat") /\ c.tool = e.tool
    BY <2>2, ChunkIsPlain
  <2>4. c.reason = Reason(sent[r])
    <3>1. Reason(sent[r]) = IF LastDelta(h) THEN MapStopReason(Last(h).reason) ELSE "stop"
      BY <1>2, ReasonOfEnd
    <3>2. \A reason : MapStopReason(reason) # "none"
      BY DEF MapStopReason
    <3> QED BY <2>2, <3>1, <3>2 DEF Heard
  <2>5. Len(Append(said, e)) = Len(said) + 1 /\ Append(said, e)[Len(said) + 1] = e
        /\ \A i \in 1 .. Len(said) : Append(said, e)[i] = said[i]
    BY <1>1, <1>2, AppendProperties
  <2>6. Told(r) \in Seq(AnyChunk) /\ Len(Told(r)) = Len(said) + 1
    BY <2>1, <2>5, ToldType
  <2>7. c \in AnyChunk
    BY <2>3 DEF Chunk, AnyChunk
  <2>8. c = [role |-> said = <<>> /\ req[r].route # "chat", kind |-> "finish", tool |-> e.tool,
             reason |-> Reason(sent[r])]
    BY <2>2, <2>3, <2>4 DEF Chunk
  <2> DEFINE longer == Append(got[r], c)
  <2>9. /\ longer \in Seq(AnyChunk) /\ Len(longer) = Len(said) + 1 /\ longer[Len(said) + 1] = c
        /\ \A i \in 1 .. Len(said) : longer[i] = got[r][i]
    <3> HIDE DEF c, said
    <3> QED BY <1>4, <2>7, AppendProperties
  <2>10. ASSUME NEW i \in 1 .. Len(said)
         PROVE  Told(r)[i] = longer[i]
    <3>1. i \in DOMAIN said /\ i \in DOMAIN Said(r) /\ Said(r)[i] = said[i] /\ said[i].kind # "stop"
      <4> HIDE DEF said
      <4>1. Append(said, e) \in Seq(WireEvent)
        BY <1>1, <1>2
      <4> QED BY <1>1, <2>1, <2>5, <4>1 DEF SaidKinds
    <3>2. Told(r)[i] = TextChunks(r, said)[i]
      <4> HIDE DEF said
      <4> QED BY <3>1 DEF Told, TextChunks
    <3> QED BY <1>4, <2>9, <3>2
  <2>11. Told(r)[Len(said) + 1] = longer[Len(said) + 1]
    <3>1. Len(said) + 1 \in DOMAIN Said(r) /\ Said(r)[Len(said) + 1] = e
      <4> HIDE DEF said
      <4>1. Append(said, e) \in Seq(WireEvent)
        BY <1>1, <1>2
      <4> QED BY <1>1, <2>1, <2>5, <4>1
    <3>2. Len(said) + 1 = 1 <=> said = <<>>
      <4> HIDE DEF said
      <4> QED BY <1>1, EmptySeq
    <3>3. Told(r)[Len(said) + 1]
            = [role |-> Len(said) + 1 = 1 /\ req[r].route # "chat", kind |-> "finish",
               tool |-> e.tool, reason |-> Reason(sent[r])]
      <4> HIDE DEF said
      <4> QED BY <3>1 DEF Told
    <3> QED BY <2>8, <2>9, <3>2, <3>3
  <2>12. \A i \in 1 .. Len(said) + 1 : i \in 1 .. Len(said) \/ i = Len(said) + 1
    BY <1>1
  <2>13. Told(r) = longer
    <3> HIDE DEF longer, said
    <3> QED BY <2>6, <2>9, <2>10, <2>11, <2>12, SeqEqual
  <2> QED BY <1>6, <2>13
<1> QED BY <1>5, <1>6

\* An event that is told: a chunk is added to what was heard.
LEMMA ForwardTells ==
  ASSUME StreamTypeOK, StreamTypeOK', NEW r \in Requests, NEW h, Unended(r, h), Heard(r, h),
         NEW e, e = req[r].event, Follows(r, h, e), e.kind \in SaidKinds,
         NEW chunks \in ChunksOf(r), got'[r] = got[r] \o chunks,
         req'[r] = Forwarded(r, chunks)
  PROVE  Heard(r, Append(h, e))'
<1> DEFINE said == Without(h, Unsaid(r))
           c == ChunkOf(r)
<1>1. /\ h \in Seq(WireEvent) /\ e \in WireEvent /\ e.kind \in SaidKinds
      /\ e.kind \notin {"stop", "delta", "ping", "cut"}
      /\ Ordinals(h) \in Nat
  BY OrdinalsType DEF Unended, Follows, SaidKinds
<1>2. said \in Seq(WireEvent) /\ \A i \in 1 .. Len(said) : said[i].kind \in SaidKinds
  BY SaidMembers
<1>3. ~Silent(r)
  BY <1>1 DEF Silent, Heard, Follows, SaidKinds
<1>4. chunks = <<c>>
  BY <1>1, <1>3 DEF ChunksOf
<1>5. /\ c \in Chunk /\ c.role = (said = <<>> /\ req[r].route # "chat")
      /\ c = [role |-> said = <<>> /\ req[r].route # "chat", kind |-> e.kind, tool |-> e.tool,
              reason |-> "none"]
  BY <1>1, <1>3, ChunkIsPlain
<1>6. /\ req'[r].route = req[r].route /\ req'[r].toolIndex = ToolIndex(r)
      /\ req'[r].roleSent = (req[r].roleSent \/ (chunks # <<>> /\ chunks[1].role))
      /\ req'[r].finish = req[r].finish
  <2>1. /\ Forwarded(r, chunks).route = req[r].route
        /\ Forwarded(r, chunks).toolIndex = ToolIndex(r)
        /\ Forwarded(r, chunks).roleSent = (req[r].roleSent \/ (chunks # <<>> /\ chunks[1].role))
        /\ Forwarded(r, chunks).finish = IF e.kind = "delta" THEN MapStopReason(e.reason)
                                         ELSE req[r].finish
    BY ForwardedFields
  <2> QED BY <1>1, <2>1
<1>7. Without(Append(h, e), Unsaid(r)) = Append(said, e)
  <2>1. e \notin Unsaid(r)
    BY <1>1 DEF Unsaid
  <2>2. Without(Append(h, e), Unsaid(r)) = IF e \in Unsaid(r) THEN said ELSE Append(said, e)
    BY <1>1, SaidAppend
  <2> QED BY <2>1, <2>2
<1>8. got[r] = TextChunks(r, said) /\ got[r] \in Seq(Chunk) /\ got[r] \in Seq(AnyChunk)
      /\ Len(got[r]) = Len(said)
  <2>1. got[r] = TextChunks(r, said)
    BY DEF Heard
  <2>2. got[r] \in Seq(Chunk)
    BY DEF StreamTypeOK
  <2> HIDE DEF said
  <2> QED BY <1>2, <2>1, <2>2, PlainType
<1>9. got'[r] = Append(got[r], c)
  <2> HIDE DEF c, said
  <2> QED BY <1>4, <1>5, <1>8
<1>10. TextChunks(r, Append(said, e)) = Append(got[r], c)
  <2>1. TextChunks(r, Append(said, e))
          = Append(TextChunks(r, said), [role |-> said = <<>> /\ req[r].route # "chat",
                                    kind |-> e.kind, tool |-> e.tool, reason |-> "none"])
    <3> HIDE DEF said
    <3> QED BY <1>1, <1>2, PlainAppend
  <2> QED BY <1>5, <1>8, <2>1
<1>11. Unsaid(r)' = Unsaid(r) /\ \A some : TextChunks(r, some)' = TextChunks(r, some)
  BY <1>6 DEF Unsaid, TextChunks
<1>12. got'[r] = TextChunks(r, Without(Append(h, e), Unsaid(r)))'
  BY <1>7, <1>9, <1>10, <1>11
<1>13. Without(got'[r], CutChunks) = got'[r]
  <2>1. c \notin CutChunks
    BY <1>1, <1>5 DEF CutChunks
  <2>2. Without(Append(got[r], c), CutChunks)
          = IF c \in CutChunks THEN Without(got[r], CutChunks)
            ELSE Append(Without(got[r], CutChunks), c)
    <3> HIDE DEF c
    <3> QED BY <1>5, <1>8, WithoutAppend
  <2>3. Without(got[r], CutChunks) = got[r]
    BY DEF Heard
  <2> QED BY <1>9, <2>1, <2>2, <2>3
<1>14. req'[r].toolIndex = Ordinals(Append(h, e)) - 1
  BY <1>1, <1>6, OrdinalsAppend DEF ToolIndex, Heard
<1>15. ~LastDelta(h) /\ ~LastDelta(Append(h, e))
  <2>1. Last(Append(h, e)) = e
    BY <1>1 DEF Last
  <2> QED BY <1>1, <2>1 DEF LastDelta, Follows
<1>16. req'[r].finish = "none"
  BY <1>6, <1>15 DEF Heard
<1>17. req'[r].roleSent <=> req'[r].route # "chat" /\ got'[r] # <<>>
  <2>1. got'[r] # <<>>
    <3> HIDE DEF c
    <3> QED BY <1>5, <1>8, <1>9
  <2>2. got[r] = <<>> <=> said = <<>>
    <3> HIDE DEF said
    <3> QED BY <1>2, <1>8, EmptySeq
  <2>3. chunks # <<>> /\ chunks[1] = c
    <3> HIDE DEF c
    <3> QED BY <1>4
  <2>4. req'[r].roleSent <=> req[r].roleSent \/ c.role
    BY <1>6, <2>3
  <2>5. req[r].roleSent <=> req[r].route # "chat" /\ got[r] # <<>>
    BY DEF Heard
  <2> QED BY <1>5, <1>6, <2>1, <2>2, <2>4, <2>5
<1> QED BY <1>6, <1>12, <1>13, <1>14, <1>15, <1>16, <1>17 DEF Heard

LEMMA ExpectedUnchanged ==
  ASSUME NEW r, req'[r].route = req[r].route, req'[r].framed = req[r].framed,
         sent'[r] = sent[r]
  PROVE  Expected(r)' = Expected(r) /\ Told(r)' = Told(r)
<1>1. /\ Unsaid(r)' = Unsaid(r) /\ Said(r)' = Said(r) /\ Stopped(r)' = Stopped(r)
  BY DEF Unsaid, Said, Stopped
<1> QED BY <1>1 DEF Expected, Told

\* A chunk more, and those among the chunks that are not of an event that was cut off.
LEMMA ChunkAdded ==
  ASSUME NEW heard \in Seq(Chunk), NEW c \in Chunk
  PROVE  /\ IsPrefix(heard, Append(heard, c)) /\ Len(Append(heard, c)) <= Len(heard) + 1
         /\ c.kind = "cut" => Without(Append(heard, c), CutChunks) = Without(heard, CutChunks)
         /\ c.kind # "cut" =>
              Without(Append(heard, c), CutChunks) = Append(Without(heard, CutChunks), c)
<1>1. /\ Append(heard, c) \in Seq(Chunk) /\ Len(Append(heard, c)) = Len(heard) + 1
      /\ \A i \in 1 .. Len(heard) : Append(heard, c)[i] = heard[i]
      /\ Len(heard) \in Nat
  BY AppendProperties
<1>2. IsPrefix(heard, Append(heard, c))
  <2> DEFINE longer == Append(heard, c)
  <2>1. /\ longer \in Seq(Chunk) /\ Len(heard) <= Len(longer)
        /\ \A i \in 1 .. Len(heard) : heard[i] = longer[i]
    BY <1>1
  <2> HIDE DEF longer
  <2>2. IsPrefix(heard, longer)
    BY <2>1, PrefixByMembers
  <2> QED BY <2>2 DEF longer
<1>3. Without(Append(heard, c), CutChunks)
        = IF c \in CutChunks THEN Without(heard, CutChunks)
          ELSE Append(Without(heard, CutChunks), c)
  BY WithoutAppend
<1>4. c \in CutChunks <=> c.kind = "cut"
  BY DEF CutChunks
<1>5. Len(Append(heard, c)) <= Len(heard) + 1
  BY <1>1
<1> QED BY <1>2, <1>3, <1>4, <1>5, Zenon

LEMMA RelayOfForwarded ==
  ASSUME StreamTypeOK, NEW r \in Requests, Life(r), Relay(r), Forward(r)
  PROVE  Relay(r)'
<1>1. /\ req[r] \in Request /\ req[r].pc = "forwarding" /\ sent'[r] = sent[r] /\ StreamTypeOK'
      /\ got[r] \in Seq(Chunk)
  BY ForwardTypes DEF StreamTypeOK, Forward
<1>2. PICK chunks \in ChunksOf(r) :
        got' = [got EXCEPT ![r] = @ \o chunks] /\ ReqBecomes(r, Forwarded(r, chunks))
  BY DEF Forward
<1>3. req'[r] = Forwarded(r, chunks) /\ got'[r] = got[r] \o chunks
  BY <1>2, Becomes DEF StreamTypeOK
<1>4. PICK e : e = req[r].event
  OBVIOUS
<1>5. /\ req'[r].route = req[r].route /\ req'[r].framed = req[r].framed
      /\ req'[r].over = req[r].over /\ req'[r].toolIndex = ToolIndex(r)
      /\ req'[r].roleSent = (req[r].roleSent \/ (chunks # <<>> /\ chunks[1].role))
      /\ req'[r].finish = IF e.kind = "delta" THEN MapStopReason(e.reason) ELSE req[r].finish
      /\ e.kind # "stop" => req'[r].pc = "reading" /\ req'[r].result = req[r].result
      /\ e.kind = "stop" /\ req[r].framed =>
           req'[r].pc = "terminating" /\ req'[r].result = req[r].result
      /\ e.kind = "stop" /\ ~req[r].framed =>
           req'[r].pc = "returned" /\ req'[r].result = "complete"
  BY <1>3, <1>4, ForwardedFields
<1>6. PICK h : /\ Unended(r, h) /\ Heard(r, h)
               /\ ~Pending(r) => sent[r] = h
               /\ Pending(r) => Follows(r, h, e) /\ sent[r] = Append(h, e)
  BY <1>1, <1>4 DEF Relay, Reads, Hears
<1>7. req[r].route # "unary" /\ req[r].result = "none" /\ InOrder(r)
  BY <1>1 DEF Relay, Life, Working
<1>8. Expected(r)' = Expected(r) /\ Told(r)' = Told(r)
  BY <1>1, <1>5, ExpectedUnchanged
<1>9. /\ Unsaid(r)' = Unsaid(r) /\ \A some : TextChunks(r, some)' = TextChunks(r, some)
      /\ \A g : Unended(r, g)' <=> Unended(r, g)
  BY <1>5 DEF Unsaid, TextChunks, Unended
<1>10. Without(got[r], CutChunks) = got[r] /\ got[r] = TextChunks(r, Without(h, Unsaid(r)))
  BY <1>6 DEF Heard
<1>11. CASE e.kind = "ping"
  <2>1. chunks = <<>>
    BY <1>2, <1>4, <1>11 DEF ChunksOf, Silent
  <2>2. got'[r] = got[r]
    BY <1>1, <1>3, <2>1
  <2>3. Heard(r, h)'
    BY <1>4, <1>5, <1>6, <1>9, <1>11, <2>1, <2>2 DEF Heard, ToolIndex
  <2>4. sent'[r] = h
    BY <1>1, <1>4, <1>6, <1>11 DEF Pending
  <2>5. Hears(r)'
    BY <1>5, <1>6, <1>9, <1>11, <2>3, <2>4 DEF Hears, Pending
  <2>6. InOrder(r)'
    BY <1>1, <1>5, <1>7, <2>2, InOrderUnchanged
  <2> QED BY <1>5, <1>7, <1>11, <2>5, <2>6 DEF Relay
<1>12. CASE e.kind = "cut"
  <2>1. req'[r].over
    BY <1>1, <1>4, <1>5, <1>12 DEF Relay
  <2>2. ~Reads(r)'
    BY <1>5, <1>12, <2>1 DEF Reads
  <2>3. IsPrefix(got[r], Expected(r)')
    BY <1>7, <1>8, <1>10 DEF InOrder
  <2>4. /\ Without(got'[r], CutChunks) = got[r]
        /\ IsPrefix(got[r], got'[r]) /\ Len(got'[r]) <= Len(got[r]) + 1
    <3>1. CASE chunks = <<>>
      <4>1. got'[r] = got[r]
        BY <1>1, <1>3, <3>1
      <4> QED BY <1>1, <1>10, <4>1 DEF IsPrefix
    <3>2. CASE chunks # <<>>
      <4>1. chunks = <<ChunkOf(r)>> /\ chunks \in Seq(Chunk)
        BY <1>2, <3>2, ChunkTypes DEF ChunksOf
      <4>2. PICK c : c = ChunkOf(r)
        OBVIOUS
      <4>3. c \in Chunk
        BY <4>1, <4>2
      <4>4. c.kind = "cut"
        BY <1>4, <1>12, <4>2 DEF ChunkOf
      <4>5. got'[r] = Append(got[r], c)
        BY <1>1, <1>3, <4>1, <4>2, <4>3
      <4>6. /\ Without(Append(got[r], c), CutChunks) = Without(got[r], CutChunks)
            /\ IsPrefix(got[r], Append(got[r], c)) /\ Len(Append(got[r], c)) <= Len(got[r]) + 1
        BY <1>1, <4>3, <4>4, ChunkAdded
      <4> QED BY <1>10, <4>3, <4>4, <4>5, <4>6
    <3> QED BY <3>1, <3>2
  <2>5. InOrder(r)'
    BY <2>3, <2>4 DEF InOrder
  <2> QED BY <1>5, <1>7, <1>12, <2>2, <2>5 DEF Relay
<1>13. ASSUME e.kind \notin {"ping", "cut"}
       PROVE  Follows(r, h, e) /\ sent[r] = Append(h, e)
  BY <1>1, <1>4, <1>6, <1>13 DEF Pending
<1>14. ASSUME e.kind \in SaidKinds \cup {"delta"}, Heard(r, Append(h, e))'
       PROVE  Relay(r)'
  <2>1. Follows(r, h, e) /\ sent[r] = Append(h, e) /\ e.kind # "stop"
    BY <1>13, <1>14 DEF SaidKinds
  <2>2. Unended(r, Append(h, e))'
    BY <1>6, <1>9, <2>1, UnendedAppend
  <2>3. sent'[r] = Append(h, e)
    BY <1>1, <2>1
  <2>4. Hears(r)'
    BY <1>5, <1>14, <2>1, <2>2, <2>3 DEF Hears, Pending
  <2>5. InOrder(r)'
    BY <1>1, <1>14, <2>2, <2>3, OrderLawNext DEF OrderLaw, Heard
  <2> QED BY <1>5, <1>7, <2>1, <2>4, <2>5 DEF Relay
<1>15. CASE e.kind = "delta"
  <2>1. chunks = <<>>
    BY <1>2, <1>4, <1>15 DEF ChunksOf, Silent
  <2>2. got'[r] = got[r]
    BY <1>1, <1>3, <2>1
  <2>3. Follows(r, h, e) /\ e \in WireEvent /\ h \in Seq(WireEvent)
    BY <1>6, <1>13, <1>15 DEF Follows, Unended
  <2>4. Without(Append(h, e), Unsaid(r)) = Without(h, Unsaid(r))
    <3>1. e \in Unsaid(r)
      BY <1>15, <2>3 DEF Unsaid
    <3> QED BY <2>3, <3>1, SaidAppend
  <2>5. Ordinals(Append(h, e)) = Ordinals(h)
    BY <1>15, <2>3, OrdinalsAppend
  <2>6. LastDelta(Append(h, e)) /\ Last(Append(h, e)) = e
    BY <1>15, <2>3 DEF LastDelta, Last
  <2>7. Heard(r, Append(h, e))'
    BY <1>4, <1>5, <1>6, <1>9, <1>15, <2>1, <2>2, <2>4, <2>5, <2>6 DEF Heard, ToolIndex
  <2> QED BY <1>14, <1>15, <2>7
<1>16. CASE e.kind \in SaidKinds
  <2>1. Follows(r, h, e)
    BY <1>13, <1>16 DEF SaidKinds
  <2>2. Heard(r, Append(h, e))'
    BY <1>1, <1>3, <1>4, <1>6, <1>16, <2>1, ForwardTells
  <2> QED BY <1>14, <1>16, <2>2
<1>17. CASE e.kind = "stop"
  <2>1. /\ Follows(r, h, req[r].event) /\ req[r].event.kind = "stop"
        /\ sent[r] = Append(h, req[r].event)
    BY <1>4, <1>13, <1>17
  <2>2. got'[r] = Told(r) /\ Without(got'[r], CutChunks) = got'[r]
    <3>1. CASE req[r].route = "chat"
      <4>1. chunks = <<>>
        BY <1>2, <2>1, <3>1 DEF ChunksOf, Silent
      <4>2. got'[r] = got[r]
        BY <1>1, <1>3, <4>1
      <4> QED BY <1>6, <1>10, <2>1, <3>1, <4>2, ToldAtEnd
    <3>2. CASE req[r].route # "chat"
      <4>1. ~Silent(r)
        BY <2>1, <3>2 DEF Silent
      <4>2. chunks = <<ChunkOf(r)>> /\ chunks \in Seq(Chunk)
        BY <1>2, <2>1, <4>1, ChunkTypes DEF ChunksOf
      <4>3. PICK c : c = ChunkOf(r)
        OBVIOUS
      <4>4. c \in Chunk
        BY <4>2, <4>3
      <4>5. c.kind # "cut"
        BY <2>1, <4>3 DEF ChunkOf
      <4>6. got'[r] = Append(got[r], c)
        BY <1>1, <1>3, <4>2, <4>3, <4>4
      <4>7. Without(Append(got[r], c), CutChunks)
              = Append(Without(got[r], CutChunks), c)
        BY <1>1, <4>4, <4>5, ChunkAdded
      <4>8. Told(r) = Append(got[r], c)
        BY <1>6, <2>1, <3>2, <4>3, ToldAtEnd
      <4> QED BY <1>10, <4>6, <4>7, <4>8
    <3> QED BY <3>1, <3>2
  <2>3. InOrder(r)'
    BY <1>1, <1>8, <2>2, EndLawNext DEF EndLaw
  <2>4. CASE req[r].framed
    <3>1. req'[r].pc = "terminating" /\ req'[r].result = "none"
      BY <1>5, <1>7, <1>17, <2>4
    <3> QED BY <1>5, <1>7, <1>8, <2>2, <2>3, <2>4, <3>1 DEF Relay, Reads
  <2>5. CASE ~req[r].framed
    <3>1. req'[r].pc = "returned"
      BY <1>5, <1>17, <2>5
    <3>2. Expected(r) = Told(r)
      BY <2>5, ExpectedIsTold
    <3> QED BY <1>5, <1>7, <1>8, <2>2, <2>3, <3>1, <3>2 DEF Relay, Reads
  <2> QED BY <2>4, <2>5
<1>18. e.kind \in SaidKinds \cup {"delta", "stop", "ping", "cut"}
  BY <1>1, <1>4 DEF Request, WireEvent, SaidKinds
<1> QED BY <1>11, <1>12, <1>15, <1>16, <1>17, <1>18

LEMMA RelayOfTerminated ==
  ASSUME StreamTypeOK, NEW r \in Requests, Life(r), EndSeen(r), Relay(r), Terminate(r)
  PROVE  Relay(r)'
<1>1. /\ req[r] \in Request /\ req[r].pc = "terminating" /\ sent'[r] = sent[r] /\ StreamTypeOK'
      /\ got[r] \in Seq(Chunk)
  BY TerminateTypes DEF StreamTypeOK, Terminate
<1>2. req'[r] = [req[r] EXCEPT !.pc = "returned", !.result = "complete", !.event = NoEvent]
  BY Becomes DEF Terminate, StreamReturns
<1>3. /\ req'[r].pc = "returned" /\ req'[r].route = req[r].route
      /\ req'[r].framed = req[r].framed
  BY <1>1, <1>2 DEF Request
<1>4. got'[r] = Append(got[r], Done)
  BY DEF Terminate, StreamTypeOK, Done
<1>5. /\ got[r] = Told(r) /\ req[r].framed /\ Without(got[r], CutChunks) = got[r]
      /\ InOrder(r) /\ req[r].route # "unary"
  BY <1>1 DEF Relay
<1>6. Stopped(r)
  BY <1>1 DEF EndSeen
<1>7. got'[r] = Expected(r)
  BY <1>4, <1>5, <1>6, ExpectedIsTold
<1>8. Expected(r)' = Expected(r)
  BY <1>1, <1>3, ExpectedUnchanged
<1>9. Without(got'[r], CutChunks) = got'[r]
  <2>1. Done \in Chunk /\ Done.kind # "cut"
    BY DEF Done, Chunk
  <2>2. Without(Append(got[r], Done), CutChunks) = Append(Without(got[r], CutChunks), Done)
    BY <1>1, <2>1, ChunkAdded
  <2> QED BY <1>4, <1>5, <2>1, <2>2
<1>10. InOrder(r)'
  BY <1>1, <1>7, <1>8, <1>9, EndLawNext DEF EndLaw
<1> QED BY <1>3, <1>5, <1>7, <1>8, <1>10 DEF Relay, Reads

LEMMA RelayInit == StreamInit => RelayInv
<1> SUFFICES ASSUME StreamInit, NEW r \in Requests
             PROVE  Relay(r)
  BY DEF RelayInv
<1>1. sent[r] = <<>> /\ got[r] = <<>> /\ req[r] = Idle("chat", FALSE)
  BY DEF StreamInit
<1>2. InOrder(r)
  BY <1>1, SilenceInOrder
<1> QED BY <1>1, <1>2 DEF Idle, Relay, Reads, Silence

LEMMA RelayStep == StreamTypeOK /\ LifeInv /\ RelayInv /\ [StreamNext]_streamVars => RelayInv'
<1> SUFFICES ASSUME StreamTypeOK, LifeInv, RelayInv, [StreamNext]_streamVars
             PROVE  RelayInv'
  OBVIOUS
<1>1. ASSUME NEW r \in Requests,
             \/ \E route \in Routes, framed \in BOOLEAN : Accept(r, route, framed)
             \/ RequestStep(r)
      PROVE  RelayInv'
  <2>1. Life(r) /\ EndSeen(r) /\ Relay(r)
    BY DEF LifeInv, RelayInv
  <2>2. Relay(r)'
    <3>1. CASE \E route \in Routes, framed \in BOOLEAN : Accept(r, route, framed)
      BY <2>1, <3>1, RelayOfAccepted
    <3>2. CASE Open(r)
      BY <2>1, <3>2, RelayOfOpened
    <3>3. CASE \E e \in Events(r), more \in BOOLEAN : Receive(r, e, more)
      BY <2>1, <3>3, RelayOfReceived
    <3>4. CASE Forward(r)
      BY <2>1, <3>4, RelayOfForwarded
    <3>5. CASE Terminate(r)
      BY <2>1, <3>5, RelayOfTerminated
    <3>6. CASE \/ \E result \in {"complete", "error"} : Call(r, result)
               \/ OpenFails(r) \/ OpenRefused(r) \/ StreamFails(r) \/ EmitFails(r)
               \/ CloseBody(r) \/ CloseStream(r) \/ Unregister(r)
      BY <2>1, <3>6, RelayOfOthers
    <3> QED BY <1>1, <3>1, <3>2, <3>3, <3>4, <3>5, <3>6 DEF RequestStep
  <2>3. ASSUME NEW s \in Requests, s # r
        PROVE  Relay(s)'
    <3>1. req'[s] = req[s] /\ sent'[s] = sent[s] /\ got'[s] = got[s]
      BY <1>1, <2>3, Others
    <3> QED BY <3>1, RelayUnchanged DEF RelayInv
  <2> QED BY <2>2, <2>3 DEF RelayInv
<1>2. CASE Quiesce \/ (\E r \in Requests : CancelNext(r)) \/ UNCHANGED streamVars
  <2>1. req' = req /\ sent' = sent /\ got' = got
    BY <1>2 DEF Quiesce, CancelNext, streamVars
  <2>2. ASSUME NEW s \in Requests
        PROVE  Relay(s)'
    BY <2>1, RelayUnchanged DEF RelayInv
  <2> QED BY <2>2 DEF RelayInv
<1> QED
  BY <1>1, <1>2 DEF StreamNext

LEMMA RelayHolds == StreamSpec => []RelayInv
BY RelayInit, RelayStep, StreamTypeCorrect, LifeHolds, PTL DEF StreamSpec

\* openai.go:124-191, anthropic.go:410-577: the client hears what the upstream said, in its
\* order, wherever the stream breaks; and a stream that is closed without an error is a whole
\* answer.
THEOREM StreamsAreRelayed == StreamSpec => []StreamIsRelayed
<1>1. LifeInv /\ RelayInv => StreamIsRelayed
  <2> SUFFICES ASSUME LifeInv, RelayInv
               PROVE  StreamIsRelayed
    OBVIOUS
  <2>1. RelayedInOrder
    BY DEF RelayInv, Relay, InOrder, RelayedInOrder
  <2>2. CompleteMeansAll
    <3> SUFFICES ASSUME NEW r \in Requests, req[r].route # "unary", req[r].told = "complete"
                 PROVE  Stopped(r) /\ got[r] = Expected(r)
      BY DEF CompleteMeansAll
    <3>1. Life(r) /\ EndSeen(r) /\ Relay(r)
      BY DEF LifeInv, RelayInv
    <3>2. req[r].result = "complete"
      BY <3>1 DEF Life
    <3> QED BY <3>1, <3>2 DEF EndSeen, Relay
  <2> QED BY <2>1, <2>2 DEF StreamIsRelayed
<1> QED BY <1>1, LifeHolds, RelayHolds, PTL

-----------------------------------------------------------------------------
(***************************************************************************)
(* The failures a request is told of: a status, a type and whether to      *)
(* retry, each of which follows from the status where the upstream names   *)
(* no type.                                                                *)
(***************************************************************************)

\* errors.go:127: the type of a status says whether it is worth a retry.
LEMMA TypeSaysRetry ==
  ASSUME NEW s \in Nat
  PROVE  defaultErrorType(s) \in RetryTypes <=> (s = 429 \/ s >= 500)
<1>1. CASE s \in {401, 403, 429, 400, 422}
  BY <1>1 DEF defaultErrorType, RetryTypes
<1>2. CASE s \notin {401, 403, 429, 400, 422} /\ s >= 500
  BY <1>2 DEF defaultErrorType, RetryTypes
<1>3. CASE s \notin {401, 403, 429, 400, 422} /\ ~ (s >= 500)
  BY <1>3 DEF defaultErrorType, RetryTypes
<1> QED BY <1>1, <1>2, <1>3

\* errors.go:177: a failure has the status and the retry it was made with.
LEMMA TypedParts ==
  ASSUME NEW s, NEW retry, NEW type, NEW says
  PROVE  LET f == Typed(s, retry, type, says)
         IN /\ f.status = s /\ f.retryable = retry
            /\ f.type = IF type = Unknown THEN defaultErrorType(s) ELSE type
BY DEF Typed, Failure

\* errors.go:38, 45: the failures the plugin makes itself.
LEMMA OwnParts ==
  /\ requestFault.status = 400 /\ requestFault.retryable = FALSE
  /\ requestFault.type = "invalid_request_error"
  /\ incompleteStreamError.status = 502 /\ incompleteStreamError.retryable = TRUE
  /\ incompleteStreamError.type = "server_error"
<1>1. /\ \E says : requestFault = Typed(400, FALSE, "invalid_request_error", says)
      /\ \E says : incompleteStreamError = Typed(502, TRUE, "server_error", says)
  BY Zenon DEF requestFault, incompleteStreamError
<1>2. PICK fault : requestFault = Typed(400, FALSE, "invalid_request_error", fault)
  BY <1>1
<1>3. PICK cut : incompleteStreamError = Typed(502, TRUE, "server_error", cut)
  BY <1>1
<1>4. "invalid_request_error" # Unknown /\ "server_error" # Unknown
  BY DEF Unknown
<1>5. /\ requestFault.status = 400 /\ requestFault.retryable = FALSE
      /\ requestFault.type = "invalid_request_error"
  BY <1>2, <1>4 DEF Typed, Failure
<1>6. /\ incompleteStreamError.status = 502 /\ incompleteStreamError.retryable = TRUE
      /\ incompleteStreamError.type = "server_error"
  BY <1>3, <1>4 DEF Typed, Failure
<1> QED BY <1>5, <1>6

\* errors.go:82: what becomes of an upstream's status and body.
LEMMA ClassifiedParts ==
  ASSUME NEW s \in Nat, NEW b
  PROVE  LET f == classifyHTTPStatus(s, b)
             type == parseUpstreamError(b).type
         IN /\ f.status = s
            /\ f.retryable \in BOOLEAN
            /\ f.retryable <=> (s = 429 \/ s >= 500)
            /\ f.type = IF type = Unknown THEN defaultErrorType(s) ELSE type
<1> DEFINE parsed == parseUpstreamError(b)
           code == IF parsed.code = Unknown /\ s = 403 THEN "upgrade_required" ELSE parsed.code
           message == IF parsed.message = << >> THEN <<"the status in words">> ELSE parsed.message
           retry == (s = 429 \/ s >= 500) /\ s \notin {400, 401, 403, 422}
           says == messageWithCode(code, message)
<1>1. classifyHTTPStatus(s, b) = Typed(s, retry, parsed.type, says)
  BY Zenon DEF classifyHTTPStatus
<1>2. retry \in BOOLEAN /\ (retry <=> (s = 429 \/ s >= 500))
  OBVIOUS
<1> HIDE DEF retry, says, parsed
<1>3. LET f == Typed(s, retry, parsed.type, says)
      IN /\ f.status = s /\ f.retryable = retry
         /\ f.type = IF parsed.type = Unknown THEN defaultErrorType(s) ELSE parsed.type
  BY TypedParts
<1>4. parsed = parseUpstreamError(b)
  BY DEF parsed
<1> QED BY <1>1, <1>2, <1>3, <1>4, Zenon

\* errors.go:84, 102: what the text of an error event says, some words if the body says nothing.
ToldMessage(b, words) ==
  IF parseUpstreamError(b).message = << >> THEN <<words>> ELSE parseUpstreamError(b).message

LEMMA StreamErrorSays ==
  ASSUME NEW b
  PROVE  \E words : StreamError(b).says = messageWithCode(parseUpstreamError(b).code,
                                                          ToldMessage(b, words))
<1> DEFINE code == IF parseUpstreamError(b).code = Unknown /\ 502 = 403
                   THEN "upgrade_required" ELSE parseUpstreamError(b).code
           words == "the status in words"
           retry == (502 = 429 \/ 502 >= 500) /\ 502 \notin {400, 401, 403, 422}
           says == messageWithCode(code, ToldMessage(b, words))
<1>1. StreamError(b) = Typed(502, retry, parseUpstreamError(b).type, says)
  BY Zenon DEF StreamError, classifyHTTPStatus, ToldMessage
<1>2. code = parseUpstreamError(b).code
  OBVIOUS
<1>3. says = messageWithCode(parseUpstreamError(b).code, ToldMessage(b, words))
  <2> HIDE DEF words, code
  <2> QED BY <1>2
<1> HIDE DEF says, retry, words
<1>4. StreamError(b).says = says
  BY <1>1 DEF Typed, Failure
<1> QED BY <1>3, <1>4

\* errors.go:161: a code is in the text that has it added.
LEMMA CodeIsSaid ==
  ASSUME NEW W, NEW code, NEW message \in Seq(W), code # Unknown
  PROVE  \E i \in DOMAIN messageWithCode(code, message) : messageWithCode(code, message)[i] = code
<1>1. CASE \E i \in DOMAIN message : message[i] = code
  BY <1>1 DEF messageWithCode
<1>2. CASE ~ \E i \in DOMAIN message : message[i] = code
  <2> DEFINE T == W \cup {code}
  <2>1. messageWithCode(code, message) = <<code>> \o message
    BY <1>2 DEF messageWithCode
  <2>2. <<code>> \in Seq(T) /\ Len(<<code>>) = 1 /\ <<code>>[1] = code /\ message \in Seq(T)
    OBVIOUS
  <2>3. Len(message) \in Nat
    OBVIOUS
  <2> HIDE DEF T
  <2>4. Len(<<code>> \o message) = 1 + Len(message) /\ (<<code>> \o message)[1] = code
        /\ DOMAIN (<<code>> \o message) = 1 .. Len(<<code>> \o message)
    BY <2>2, <2>3
  <2>5. 1 \in DOMAIN (<<code>> \o message)
    BY <2>3, <2>4
  <2> QED BY <2>1, <2>4, <2>5
<1> QED BY <1>1, <1>2

\* The body of an upstream that says nothing.
LEMMA SomeBody ==
  \E b \in Bodies : parseUpstreamError(b).type = Unknown
<1>1. PICK m \in ErrorMessages : TRUE
  BY FailuresAssumption
<1> DEFINE b == Body("text", Unknown, Unknown, m)
<1>2. b \in Bodies
  BY <1>1, FailuresAssumption DEF Bodies
<1>3. parseUpstreamError(b).type = Unknown
  BY DEF parseUpstreamError, Body
<1> QED BY <1>2, <1>3

LEMMA PartsAgree == FailurePartsAgree
<1>1. ASSUME NEW s \in Statuses, NEW b \in Bodies, parseUpstreamError(b).type = Unknown
      PROVE  classifyHTTPStatus(s, b).retryable <=> classifyHTTPStatus(s, b).type \in RetryTypes
  <2>1. s \in Nat
    BY FailuresAssumption
  <2> QED BY <1>1, <2>1, ClassifiedParts, TypeSaysRetry
<1>2. ASSUME NEW own \in {requestFault, incompleteStreamError}
      PROVE  \E f \in Classified :
               own.status = f.status /\ own.retryable = f.retryable /\ own.type = f.type
  <2>1. PICK b \in Bodies : parseUpstreamError(b).type = Unknown
    BY SomeBody
  <2>2. own.status \in {400, 502} /\ own.status \in Statuses /\ own.status \in Nat
    BY <1>2, OwnParts, FailuresAssumption
  <2> DEFINE f == classifyHTTPStatus(own.status, b)
  <2>3. f \in Classified
    BY <2>1, <2>2 DEF Classified
  <2>4. /\ f.status = own.status /\ f.retryable \in BOOLEAN
        /\ f.retryable <=> (own.status = 429 \/ own.status >= 500)
        /\ f.type = defaultErrorType(own.status)
    BY <2>1, <2>2, ClassifiedParts
  <2> HIDE DEF f
  <2>5. CASE own = requestFault
    <3>1. f.type = "invalid_request_error"
      BY <2>4, <2>5, OwnParts DEF defaultErrorType
    <3>2. f.retryable = FALSE
      BY <2>4, <2>5, OwnParts
    <3>3. own.retryable = FALSE /\ own.type = "invalid_request_error"
      BY <2>5, OwnParts, Zenon
    <3>4. f.status = own.status /\ f.retryable = own.retryable /\ f.type = own.type
      BY <2>4, <3>1, <3>2, <3>3, Zenon
    <3> QED BY <2>3, <3>4, Zenon
  <2>6. CASE own = incompleteStreamError
    <3>1. f.type = "server_error"
      BY <2>4, <2>6, OwnParts DEF defaultErrorType
    <3>2. f.retryable = TRUE
      BY <2>4, <2>6, OwnParts
    <3>3. own.retryable = TRUE /\ own.type = "server_error"
      BY <2>6, OwnParts, Zenon
    <3>4. f.status = own.status /\ f.retryable = own.retryable /\ f.type = own.type
      BY <2>4, <3>1, <3>2, <3>3, Zenon
    <3> QED BY <2>3, <3>4, Zenon
  <2> QED BY <1>2, <2>5, <2>6
<1>3. ASSUME NEW kind \in {"canceled", "deadline", "timeout"}
      PROVE  LET failure == failureFrom(kind, Unknown)
             IN  failure.retryable <=> failure.status = 429 \/ failure.status >= 500
  <2>1. CASE kind = "canceled"
    <3>1. \E says : failureFrom(kind, Unknown) = Failure(499, FALSE, Unknown, says)
      BY <2>1, Zenon DEF failureFrom
    <3> QED BY <3>1 DEF Failure
  <2>2. CASE kind \in {"deadline", "timeout"}
    <3>1. \E says : failureFrom(kind, Unknown) = Failure(504, TRUE, Unknown, says)
      BY <2>2, Zenon DEF failureFrom
    <3> QED BY <3>1 DEF Failure
  <2> QED BY <1>3, <2>1, <2>2
<1>4. ASSUME NEW b \in Bodies, b.form = "object", b.code # Unknown
      PROVE  \E i \in DOMAIN StreamError(b).says : StreamError(b).says[i] = b.code
  <2>1. PICK f \in {"object", "string", "text"}, t \in ErrorTypes, c \in ErrorCodes,
             m \in ErrorMessages : b = Body(f, t, c, m)
    BY DEF Bodies
  <2>2. b.message \in Seq(STRING)
    BY <2>1, FailuresAssumption DEF Body
  <2>3. PICK words : StreamError(b).says = messageWithCode(parseUpstreamError(b).code,
                                                           ToldMessage(b, words))
    BY StreamErrorSays
  <2> DEFINE message == ToldMessage(b, words)
             T == STRING \cup {words}
  <2>4. /\ StreamError(b).says = messageWithCode(b.code, message)
        /\ message = IF b.message = << >> THEN <<words>> ELSE b.message
    <3>1. parseUpstreamError(b).code = b.code /\ parseUpstreamError(b).message = b.message
      BY <1>4 DEF parseUpstreamError
    <3> QED BY <2>3, <3>1 DEF ToldMessage
  <2> HIDE DEF message
  <2>5. message \in Seq(T)
    <3>1. words \in T /\ STRING \subseteq T
      OBVIOUS
    <3> HIDE DEF T
    <3>2. CASE b.message = << >>
      BY <2>4, <3>1, <3>2
    <3>3. CASE b.message # << >>
      <4>1. message = b.message
        BY <2>4, <3>3
      <4>2. b.message \in Seq(T)
        BY <2>2, <3>1, SeqOfMore
      <4> QED BY <4>1, <4>2
    <3> QED BY <3>2, <3>3
  <2> HIDE DEF T
  <2>6. \E i \in DOMAIN messageWithCode(b.code, message) :
          messageWithCode(b.code, message)[i] = b.code
    BY <1>4, <2>5, CodeIsSaid
  <2> QED BY <2>4, <2>6
<1> QED BY <1>1, <1>2, <1>3, <1>4 DEF FailurePartsAgree

\* errors.go:38, 45, 64, 93, 113: whoever is told that a request failed is told a status, a type
\* and whether to retry that agree, for any statuses, types, codes and messages of the upstream.
THEOREM FailuresStayAgreed == StreamSpec => []FailuresAgree
<1>1. FailuresAgree
  BY PartsAgree DEF FailuresAgree
<1> QED BY <1>1, PTL

-----------------------------------------------------------------------------
(***************************************************************************)
(* What is made of the upstream's list of models, whatever it has and      *)
(* whatever patterns are in force.                                         *)
(***************************************************************************)
ListItem(Letters) == [id : Seq(Letters), name : Seq(Letters), context : Nat]

\* models.go:346: the first of an id, of those that have one.
FirstNamedOnes(items) == {i \in DOMAIN items : FirstNamed(items, i)}

KeptOnes(items) ==
  Without([i \in DOMAIN items |-> i], {i \in DOMAIN items : ~ FirstNamed(items, i)})

LEMMA KeptAre ==
  ASSUME NEW Letters, NEW items \in Seq(ListItem(Letters))
  PROVE  /\ KeptOnes(items) \in Seq(FirstNamedOnes(items))
         /\ ToSet(KeptOnes(items)) = FirstNamedOnes(items)
         /\ \A i, j \in DOMAIN KeptOnes(items) : i < j => KeptOnes(items)[i] < KeptOnes(items)[j]
<1> DEFINE all == [i \in DOMAIN items |-> i]
           es == {i \in DOMAIN items : ~ FirstNamed(items, i)}
           kept == Without(all, es)
<1>1. DOMAIN items = 1 .. Len(items) /\ Len(items) \in Nat
  OBVIOUS
<1>2. all \in Seq(Nat) /\ DOMAIN all = DOMAIN items /\ \A i \in DOMAIN items : all[i] = i
  BY <1>1
<1>3. ToSet(all) = DOMAIN items
  BY <1>2 DEF ToSet
<1> HIDE DEF all, es
<1>4. kept \in Seq(Nat) /\ ToSet(kept) = ToSet(all) \ es
  BY <1>2, WithoutKeeps
<1>5. ToSet(kept) = FirstNamedOnes(items)
  BY <1>3, <1>4 DEF es, FirstNamedOnes
<1>6. kept \in Seq(FirstNamedOnes(items))
  <2>1. DOMAIN kept = 1 .. Len(kept) /\ Len(kept) \in Nat
    BY <1>4
  <2>2. \A i \in 1 .. Len(kept) : kept[i] \in FirstNamedOnes(items)
    BY <1>5, <2>1 DEF ToSet
  <2>3. kept = [i \in 1 .. Len(kept) |-> kept[i]]
    BY <1>4
  <2>4. kept \in [1 .. Len(kept) -> FirstNamedOnes(items)]
    BY <2>2, <2>3
  <2> QED BY <2>1, <2>4
<1>7. ASSUME NEW i \in DOMAIN kept, NEW j \in DOMAIN kept, i < j
      PROVE  kept[i] < kept[j]
  <2>1. Ordered(kept, all)
    BY <1>2, WithoutInOrder
  <2>2. PICK k \in DOMAIN all, l \in DOMAIN all : k < l /\ all[k] = kept[i] /\ all[l] = kept[j]
    BY <1>7, <2>1 DEF Ordered
  <2> QED BY <1>2, <2>2
<1>8. kept = KeptOnes(items)
  BY DEF kept, all, es, KeptOnes
<1> HIDE DEF kept
<1> QED BY <1>5, <1>6, <1>7, <1>8

\* What a model has of its item.
IsOf(model, item) ==
  /\ model.id = item.id /\ model.name = (IF item.name = <<>> THEN item.id ELSE item.name)
  /\ model.anthropic <=> isClaude(item.id)

LEMMA UsesById ==
  ASSUME NEW id
  PROVE  usesAnthropicMessages(id, <<>>) <=> isClaude(id)
<1>1. DOMAIN <<>> = {}
  OBVIOUS
<1> QED BY <1>1 DEF usesAnthropicMessages

LEMMA ParsedAre ==
  ASSUME NEW Letters, NEW items \in Seq(ListItem(Letters))
  PROVE  LET models == parseModelsResponse(items)
             kept == KeptOnes(items) IN
         /\ DOMAIN models = DOMAIN kept
         /\ \A i \in DOMAIN models : IsOf(models[i], items[kept[i]])
<1> DEFINE kept == KeptOnes(items)
           model(i) == Model(items[i].id, IF items[i].name = <<>> THEN items[i].id ELSE items[i].name,
                             items[i].context, usesAnthropicMessages(items[i].id, <<>>))
           models == [i \in DOMAIN kept |-> model(kept[i])]
<1>1. parseModelsResponse(items) = models
  BY DEF parseModelsResponse, KeptOnes
<1>2. ASSUME NEW i \in DOMAIN kept
      PROVE  IsOf(models[i], items[kept[i]])
  <2> DEFINE item == items[kept[i]]
  <2>1. models[i] = Model(item.id, IF item.name = <<>> THEN item.id ELSE item.name, item.context,
                          usesAnthropicMessages(item.id, <<>>))
    OBVIOUS
  <2>2. usesAnthropicMessages(item.id, <<>>) <=> isClaude(item.id)
    BY UsesById
  <2> HIDE DEF item, models
  <2> QED BY <2>1, <2>2 DEF Model, IsOf, item
<1>3. DOMAIN models = DOMAIN kept
  OBVIOUS
<1> HIDE DEF models, kept
<1> QED BY <1>1, <1>2, <1>3 DEF kept

\* A pattern that matches a name that is not blank is not blank.
LEMMA MatchOfName ==
  ASSUME NEW Letters, NEW p \in Seq(Letters), NEW v \in Seq(Letters), v # <<>>
  PROVE  matchExcludedModel(p, v) <=> Matches(p, v)
<1>1. matchExcludedModel(p, v) <=> p # <<>> /\ Matches(p, v)
  BY MatchIsRight
<1>2. ASSUME Matches(p, v), p = <<>>
      PROVE  FALSE
  <2>1. PICK f : Taken(f, p, v)
    BY <1>2, Zenon DEF Matches, Taken
  <2>2. Len(p) = 0 /\ f[0] = 0 /\ f[Len(p)] = Len(v)
    BY <1>2, <2>1 DEF Taken
  <2>3. Len(v) = 0
    BY <2>2
  <2> QED BY <2>3
<1> QED BY <1>1, <1>2

\* Nobody hides it.
Visible(id, excluded) == ~ \E j \in DOMAIN excluded : Matches(excluded[j], id)

LEMMA SeqOfValues ==
  ASSUME NEW T, NEW n \in Nat, NEW f \in [1 .. n -> T]
  PROVE  f \in Seq(T)
OBVIOUS

LEMMA OfferedAre ==
  ASSUME NEW Letters, NEW items \in Seq(ListItem(Letters)),
         NEW host \in Seq(Seq(Letters)), NEW own \in Seq(Seq(Letters))
  PROVE  LET models == parseModelsResponse(items)
             offered == Offered(models, [attributes |-> <<>>, host |-> host, storage |-> own]) IN
         /\ offered \in Seq(ToSet(models))
         /\ Ordered(offered, models)
         /\ \A i \in DOMAIN models :
              models[i] \in ToSet(offered) <=> Visible(models[i].id, host \o own)
<1> DEFINE models == parseModelsResponse(items)
           kept == KeptOnes(items)
           excluded == host \o own
           x == [attributes |-> <<>>, host |-> host, storage |-> own]
           out == {model \in ToSet(models) :
                     \E j \in DOMAIN excluded : matchExcludedModel(excluded[j], model.id)}
           offered == Without(models, out)
<1>1. Offered(models, x) = offered
  <2>1. excludedModelsForRequest(x) = excluded
    BY DEF excludedModelsForRequest
  <2> HIDE DEF models, excluded, x
  <2> QED BY <2>1 DEF Offered, applyExcludedModels
<1>2. kept \in Seq(FirstNamedOnes(items))
  BY KeptAre
<1>3. DOMAIN models = DOMAIN kept /\ \A i \in DOMAIN models : IsOf(models[i], items[kept[i]])
  BY ParsedAre
<1>4. excluded \in Seq(Seq(Letters))
  BY ConcatProperties
<1>5. models \in Seq(ToSet(models))
  <2> DEFINE n == Len(kept)
             T == ToSet(models)
  <2>1. DOMAIN models = 1 .. n /\ n \in Nat
    BY <1>2, <1>3
  <2>2. models = [i \in DOMAIN models |-> models[i]]
    BY DEF parseModelsResponse
  <2>3. \A i \in DOMAIN models : models[i] \in T
    BY DEF ToSet
  <2> HIDE DEF models, n, T
  <2>4. models \in [1 .. n -> T]
    BY <2>1, <2>2, <2>3
  <2>5. models \in Seq(T)
    BY <2>1, <2>4, SeqOfValues
  <2> QED BY <2>5 DEF T
<1> HIDE DEF models, excluded, out, kept
<1>6. /\ offered \in Seq(ToSet(models)) /\ Ordered(offered, models)
      /\ ToSet(offered) = ToSet(models) \ out
  BY <1>5, WithoutKeeps, WithoutInOrder
<1>7. ASSUME NEW i \in DOMAIN models
      PROVE  models[i] \in ToSet(offered) <=> Visible(models[i].id, excluded)
  <2>1. kept[i] \in FirstNamedOnes(items) /\ models[i].id = items[kept[i]].id
    BY <1>2, <1>3 DEF IsOf
  <2>2. models[i].id \in Seq(Letters) /\ models[i].id # <<>>
    <3> DEFINE k == kept[i]
    <3>1. k \in DOMAIN items /\ items[k].id # <<>> /\ models[i].id = items[k].id
      BY <2>1 DEF FirstNamedOnes, FirstNamed
    <3> HIDE DEF k
    <3>2. items[k] \in ListItem(Letters)
      BY <3>1
    <3>3. items[k].id \in Seq(Letters)
      BY <3>2 DEF ListItem
    <3> QED BY <3>1, <3>3
  <2>3. \A j \in DOMAIN excluded : matchExcludedModel(excluded[j], models[i].id)
                                    <=> Matches(excluded[j], models[i].id)
    BY <1>4, <2>2, MatchOfName
  <2>4. models[i] \in ToSet(models)
    BY DEF ToSet
  <2>5. models[i] \in out <=> ~ Visible(models[i].id, excluded)
    BY <2>3, <2>4 DEF out, Visible
  <2> QED BY <1>6, <2>4, <2>5
<1> HIDE DEF offered
<1> QED BY <1>1, <1>6, <1>7 DEF models, excluded

\* models.go:228, 346: of any list the plugin offers each usable id once, in the order it first
\* came, but for those that a pattern in force matches, and none without a name.
THEOREM OffersAreRight ==
  ASSUME NEW Letters, NEW items \in Seq(ListItem(Letters)),
         NEW host \in Seq(Seq(Letters)), NEW own \in Seq(Seq(Letters))
  PROVE  OfferedRightly(items, host, own)
<1> DEFINE models == parseModelsResponse(items)
           kept == KeptOnes(items)
           excluded == host \o own
           x == [attributes |-> <<>>, host |-> host, storage |-> own]
           offered == Offered(models, x)
           visible(id) == ~ \E i \in DOMAIN excluded : Matches(excluded[i], id)
           Source(i, k) == k \in DOMAIN items /\ FirstNamed(items, k) /\ offered[i].id = items[k].id
                           /\ offered[i].name # <<>> /\ visible(items[k].id)
<1>1. /\ kept \in Seq(FirstNamedOnes(items)) /\ ToSet(kept) = FirstNamedOnes(items)
      /\ \A i, j \in DOMAIN kept : i < j => kept[i] < kept[j]
  BY KeptAre
<1>2. DOMAIN models = DOMAIN kept /\ \A i \in DOMAIN models : IsOf(models[i], items[kept[i]])
  BY ParsedAre
<1>3. /\ offered \in Seq(ToSet(models)) /\ Ordered(offered, models)
      /\ \A i \in DOMAIN models : models[i] \in ToSet(offered) <=> visible(models[i].id)
  BY OfferedAre DEF Visible
<1> HIDE DEF models, kept, offered, visible
<1>4. ASSUME NEW i \in DOMAIN offered, NEW m \in DOMAIN models, offered[i] = models[m]
      PROVE  Source(i, kept[m])
  <2>1. kept[m] \in FirstNamedOnes(items) /\ IsOf(models[m], items[kept[m]])
    BY <1>1, <1>2
  <2>2. kept[m] \in DOMAIN items /\ FirstNamed(items, kept[m])
    BY <2>1 DEF FirstNamedOnes
  <2>3. models[m] \in ToSet(offered)
    BY <1>4 DEF ToSet
  <2>4. visible(models[m].id)
    BY <1>3, <2>3
  <2>5. models[m].id = items[kept[m]].id /\ items[kept[m]].id # <<>>
    BY <2>1, <2>2 DEF IsOf, FirstNamed
  <2>6. models[m].name # <<>>
    BY <2>1, <2>5 DEF IsOf
  <2> QED BY <1>4, <2>2, <2>4, <2>5, <2>6
<1>5. ASSUME NEW i \in DOMAIN offered
      PROVE  \E k : Source(i, k)
  <2>1. offered[i] \in ToSet(models)
    BY <1>3
  <2>2. PICK m \in DOMAIN models : offered[i] = models[m]
    BY <2>1 DEF ToSet
  <2> QED BY <1>4, <2>2
<1>6. ASSUME NEW i \in DOMAIN offered, NEW j \in DOMAIN offered, i < j
      PROVE  \E k, l : Source(i, k) /\ Source(j, l) /\ k < l
  <2>1. PICK m \in DOMAIN models, n \in DOMAIN models :
          m < n /\ models[m] = offered[i] /\ models[n] = offered[j]
    BY <1>3, <1>6 DEF Ordered
  <2>2. Source(i, kept[m]) /\ Source(j, kept[n])
    BY <1>4, <2>1
  <2>3. kept[m] < kept[n]
    BY <1>1, <1>2, <2>1
  <2> QED BY <2>2, <2>3
<1>7. ASSUME NEW k \in DOMAIN items, items[k].id # <<>>, visible(items[k].id)
      PROVE  \E i \in DOMAIN offered : offered[i].id = items[k].id
  <2> DEFINE I == {i \in DOMAIN items : items[i].id = items[k].id}
             first == Min(I)
  <2>1. DOMAIN items = 1 .. Len(items) /\ Len(items) \in Nat
    OBVIOUS
  <2>2. first \in I /\ first \in Nat /\ \A i \in I : first <= i
    <3>1. I \in SUBSET Nat /\ I # {}
      BY <2>1
    <3> HIDE DEF I
    <3> QED BY <3>1, Least
  <2> HIDE DEF first
  <2>3. first \in DOMAIN items /\ items[first].id = items[k].id
    BY <2>2
  <2>4. FirstNamed(items, first)
    <3>1. ASSUME NEW j \in 1 .. (first - 1)
          PROVE  items[j].id # items[first].id
      <4>1. j \in DOMAIN items /\ j < first
        BY <2>1, <2>3
      <4>2. j \notin I
        <5> HIDE DEF I
        <5> QED BY <2>2, <4>1
      <4> QED BY <2>3, <4>1, <4>2
    <3> QED BY <1>7, <2>3, <3>1 DEF FirstNamed
  <2> HIDE DEF I
  <2>5. first \in ToSet(kept)
    BY <1>1, <2>3, <2>4 DEF FirstNamedOnes
  <2>6. PICK m \in DOMAIN kept : kept[m] = first
    BY <2>5 DEF ToSet
  <2>7. m \in DOMAIN models /\ models[m].id = items[k].id
    BY <1>2, <2>3, <2>6 DEF IsOf
  <2>8. models[m] \in ToSet(offered)
    BY <1>3, <1>7, <2>7
  <2>9. PICK i \in DOMAIN offered : offered[i] = models[m]
    BY <2>8 DEF ToSet
  <2> QED BY <2>7, <2>9
<1>8. {offered[i].id : i \in DOMAIN offered}
        = {id \in {items[i].id : i \in DOMAIN items} : id # <<>> /\ visible(id)}
  <2>1. ASSUME NEW i \in DOMAIN offered
        PROVE  \E k \in DOMAIN items : /\ offered[i].id = items[k].id
                                       /\ items[k].id # <<>> /\ visible(items[k].id)
    <3>1. PICK k : Source(i, k)
      BY <1>5
    <3> QED BY <3>1 DEF FirstNamed
  <2> DEFINE ids == {items[i].id : i \in DOMAIN items}
             wanted == {id \in ids : id # <<>> /\ visible(id)}
             offers == {offered[i].id : i \in DOMAIN offered}
  <2> HIDE DEF Source
  <2>2. ASSUME NEW i \in DOMAIN offered
        PROVE  offered[i].id \in wanted
    BY <2>1
  <2>3. ASSUME NEW id \in wanted
        PROVE  id \in offers
    <3>1. PICK k \in DOMAIN items : id = items[k].id
      OBVIOUS
    <3>2. PICK i \in DOMAIN offered : offered[i].id = items[k].id
      BY <1>7, <3>1
    <3> QED BY <3>1, <3>2
  <2>4. \A id \in offers : \E i \in DOMAIN offered : id = offered[i].id
    OBVIOUS
  <2> HIDE DEF offers, wanted
  <2>5. offers \subseteq wanted /\ wanted \subseteq offers
    BY <2>2, <2>3, <2>4
  <2> QED BY <2>5 DEF offers, wanted
<1>9. ASSUME NEW i \in DOMAIN offered, NEW j \in DOMAIN offered, i < j
      PROVE  /\ offered[i].id # offered[j].id
             /\ \E k \in DOMAIN items : /\ items[k].id = offered[i].id
                                        /\ \A l \in 1..k : items[l].id # offered[j].id
  <2>1. PICK k, l : Source(i, k) /\ Source(j, l) /\ k < l
    BY <1>6, <1>9
  <2>2. k \in Nat \ {0} /\ l \in Nat /\ offered[j].id = items[l].id
    BY <2>1
  <2>3. \A n \in 1 .. (l - 1) : items[n].id # items[l].id
    BY <2>1 DEF FirstNamed
  <2>4. ASSUME NEW n \in 1 .. k
        PROVE  items[n].id # offered[j].id
    <3>1. n \in 1 .. (l - 1)
      BY <2>1, <2>2
    <3> QED BY <2>2, <2>3, <3>1
  <2> QED BY <2>1, <2>2, <2>4
<1>10. \A i, j \in DOMAIN offered : i # j => offered[i].id # offered[j].id
  <2>1. DOMAIN offered \subseteq Nat
    BY <1>3
  <2> QED BY <1>9, <2>1
<1>11. \A i \in DOMAIN offered : offered[i].name # <<>>
  BY <1>5
<1> QED BY <1>8, <1>9, <1>10, <1>11 DEF OfferedRightly, offered, models, visible

\* models.go:179, README.md:110: whatever list is known, a request goes the way of its id.
THEOREM SendsAreRight ==
  ASSUME NEW Letters, NEW items \in Seq(ListItem(Letters)), NEW id \in Seq(Letters)
  PROVE  SentRightly(items, id)
<1> DEFINE models == parseModelsResponse(items)
           kept == KeptOnes(items)
<1>1. DOMAIN models = DOMAIN kept /\ \A i \in DOMAIN models : IsOf(models[i], items[kept[i]])
  BY ParsedAre
<1> HIDE DEF models, kept
<1>2. usesAnthropicMessages(id, models) <=> isClaude(id)
  BY <1>1 DEF usesAnthropicMessages, IsOf
<1>3. isClaude(id) <=> \E letter \in {"c", "C"} : IsPrefix(<<letter>>, id)
  <2>1. CASE id = <<>>
    <3>1. ASSUME NEW letter \in {"c", "C"}
          PROVE  ~ IsPrefix(<<letter>>, id)
      BY <2>1 DEF IsPrefix
    <3> QED BY <2>1, <3>1 DEF isClaude
  <2>2. CASE id # <<>>
    <3>1. Head(id) = id[1] /\ Len(id) \in Nat \ {0}
      BY <2>2
    <3>2. ASSUME NEW letter \in {"c", "C"}
          PROVE  IsPrefix(<<letter>>, id) <=> id[1] = letter
      <4> DEFINE first == SubSeq(id, 1, 1)
      <4>1. first = <<id[1]>>
        <5>1. first \in Seq(Letters) /\ Len(first) = 1 /\ first[1] = id[1]
          BY <3>1
        <5> HIDE DEF first
        <5> QED BY <5>1
      <4> QED BY <3>1, <4>1 DEF IsPrefix
    <3> QED BY <2>2, <3>1, <3>2 DEF isClaude
  <2> QED BY <2>1, <2>2
<1> QED BY <1>2, <1>3 DEF SentRightly, models

\* The responses and patterns that the run goes through are such.
LEMMA ListsOfTheRun ==
  \E Letters : /\ Ids \subseteq Seq(Letters)
               /\ Responses \subseteq Seq(ListItem(Letters))
               /\ Hidden \subseteq Seq(Seq(Letters))
<1> DEFINE L == {"c", "C", "a", "n", "*"}
           names == {<<>>, <<"n">>}
           items == {Item(id, name, 0) : id \in Ids, name \in names}
<1>1. Ids \subseteq Seq(L) /\ names \subseteq Seq(L)
  BY DEF Ids
<1>2. items \subseteq ListItem(L)
  <2>1. ASSUME NEW id \in Seq(L), NEW name \in Seq(L)
        PROVE  Item(id, name, 0) \in ListItem(L)
    BY <2>1 DEF Item, ListItem
  <2> HIDE DEF L, names
  <2> QED BY <1>1, <2>1
<1>3. Responses \subseteq Seq(ListItem(L))
  <2> DEFINE T == ListItem(L)
             lists(n) == [1 .. n -> items]
  <2>1. Responses = UNION {lists(n) : n \in 0 .. 3}
    BY DEF Responses
  <2> HIDE DEF items, L, T
  <2>2. ASSUME NEW n \in 0 .. 3, NEW f \in lists(n)
        PROVE  f \in Seq(T)
    <3>1. f \in [1 .. n -> T] /\ n \in Nat
      BY <1>2, <2>2 DEF T
    <3> QED BY <3>1, SeqOfValues
  <2> HIDE DEF lists
  <2> QED BY <2>1, <2>2 DEF T
<1>4. Hidden \subseteq Seq(Seq(L))
  <2>1. <<"a">> \in Seq(L) /\ <<"c", "*">> \in Seq(L) /\ <<"*", "a">> \in Seq(L)
    OBVIOUS
  <2>2. <<"c">> \in Seq(L) /\ <<"*">> \in Seq(L)
    OBVIOUS
  <2> DEFINE S == Seq(L)
  <2> HIDE DEF S
  <2>3. ASSUME NEW p \in S
        PROVE  <<p>> \in Seq(S)
    OBVIOUS
  <2>4. ASSUME NEW p \in S, NEW q \in S
        PROVE  <<p, q>> \in Seq(S)
    OBVIOUS
  <2>5. <<>> \in Seq(S)
    OBVIOUS
  <2> QED BY <2>1, <2>2, <2>3, <2>4, <2>5 DEF S, Hidden
<1> QED BY <1>1, <1>3, <1>4

\* models.go:179, 228: whoever is answered a list is offered each of its models that nobody hides,
\* once, and each request goes to the endpoint of its model.
THEOREM ListsStayRight == CatalogSpec => []ModelsAreListed
<1>1. ModelsGoByTheirIds
  <2>1. PICK Letters : /\ Ids \subseteq Seq(Letters)
                       /\ Responses \subseteq Seq(ListItem(Letters))
                       /\ Hidden \subseteq Seq(Seq(Letters))
    BY ListsOfTheRun
  <2>2. ASSUME NEW items \in Responses, NEW host \in Hidden, NEW own \in Hidden
        PROVE  OfferedRightly(items, host, own)
    BY <2>1, OffersAreRight
  <2>3. ASSUME NEW items \in Responses, NEW id \in Ids
        PROVE  SentRightly(items, id)
    BY <2>1, SendsAreRight
  <2> QED BY <2>2, <2>3 DEF ModelsGoByTheirIds
<1>2. ModelsAreListed
  BY <1>1 DEF ModelsAreListed
<1> QED BY <1>2, PTL
-----------------------------------------------------------------------------
(***************************************************************************)
(* What goes upstream of a request, for any addresses, fields and texts.   *)
(***************************************************************************)
(* What a client finds at an address. *)

SentAlong(at, url, web, n) ==
  at = [j \in 1..n |-> IF j = 1 THEN url ELSE web[at[j - 1]].redirect]

\* The recursion of AddressAt defines a function.
LEMMA SentAlongExists ==
  ASSUME NEW url, NEW web, NEW n \in Nat
  PROVE  \E at : SentAlong(at, url, web, n)
<1> DEFINE S == {m \in Nat : \E at : SentAlong(at, url, web, m)}
<1>1. 0 \in S
  <2> DEFINE at == [j \in 1..0 |-> url]
  <2>1. SentAlong(at, url, web, 0)
    BY DEF SentAlong
  <2> QED BY <2>1
<1>2. ASSUME NEW m \in S
      PROVE  m + 1 \in S
  <2>1. m \in Nat
    OBVIOUS
  <2>2. PICK at : SentAlong(at, url, web, m)
    OBVIOUS
  <2> DEFINE next == IF m = 0 THEN url ELSE web[at[m]].redirect
             longer == [j \in 1..(m + 1) |-> IF j = m + 1 THEN next ELSE at[j]]
  <2>3. ASSUME NEW j \in 1..(m + 1)
        PROVE  longer[j] = IF j = 1 THEN url ELSE web[longer[j - 1]].redirect
    <3>1. CASE j = m + 1
      <4>1. m # 0 => longer[j - 1] = at[m]
        BY <2>1, <3>1
      <4> QED BY <2>1, <3>1, <4>1
    <3>2. CASE j \in 1..m
      <4>1. longer[j] = at[j] /\ (j # 1 => longer[j - 1] = at[j - 1])
        BY <2>1, <3>2
      <4>2. at[j] = IF j = 1 THEN url ELSE web[at[j - 1]].redirect
        BY <2>2, <3>2 DEF SentAlong
      <4> QED BY <3>2, <4>1, <4>2
    <3> QED BY <2>1, <3>1, <3>2
  <2>4. SentAlong(longer, url, web, m + 1)
    <3>1. longer = [j \in 1..(m + 1) |-> longer[j]]
      OBVIOUS
    <3> HIDE DEF longer
    <3> QED BY <2>3, <3>1 DEF SentAlong
  <2> QED BY <2>1, <2>4
<1>3. S = Nat
  BY <1>1, <1>2, Induction
<1> QED BY <1>3

\* An address is where the one before it sends the client.
LEMMA AddressIs ==
  ASSUME NEW url, NEW web
  PROVE  /\ AddressAt(url, web, 1) = url
         /\ \A i \in 1..MaxRequests :
              i # 1 => AddressAt(url, web, i) = web[AddressAt(url, web, i - 1)].redirect
<1> DEFINE at == CHOOSE f : SentAlong(f, url, web, MaxRequests)
<1>1. SentAlong(at, url, web, MaxRequests)
  <2>1. MaxRequests \in Nat
    BY DEF MaxRequests
  <2> QED BY <2>1, SentAlongExists
<1>2. \A i : AddressAt(url, web, i) = at[i]
  BY Zenon DEF AddressAt, SentAlong
<1> HIDE DEF at
<1>3. \A i \in 1..MaxRequests : at[i] = IF i = 1 THEN url ELSE web[at[i - 1]].redirect
  BY <1>1 DEF SentAlong
<1>4. 1 \in 1..MaxRequests
  BY DEF MaxRequests
<1>5. at[1] = url
  BY <1>3, <1>4
<1>6. ASSUME NEW i \in 1..MaxRequests, i # 1
      PROVE  AddressAt(url, web, i) = web[AddressAt(url, web, i - 1)].redirect
  <2>1. at[i] = web[at[i - 1]].redirect
    BY <1>3, <1>6
  <2> QED BY <1>2, <2>1
<1> QED BY <1>2, <1>5, <1>6

LEMMA NextAddress ==
  ASSUME NEW url, NEW web, NEW i \in Nat \ {0}, i + 1 \in 1..MaxRequests
  PROVE  AddressAt(url, web, i + 1) = web[AddressAt(url, web, i)].redirect
<1>1. i + 1 # 1 /\ (i + 1) - 1 = i
  OBVIOUS
<1>2. AddressAt(url, web, i + 1) = web[AddressAt(url, web, (i + 1) - 1)].redirect
  BY <1>1, AddressIs
<1> QED BY <1>1, <1>2

Going(at, url, web, proxied, up, n) ==
  at = [i \in 0..n |-> IF i = 0 THEN At(url, 1, "going")
                       ELSE Hop(at[i - 1], web, proxied, up)]

\* So does the recursion of Arrival.
LEMMA GoingExists ==
  ASSUME NEW url, NEW web, NEW proxied, NEW up, NEW n \in Nat
  PROVE  \E at : Going(at, url, web, proxied, up, n)
<1> DEFINE first == At(url, 1, "going")
           S == {m \in Nat : \E at : Going(at, url, web, proxied, up, m)}
<1>1. 0 \in S
  <2> DEFINE at == [i \in 0..0 |-> first]
  <2>1. Going(at, url, web, proxied, up, 0)
    BY DEF Going
  <2> QED BY <2>1
<1>2. ASSUME NEW m \in S
      PROVE  m + 1 \in S
  <2>1. m \in Nat
    OBVIOUS
  <2>2. PICK at : Going(at, url, web, proxied, up, m)
    OBVIOUS
  <2> DEFINE next == Hop(at[m], web, proxied, up)
             longer == [i \in 0..(m + 1) |-> IF i = m + 1 THEN next ELSE at[i]]
  <2> HIDE DEF first
  <2>3. ASSUME NEW i \in 0..(m + 1)
        PROVE  longer[i] = IF i = 0 THEN first ELSE Hop(longer[i - 1], web, proxied, up)
    <3>1. CASE i = m + 1
      <4>1. longer[i - 1] = at[m]
        BY <2>1, <3>1
      <4>2. longer[i] = next /\ i # 0
        BY <2>1, <3>1
      <4> QED BY <4>1, <4>2, Zenon
    <3>2. CASE i \in 0..m
      <4>1. longer[i] = at[i] /\ (i # 0 => longer[i - 1] = at[i - 1])
        BY <2>1, <3>2
      <4>2. at[i] = IF i = 0 THEN first ELSE Hop(at[i - 1], web, proxied, up)
        BY <2>2, <3>2 DEF Going, first
      <4> HIDE DEF longer
      <4> QED BY <4>1, <4>2, Zenon
    <3> QED BY <2>1, <3>1, <3>2
  <2>4. Going(longer, url, web, proxied, up, m + 1)
    <3>1. longer = [i \in 0..(m + 1) |-> longer[i]]
      OBVIOUS
    <3> HIDE DEF longer
    <3> QED BY <2>3, <3>1 DEF Going, first
  <2> QED BY <2>1, <2>4
<1>3. S = Nat
  BY <1>1, <1>2, Induction
<1> QED BY <1>3

\* A host that may be asked is reached where its name stands for an address elsewhere.
Reached(address, proxied, up) ==
  proxied \/ \E j \in DOMAIN Resolved(address.host) : Resolved(address.host)[j] \in up \ Inward

LEMMA DialledIs ==
  ASSUME NEW address, parseFetchableImageURL(address), NEW proxied \in BOOLEAN, NEW up
  PROVE  imageHTTPClient(proxied, address.host, up) <=> Reached(address, proxied, up)
<1>1. ~ blockedImageHost(address.host)
  BY Zenon DEF parseFetchableImageURL
<1>2. dialSafeImage(address.host, up)
        <=> \E j \in DOMAIN Resolved(address.host) : Resolved(address.host)[j] \in up \ Inward
  BY <1>1, Zenon DEF dialSafeImage, blockedImageIP
<1> QED BY <1>2, Zenon DEF imageHTTPClient, Reached

\* Whoever has arrived or failed stays so.
LEMMA HopOver ==
  ASSUME NEW url, NEW made, NEW state, state # "going", NEW web, NEW proxied, NEW up
  PROVE  Hop(At(url, made, state), web, proxied, up) = At(url, made, state)
<1> DEFINE at == At(url, made, state)
<1>1. at.state = state
  BY DEF At
<1> HIDE DEF at
<1>2. Hop(at, web, proxied, up) = at
  BY <1>1, Zenon DEF Hop
<1> QED BY <1>2 DEF at

\* Another one goes on, arrives or fails.
LEMMA HopOn ==
  ASSUME NEW url, parseFetchableImageURL(url), NEW made, NEW web, NEW proxied \in BOOLEAN, NEW up
  PROVE  Hop(At(url, made, "going"), web, proxied, up)
           = IF ~ Reached(url, proxied, up) THEN At(url, made, "failed")
             ELSE IF web[url].redirect = NoUrl THEN At(url, made, "answered")
             ELSE IF checkImageRedirect(web[url].redirect, made)
             THEN At(web[url].redirect, made + 1, "going") ELSE At(url, made, "failed")
<1> DEFINE at == At(url, made, "going")
<1>1. at.url = url /\ at.made = made /\ at.state = "going"
  BY DEF At
<1> HIDE DEF at
<1>2. imageHTTPClient(proxied, url.host, up) <=> Reached(url, proxied, up)
  BY DialledIs
<1>3. Hop(at, web, proxied, up)
        = IF ~ Reached(url, proxied, up) THEN At(url, made, "failed")
          ELSE IF web[url].redirect = NoUrl THEN At(url, made, "answered")
          ELSE IF checkImageRedirect(web[url].redirect, made)
          THEN At(web[url].redirect, made + 1, "going") ELSE At(url, made, "failed")
  BY <1>1, <1>2, Zenon DEF Hop
<1> QED BY <1>3 DEF at

\* What a client knows after k rounds.
Along(at, url, web, proxied, up, U, k) ==
  \E address \in U, made \in Nat, state \in {"going", "answered", "failed"} :
    /\ at = At(address, made, state)
    /\ state = "going" =>
         /\ k + 1 \in 1..MaxRequests /\ made = k + 1 /\ address = AddressAt(url, web, k + 1)
         /\ \A i \in 1..(k + 1) : parseFetchableImageURL(AddressAt(url, web, i))
         /\ \A i \in 1..k : /\ Reached(AddressAt(url, web, i), proxied, up)
                            /\ web[AddressAt(url, web, i)].redirect # NoUrl
    /\ state = "answered" =>
         \E n \in 1..MaxRequests : address = AddressAt(url, web, n) /\ LeadsTo(url, web, proxied, up, n)
    /\ state = "failed" => \A n \in 1..MaxRequests : ~ LeadsTo(url, web, proxied, up, n)

LEMMA AlongStep ==
  ASSUME NEW url, NEW web, NEW proxied \in BOOLEAN, NEW up, NEW U,
         \A u \in U : parseFetchableImageURL(web[u].redirect) => web[u].redirect \in U,
         NEW k \in Nat, NEW at, Along(at, url, web, proxied, up, U, k)
  PROVE  Along(Hop(at, web, proxied, up), url, web, proxied, up, U, k + 1)
<1> DEFINE A(i) == AddressAt(url, web, i)
           hop == Hop(at, web, proxied, up)
<1>1. PICK address \in U, made \in Nat, state \in {"going", "answered", "failed"} :
        /\ at = At(address, made, state)
        /\ state = "going" =>
             /\ k + 1 \in 1..MaxRequests /\ made = k + 1 /\ address = A(k + 1)
             /\ \A i \in 1..(k + 1) : parseFetchableImageURL(A(i))
             /\ \A i \in 1..k : Reached(A(i), proxied, up) /\ web[A(i)].redirect # NoUrl
        /\ state = "answered" =>
             \E n \in 1..MaxRequests : address = A(n) /\ LeadsTo(url, web, proxied, up, n)
        /\ state = "failed" => \A n \in 1..MaxRequests : ~ LeadsTo(url, web, proxied, up, n)
  BY Zenon DEF Along
<1> HIDE DEF hop
<1>2. CASE state # "going"
  <2>1. hop = at
    <3>1. Hop(At(address, made, state), web, proxied, up) = At(address, made, state)
      BY <1>2, HopOver
    <3> QED BY <1>1, <3>1, Zenon DEF hop
  <2> QED BY <1>1, <1>2, <2>1, Zenon DEF Along, hop
<1>3. CASE state = "going"
  <2> DEFINE next == web[address].redirect
  <2>1. parseFetchableImageURL(address) /\ address = A(k + 1)
    BY <1>1, <1>3
  <2>2. \A n \in 1..MaxRequests : LeadsTo(url, web, proxied, up, n) => n >= k + 1
    <3> SUFFICES ASSUME NEW n \in 1..MaxRequests, LeadsTo(url, web, proxied, up, n), ~ (n >= k + 1)
                 PROVE  FALSE
      OBVIOUS
    <3>1. n \in 1..k /\ n \in 1..n /\ ~ (n < n)
      BY DEF MaxRequests
    <3>2. web[A(n)].redirect = NoUrl
      BY <3>1 DEF LeadsTo
    <3> QED BY <1>1, <1>3, <3>1, <3>2
  <2>3. CASE ~ Reached(address, proxied, up)
    <3>1. hop = At(address, made, "failed")
      <4>1. Hop(At(address, made, "going"), web, proxied, up) = At(address, made, "failed")
        BY <2>1, <2>3, HopOn
      <4> QED BY <1>1, <1>3, <4>1, Zenon DEF hop
    <3>2. ASSUME NEW n \in 1..MaxRequests, LeadsTo(url, web, proxied, up, n)
          PROVE  FALSE
      <4>1. k + 1 \in 1..n
        BY <2>2, <3>2 DEF MaxRequests
      <4>2. Reached(A(k + 1), proxied, up)
        BY <3>2, <4>1, Zenon DEF LeadsTo, Reached
      <4> QED BY <2>1, <2>3, <4>2
    <3> QED BY <3>1, <3>2, Zenon DEF Along, hop
  <2>4. CASE Reached(address, proxied, up) /\ next = NoUrl
    <3>1. hop = At(address, made, "answered")
      <4>1. Hop(At(address, made, "going"), web, proxied, up) = At(address, made, "answered")
        BY <2>1, <2>4, HopOn
      <4> QED BY <1>1, <1>3, <4>1, Zenon DEF hop
    <3>2. LeadsTo(url, web, proxied, up, k + 1)
      <4>1. ASSUME NEW i \in 1..(k + 1)
            PROVE  /\ parseFetchableImageURL(A(i)) /\ Reached(A(i), proxied, up)
                   /\ i < k + 1 <=> web[A(i)].redirect # NoUrl
        <5>1. CASE i = k + 1
          BY <1>1, <1>3, <2>1, <2>4, <5>1
        <5>2. CASE i \in 1..k
          <6>1. i < k + 1
            BY <5>2
          <6> QED BY <1>1, <1>3, <5>2, <6>1
        <5> QED BY <5>1, <5>2
      <4> QED BY <4>1, Zenon DEF LeadsTo, Reached
    <3>3. k + 1 \in 1..MaxRequests
      BY <1>1, <1>3
    <3> QED BY <2>1, <3>1, <3>2, <3>3, Zenon DEF Along, hop
  <2>5. CASE /\ Reached(address, proxied, up) /\ next # NoUrl
             /\ ~ (made < MaxRequests /\ parseFetchableImageURL(next))
    <3>1. ~ checkImageRedirect(next, made)
      BY <2>5, Zenon DEF checkImageRedirect
    <3>2. hop = At(address, made, "failed")
      <4>1. Hop(At(address, made, "going"), web, proxied, up) = At(address, made, "failed")
        BY <2>1, <2>5, <3>1, HopOn
      <4> QED BY <1>1, <1>3, <4>1, Zenon DEF hop
    <3>3. ASSUME NEW n \in 1..MaxRequests, LeadsTo(url, web, proxied, up, n)
          PROVE  FALSE
      <4>1. n >= k + 1 /\ n \in Nat /\ n <= MaxRequests
        BY <2>2, <3>3 DEF MaxRequests
      <4>2. n # k + 1
        <5>1. n \in 1..n /\ ~ (n < n)
          BY <4>1 DEF MaxRequests
        <5>2. web[A(n)].redirect = NoUrl
          BY <3>3, <5>1 DEF LeadsTo
        <5> QED BY <2>1, <2>5, <5>2
      <4>3. (k + 1) + 1 \in 1..n /\ (k + 1) + 1 \in 1..MaxRequests /\ (k + 1) + 1 # 1 /\ ((k + 1) + 1) - 1 = k + 1
        BY <4>1, <4>2 DEF MaxRequests
      <4>4. A((k + 1) + 1) = next
        <5>1. A((k + 1) + 1) = web[A(k + 1)].redirect
          BY <4>3, NextAddress
        <5> QED BY <2>1, <5>1
      <4>5. parseFetchableImageURL(A((k + 1) + 1))
        BY <3>3, <4>3 DEF LeadsTo
      <4>6. made < MaxRequests
        BY <1>1, <1>3, <4>3 DEF MaxRequests
      <4> QED BY <2>5, <4>4, <4>5, <4>6
    <3> QED BY <3>2, <3>3, Zenon DEF Along, hop
  <2>6. CASE /\ Reached(address, proxied, up) /\ next # NoUrl
             /\ made < MaxRequests /\ parseFetchableImageURL(next)
    <3>1. checkImageRedirect(next, made)
      BY <2>6, Zenon DEF checkImageRedirect
    <3>2. hop = At(next, made + 1, "going")
      <4>1. Hop(At(address, made, "going"), web, proxied, up) = At(next, made + 1, "going")
        BY <2>1, <2>6, <3>1, HopOn
      <4> QED BY <1>1, <1>3, <4>1, Zenon DEF hop
    <3>3. next \in U /\ made + 1 \in Nat /\ made + 1 = (k + 1) + 1
      BY <1>1, <1>3, <2>6
    <3>4. (k + 1) + 1 \in 1..MaxRequests /\ (k + 1) + 1 # 1 /\ ((k + 1) + 1) - 1 = k + 1
      BY <1>1, <1>3, <2>6 DEF MaxRequests
    <3>5. A((k + 1) + 1) = next
      <4>1. A((k + 1) + 1) = web[A(k + 1)].redirect
        BY <3>4, NextAddress
      <4> QED BY <2>1, <4>1
    <3>6. \A i \in 1..((k + 1) + 1) : parseFetchableImageURL(A(i))
      <4> SUFFICES ASSUME NEW i \in 1..((k + 1) + 1)
                   PROVE  parseFetchableImageURL(A(i))
        OBVIOUS
      <4>1. i = (k + 1) + 1 \/ i \in 1..(k + 1)
        OBVIOUS
      <4> QED BY <1>1, <1>3, <2>6, <3>5, <4>1
    <3>7. \A i \in 1..(k + 1) : Reached(A(i), proxied, up) /\ web[A(i)].redirect # NoUrl
      <4> SUFFICES ASSUME NEW i \in 1..(k + 1)
                   PROVE  Reached(A(i), proxied, up) /\ web[A(i)].redirect # NoUrl
        OBVIOUS
      <4>1. i = k + 1 \/ i \in 1..k
        OBVIOUS
      <4> QED BY <1>1, <1>3, <2>1, <2>6, <4>1
    <3>8. "going" # "answered" /\ "going" # "failed"
      OBVIOUS
    <3> HIDE DEF next
    <3> QED BY <3>2, <3>3, <3>4, <3>5, <3>6, <3>7, <3>8, Zenon DEF Along, hop
  <2> QED BY <2>3, <2>4, <2>5, <2>6, Zenon
<1> QED BY <1>2, <1>3, Zenon

\* A way has one end.
LEMMA OneEnd ==
  ASSUME NEW url, NEW web, NEW proxied, NEW up, NEW n \in Nat \ {0}, NEW m \in Nat \ {0},
         LeadsTo(url, web, proxied, up, n), LeadsTo(url, web, proxied, up, m)
  PROVE  n = m
<1>1. ASSUME NEW a \in Nat \ {0}, NEW b \in Nat \ {0}, a < b,
             LeadsTo(url, web, proxied, up, a), LeadsTo(url, web, proxied, up, b)
      PROVE  FALSE
  <2>1. a \in 1..a /\ a \in 1..b /\ ~ (a < a)
    BY <1>1
  <2>2. web[AddressAt(url, web, a)].redirect = NoUrl
    BY <1>1, <2>1 DEF LeadsTo
  <2>3. web[AddressAt(url, web, a)].redirect # NoUrl
    BY <1>1, <2>1 DEF LeadsTo
  <2> QED BY <2>2, <2>3
<1>2. n < m \/ m < n \/ n = m
  OBVIOUS
<1> QED BY <1>1, <1>2

\* An image may be of the media types the model takes, or of none that is told.
LEMMA MimeTaken ==
  ASSUME NEW answer
  PROVE  Or(responseMimeType(answer), defaultImageMimeType) \in allowedImageMIME
           <=> answer.mime \in allowedImageMIME \cup {"", "text/html"}
<1> DEFINE mime == answer.mime
<1>1. defaultImageMimeType \in allowedImageMIME
  BY DEF defaultImageMimeType, allowedImageMIME
<1>2. CASE mime = "text/html"
  <2>1. Or(responseMimeType(answer), defaultImageMimeType) = defaultImageMimeType
    BY <1>2, Zenon DEF Or, responseMimeType
  <2> QED BY <1>1, <1>2, <2>1, Zenon
<1>3. CASE mime # "text/html" /\ mime = ""
  <2>1. Or(responseMimeType(answer), defaultImageMimeType) = defaultImageMimeType
    BY <1>3, Zenon DEF Or, responseMimeType
  <2> QED BY <1>1, <1>3, <2>1, Zenon
<1>4. CASE mime # "text/html" /\ mime # ""
  <2>1. Or(responseMimeType(answer), defaultImageMimeType) = mime
    BY <1>4, Zenon DEF Or, responseMimeType
  <2> QED BY <1>4, <2>1, Zenon
<1> QED BY <1>2, <1>3, <1>4, Zenon

\* What is read of an answer that can be had is all of it.
LEMMA ReceivedIs ==
  ASSUME NEW B, NEW answer, answer.bytes \in Seq(B)
  PROVE  /\ CanBeHad(answer) <=>
              /\ answer.status = 200 /\ Received(answer) # <<>>
              /\ Or(responseMimeType(answer), defaultImageMimeType) \in allowedImageMIME
         /\ CanBeHad(answer) => Received(answer) = answer.bytes
<1>1. Len(answer.bytes) \in Nat /\ (answer.bytes = <<>> <=> Len(answer.bytes) = 0)
  BY EmptySeq, LenProperties
<1>2. imageMaxBytes \in Nat \ {0}
  BY ImagesAssumption
<1>3. Received(answer) = IF answer.breaks \/ Len(answer.bytes) > imageMaxBytes THEN <<>>
                         ELSE answer.bytes
  BY DEF Received
<1>4. Received(answer) # <<>> <=> ~ answer.breaks /\ Len(answer.bytes) \in 1..imageMaxBytes
  BY <1>1, <1>2, <1>3
<1>5. ~ answer.breaks /\ Len(answer.bytes) \in 1..imageMaxBytes => Received(answer) = answer.bytes
  BY <1>1, <1>2, <1>3
<1>6. Or(responseMimeType(answer), defaultImageMimeType) \in allowedImageMIME
        <=> answer.mime \in allowedImageMIME \cup {"", "text/html"}
  BY MimeTaken
<1> QED BY <1>4, <1>5, <1>6, Zenon DEF CanBeHad

\* Where a client is after its last round.
LEMMA ArrivalIs ==
  ASSUME NEW U, NEW url \in U, NEW web,
         \A u \in U : parseFetchableImageURL(web[u].redirect) => web[u].redirect \in U,
         NEW proxied \in BOOLEAN, NEW up, parseFetchableImageURL(url)
  PROVE  \E address \in U :
           \/ /\ \E made : Arrival(url, web, proxied, up) = At(address, made, "answered")
              /\ \E n \in 1..MaxRequests : /\ address = AddressAt(url, web, n)
                                            /\ LeadsTo(url, web, proxied, up, n)
           \/ /\ \E made : Arrival(url, web, proxied, up) = At(address, made, "failed")
              /\ \A n \in 1..MaxRequests : ~ LeadsTo(url, web, proxied, up, n)
<1> DEFINE last == MaxRequests + 1
           at == CHOOSE f : Going(f, url, web, proxied, up, last)
           S == {k \in Nat : k <= last => Along(at[k], url, web, proxied, up, U, k)}
<1>1. last \in Nat /\ MaxRequests \in Nat /\ 1 \in 1..MaxRequests
  BY DEF MaxRequests
<1>2. Going(at, url, web, proxied, up, last)
  BY <1>1, GoingExists
<1>3. Arrival(url, web, proxied, up) = at[last]
  BY Zenon DEF Arrival, Going
<1> HIDE DEF at, last
<1>4. at[0] = At(url, 1, "going") /\ \A k \in 1..last : at[k] = Hop(at[k - 1], web, proxied, up)
  <2>1. 0 \in 0..last /\ \A k \in 1..last : k \in 0..last /\ k # 0
    BY <1>1
  <2>2. \A k \in 0..last : at[k] = IF k = 0 THEN At(url, 1, "going")
                                   ELSE Hop(at[k - 1], web, proxied, up)
    BY <1>2, Zenon DEF Going
  <2> QED BY <2>1, <2>2
<1>5. 0 \in S
  <2>1. AddressAt(url, web, 1) = url
    BY AddressIs
  <2>2. 0 + 1 = 1 /\ 1..0 = {} /\ 1..1 = {1}
    OBVIOUS
  <2>3. /\ 0 + 1 \in 1..MaxRequests /\ 1 = 0 + 1 /\ url = AddressAt(url, web, 0 + 1)
        /\ \A i \in 1..(0 + 1) : parseFetchableImageURL(AddressAt(url, web, i))
        /\ \A i \in 1..0 : /\ Reached(AddressAt(url, web, i), proxied, up)
                           /\ web[AddressAt(url, web, i)].redirect # NoUrl
    BY <1>1, <2>1, <2>2
  <2>4. "going" # "answered" /\ "going" # "failed" /\ 1 \in Nat /\ 0 \in Nat
    OBVIOUS
  <2>5. Along(at[0], url, web, proxied, up, U, 0)
    BY <1>4, <2>3, <2>4, Zenon DEF Along
  <2> QED BY <2>4, <2>5, Zenon
<1>6. ASSUME NEW k \in S
      PROVE  k + 1 \in S
  <2> SUFFICES ASSUME k + 1 <= last
               PROVE  Along(at[k + 1], url, web, proxied, up, U, k + 1)
    OBVIOUS
  <2>1. k \in Nat /\ k <= last /\ k + 1 \in 1..last /\ (k + 1) - 1 = k
    BY <1>1
  <2>2. Along(at[k], url, web, proxied, up, U, k)
    BY <2>1
  <2>3. at[k + 1] = Hop(at[k], web, proxied, up)
    BY <1>4, <2>1
  <2> QED BY <2>1, <2>2, <2>3, AlongStep
<1>7. S = Nat
  BY <1>5, <1>6, Induction
<1>8. Along(at[last], url, web, proxied, up, U, last)
  <2> HIDE DEF S
  <2>1. last \in S
    BY <1>1, <1>7
  <2>2. last <= last
    BY <1>1
  <2> QED BY <2>1, <2>2 DEF S
<1>9. ~ (last + 1 \in 1..MaxRequests)
  BY <1>1 DEF last
<1> QED BY <1>3, <1>8, <1>9, Zenon DEF Along

\* images.go:71: whatever addresses a client is sent along, and whatever is answered there, an
\* image is fetched if and only if it is at the end of at most five requests, each to a host that
\* may be asked and that can be reached, and can be had there; and then it is all there.
THEOREM ImagesAreFound ==
  ASSUME NEW B, NEW U, NEW web,
         \A u \in U : /\ web[u].bytes \in Seq(B)
                      /\ parseFetchableImageURL(web[u].redirect) => web[u].redirect \in U,
         NEW proxied \in BOOLEAN, NEW up,
         NEW url, parseFetchableImageURL(url) => url \in U
  PROVE  /\ FetchedFromEnd(url, web, proxied, up)
         /\ downloadImage(url, web, proxied, up) # Refused =>
              Len(downloadImage(url, web, proxied, up).bytes) \in 1..imageMaxBytes
<1> DEFINE fetched == downloadImage(url, web, proxied, up)
           ends == Distances(url, web, proxied, up)
           A(n) == AddressAt(url, web, n)
<1>1. 1 \in 1..MaxRequests /\ \A n \in 1..MaxRequests : n \in Nat \ {0} /\ 1 \in 1..n
  BY DEF MaxRequests
<1> HIDE DEF fetched, ends
<1>2. CASE ~ parseFetchableImageURL(url)
  <2>1. fetched = Refused
    BY <1>2, Zenon DEF downloadImage, fetched
  <2>2. ASSUME NEW n \in 1..MaxRequests, LeadsTo(url, web, proxied, up, n)
        PROVE  FALSE
    <3>1. parseFetchableImageURL(A(1))
      BY <1>1, <2>2 DEF LeadsTo
    <3> QED BY <1>2, <3>1, AddressIs
  <2>3. ends = {}
    BY <2>2 DEF Distances, ends
  <2> QED BY <2>1, <2>3, Zenon DEF FetchedFromEnd, fetched, ends
<1>3. CASE parseFetchableImageURL(url)
  <2> DEFINE answered == Arrival(url, web, proxied, up).state = "answered"
  <2>1. PICK address \in U :
          \/ /\ \E made : Arrival(url, web, proxied, up) = At(address, made, "answered")
             /\ \E n \in 1..MaxRequests : address = A(n) /\ LeadsTo(url, web, proxied, up, n)
          \/ /\ \E made : Arrival(url, web, proxied, up) = At(address, made, "failed")
             /\ \A n \in 1..MaxRequests : ~ LeadsTo(url, web, proxied, up, n)
    <3>1. \A u \in U : parseFetchableImageURL(web[u].redirect) => web[u].redirect \in U
      OBVIOUS
    <3> QED BY <1>3, <3>1, ArrivalIs
  <2>2. /\ Arrival(url, web, proxied, up).url = address
        /\ answered =>
             \E n \in 1..MaxRequests : address = A(n) /\ LeadsTo(url, web, proxied, up, n)
        /\ ~ answered => \A n \in 1..MaxRequests : ~ LeadsTo(url, web, proxied, up, n)
    <3> DEFINE end == Arrival(url, web, proxied, up)
    <3> HIDE DEF end
    <3>1. ASSUME NEW made, NEW state, end = At(address, made, state)
          PROVE  end.url = address /\ end.state = state
      BY <3>1 DEF At
    <3>2. CASE \E made : end = At(address, made, "answered")
      <4>1. end.url = address /\ end.state = "answered"
        BY <3>1, <3>2
      <4>2. \A made : end # At(address, made, "failed")
        <5>1. "failed" # "answered"
          OBVIOUS
        <5> QED BY <3>1, <4>1, <5>1
      <4> QED BY <2>1, <4>1, <4>2, Zenon DEF end
    <3>3. CASE \E made : end = At(address, made, "failed")
      <4>1. end.url = address /\ end.state = "failed"
        BY <3>1, <3>3
      <4>2. \A made : end # At(address, made, "answered")
        <5>1. "failed" # "answered"
          OBVIOUS
        <5> QED BY <3>1, <4>1, <5>1
      <4>3. "failed" # "answered"
        OBVIOUS
      <4> QED BY <2>1, <4>1, <4>2, <4>3, Zenon DEF end
    <3> QED BY <2>1, <3>2, <3>3, Zenon DEF end
  <2> DEFINE answer == web[address]
  <2>3. answer.bytes \in Seq(B)
    OBVIOUS
  <2>4. /\ CanBeHad(answer) <=>
             /\ answer.status = 200 /\ Received(answer) # <<>>
             /\ Or(responseMimeType(answer), defaultImageMimeType) \in allowedImageMIME
        /\ CanBeHad(answer) => Received(answer) = answer.bytes
    BY <2>3, ReceivedIs
  <2> DEFINE read == [bytes |-> Received(answer),
                     mime |-> Or(responseMimeType(answer), defaultImageMimeType)]
  <2>5. fetched = IF answered /\ CanBeHad(answer) THEN read ELSE Refused
    BY <1>3, <2>2, <2>4, Zenon DEF downloadImage, fetched
  <2>6. read # Refused /\ read.bytes = Received(answer)
    <3>1. \A bytes, mime : [bytes |-> bytes, mime |-> mime] # Refused
      BY DEF Refused
    <3> QED BY <3>1
  <2> HIDE DEF read, answer, answered
  <2>7. CASE ~ answered
    <3>1. fetched = Refused
      BY <2>5, <2>7
    <3>2. ends = {}
      BY <2>2, <2>7 DEF Distances, ends
    <3> QED BY <3>1, <3>2, Zenon DEF FetchedFromEnd, fetched, ends
  <2>8. CASE answered
    <3>1. PICK n \in 1..MaxRequests : address = A(n) /\ LeadsTo(url, web, proxied, up, n)
      BY <2>2, <2>8
    <3>2. \A m \in 1..MaxRequests : LeadsTo(url, web, proxied, up, m) => m = n
      BY <1>1, <3>1, OneEnd
    <3>3. ends = {m \in 1..MaxRequests : m = n /\ CanBeHad(web[A(m)])}
      BY <3>1, <3>2 DEF Distances, ends
    <3>4. CASE CanBeHad(answer)
      <4>1. ends = {n}
        BY <3>1, <3>3, <3>4 DEF answer
      <4>2. fetched = read /\ read.bytes = answer.bytes
        BY <2>4, <2>5, <2>6, <2>8, <3>4
      <4>3. Len(answer.bytes) \in 1..imageMaxBytes
        BY <3>4, Zenon DEF CanBeHad
      <4>4. \A m \in ends : web[A(m)].bytes = answer.bytes
        BY <3>1, <4>1 DEF answer
      <4>5. ends # {}
        BY <4>1
      <4> QED BY <2>6, <4>2, <4>3, <4>4, <4>5, Zenon DEF FetchedFromEnd, fetched, ends
    <3>5. CASE ~ CanBeHad(answer)
      <4>1. ends = {}
        BY <3>1, <3>3, <3>5 DEF answer
      <4>2. fetched = Refused
        BY <2>5, <3>5
      <4> QED BY <4>1, <4>2, Zenon DEF FetchedFromEnd, fetched, ends
    <3> QED BY <3>4, <3>5
  <2> QED BY <2>7, <2>8
<1> QED BY <1>2, <1>3

\* What a part of a message may refer to.
RefersTo(reference, U, B) ==
  \/ reference.form = "blank"
  \/ reference.form = "data" /\ reference.bytes \in Seq(B)
  \/ reference.form = "remote" /\ (parseFetchableImageURL(reference.url) => reference.url \in U)

\* A value is of one kind.
OneKind(value) == \A k, l \in DOMAIN value : k = l

\* What a message may hold.
FitContent(content, U, B) ==
  /\ OneKind(content)
  /\ Is("array", content) => \A i \in DOMAIN content.array : RefersTo(content.array[i].reference, U, B)

\* What the addresses of U answer, and where they send a client.
FitWeb(web, U, B) ==
  \A u \in U : /\ web[u].bytes \in Seq(B)
               /\ parseFetchableImageURL(web[u].redirect) => web[u].redirect \in U

\* What an image may hold that a reference stands for.
ShownBy(reference, web, proxied, up) ==
  IF reference.form = "data" THEN {reference.bytes}
  ELSE {web[AddressAt(reference.url, web, n)].bytes :
          n \in Distances(reference.url, web, proxied, up)}

LEMMA ReferenceIs ==
  ASSUME NEW B, NEW U, NEW web, FitWeb(web, U, B), NEW proxied \in BOOLEAN, NEW up,
         NEW reference, RefersTo(reference, U, B),
         convertImageURL(reference, web, proxied, up) # Refused
  PROVE  /\ convertImageURL(reference, web, proxied, up).bytes \in ShownBy(reference, web, proxied, up)
         /\ Len(convertImageURL(reference, web, proxied, up).bytes) \in 1..imageMaxBytes
<1> DEFINE image == convertImageURL(reference, web, proxied, up)
<1>1. CASE reference.form = "blank"
  <2>1. image = Refused
    BY <1>1, Zenon DEF convertImageURL
  <2> QED BY <2>1
<1>2. CASE reference.form = "data"
  <2>1. image = parseDataURL(reference)
    <3>1. "data" # "blank"
      OBVIOUS
    <3> QED BY <1>2, <3>1, Zenon DEF convertImageURL
  <2>2. parseDataURL(reference) # Refused =>
          /\ parseDataURL(reference).bytes = reference.bytes
          /\ Len(reference.bytes) \in 1..imageMaxBytes
    <3> DEFINE mime == Or(reference.mime, defaultImageMimeType)
               taken == /\ reference.separated /\ reference.encoded /\ mime \in allowedImageMIME
                        /\ Len(reference.bytes) \in 1..imageMaxBytes
    <3>1. parseDataURL(reference) = IF taken THEN [bytes |-> reference.bytes, mime |-> mime]
                                    ELSE Refused
      BY DEF parseDataURL
    <3> HIDE DEF mime
    <3>2. [bytes |-> reference.bytes, mime |-> mime].bytes = reference.bytes
      OBVIOUS
    <3> QED BY <3>1, <3>2
  <2> QED BY <1>2, <2>1, <2>2 DEF ShownBy
<1>3. CASE /\ reference.form = "remote"
           /\ parseFetchableImageURL(reference.url) => reference.url \in U
  <2> DEFINE url == reference.url
             fetched == downloadImage(url, web, proxied, up)
  <2>1. image = fetched
    <3>1. "remote" # "blank" /\ "remote" # "data"
      OBVIOUS
    <3>2. reference.form = "remote"
      BY <1>3
    <3> QED BY <3>1, <3>2, Zenon DEF convertImageURL
  <2>2. FetchedFromEnd(url, web, proxied, up)
        /\ (fetched # Refused => Len(fetched.bytes) \in 1..imageMaxBytes)
    <3>1. \A u \in U : /\ web[u].bytes \in Seq(B)
                       /\ parseFetchableImageURL(web[u].redirect) => web[u].redirect \in U
      BY Zenon DEF FitWeb
    <3> QED BY <1>3, <3>1, ImagesAreFound
  <2>3. /\ fetched # Refused <=> Distances(url, web, proxied, up) # {}
        /\ \A n \in Distances(url, web, proxied, up) :
             fetched.bytes = web[AddressAt(url, web, n)].bytes
    BY <2>2, Zenon DEF FetchedFromEnd
  <2>4. fetched # Refused
    BY <2>1
  <2>5. fetched.bytes \in {web[AddressAt(url, web, n)].bytes : n \in Distances(url, web, proxied, up)}
    BY <2>3, <2>4
  <2>6. ShownBy(reference, web, proxied, up)
          = {web[AddressAt(url, web, n)].bytes : n \in Distances(url, web, proxied, up)}
    <3>1. "remote" # "data"
      OBVIOUS
    <3> QED BY <1>3, <3>1 DEF ShownBy
  <2> QED BY <2>1, <2>2, <2>4, <2>5, <2>6
<1> QED BY <1>1, <1>2, <1>3 DEF RefersTo

\* One text is a part and its block.
LEMMA TextIsPart ==
  ASSUME NEW letters, NEW web, NEW proxied, NEW up
  PROVE  BlocksAreParts(<<Part("text", letters, Blank)>>, <<TextBlock(letters)>>, web, proxied, up)
<1> DEFINE parts == <<Part("text", letters, Blank)>>
           blocks == <<TextBlock(letters)>>
<1>1. Part("text", letters, Blank).type = "text" /\ Part("text", letters, Blank).text = letters
  BY DEF Part
<1>2. IsText(Part("text", letters, Blank))
  BY <1>1, Zenon DEF IsText
<1>3. /\ DOMAIN parts = {1} /\ parts[1] = Part("text", letters, Blank)
      /\ DOMAIN blocks = {1} /\ blocks[1] = TextBlock(letters)
  OBVIOUS
<1> HIDE DEF parts, blocks
<1>4. \A i \in DOMAIN parts : IsText(parts[i]) /\ blocks[i] = TextBlock(parts[i].text)
  BY <1>1, <1>2, <1>3
<1>5. DOMAIN blocks = DOMAIN parts
  BY <1>3
<1>6. BlocksAreParts(parts, blocks, web, proxied, up)
  BY <1>4, <1>5, Zenon DEF BlocksAreParts
<1> QED BY <1>6 DEF parts, blocks

LEMMA UserContentIs ==
  ASSUME NEW B, NEW U, NEW web, FitWeb(web, U, B), NEW proxied \in BOOLEAN, NEW up,
         NEW content, FitContent(content, U, B),
         NEW blocks \in convertUserContent(content, web, proxied, up)
  PROVE  BlocksAreParts(PartsOf(content), blocks, web, proxied, up)
<1> DEFINE image(part) == convertImageURL(part.reference, web, proxied, up)
           usable(part) == IsText(part) \/ (part.type = "image_url" /\ image(part) # Refused)
           block(part) == IF IsText(part) THEN TextBlock(part.text) ELSE Block("image", image(part))
           parts == content.array
           shown == [i \in DOMAIN parts |-> block(parts[i])]
<1>1. blocks \in IF Is("text", content) THEN {<<TextBlock(content.text)>>}
                 ELSE IF Is("missing", content) \/ Is("null", content) THEN {<<TextBlock(<<>>)>>}
                 ELSE IF ~ Is("array", content) \/ \E i \in DOMAIN parts : ~ usable(parts[i]) THEN {}
                 ELSE IF parts = <<>> THEN {<<TextBlock(<<>>)>>}
                 ELSE {shown}
  BY Zenon DEF convertUserContent
<1>2. \A kind \in {"text", "missing", "null"} :
        Is(kind, content) => /\ ~ Is("array", content)
                             /\ kind # "text" => ~ Is("text", content)
  <2>1. \A k, l \in DOMAIN content : k = l
    BY Zenon DEF FitContent, OneKind
  <2>2. "text" # "array" /\ "missing" # "array" /\ "null" # "array"
    OBVIOUS
  <2> QED BY <2>1, <2>2, Zenon DEF Is
<1>3. CASE ~ (Is("array", content) /\ parts # <<>>)
  <2>1. PartsOf(content) = <<Part("text", TextOf(content), Blank)>>
    BY <1>3, Zenon DEF PartsOf
  <2>2. blocks = <<TextBlock(TextOf(content))>>
    <3>1. CASE Is("text", content)
      <4>1. TextOf(content) = content.text
        BY <3>1, Zenon DEF TextOf
      <4> QED BY <1>1, <3>1, <4>1
    <3>2. CASE ~ Is("text", content)
      <4>1. TextOf(content) = <<>>
        BY <3>2, Zenon DEF TextOf
      <4> HIDE DEF shown, usable
      <4> QED BY <1>1, <1>3, <3>2, <4>1
    <3> QED BY <3>1, <3>2
  <2> QED BY <2>1, <2>2, TextIsPart
<1>4. CASE Is("array", content) /\ parts # <<>>
  <2>1. PartsOf(content) = parts
    BY <1>4, Zenon DEF PartsOf
  <2>2. blocks = shown /\ \A i \in DOMAIN parts : usable(parts[i])
    <3>1. ~ Is("text", content) /\ ~ Is("missing", content) /\ ~ Is("null", content)
      BY <1>2, <1>4
    <3> HIDE DEF shown, usable
    <3> QED BY <1>1, <1>4, <3>1
  <2>3. DOMAIN blocks = DOMAIN parts
    BY <2>2, Zenon
  <2>4. ASSUME NEW i \in DOMAIN parts
        PROVE  IF IsText(parts[i]) THEN blocks[i] = TextBlock(parts[i].text)
               ELSE /\ blocks[i].type = "image" /\ parts[i].type = "image_url"
                    /\ blocks[i].holds.bytes \in ShownBy(parts[i].reference, web, proxied, up)
                    /\ Len(blocks[i].holds.bytes) \in 1..imageMaxBytes
    <3>1. blocks[i] = block(parts[i])
      BY <2>2, Zenon
    <3>2. CASE IsText(parts[i])
      BY <3>1, <3>2, Zenon
    <3>3. CASE ~ IsText(parts[i])
      <4>1. parts[i].type = "image_url" /\ image(parts[i]) # Refused
        BY <2>2, <3>3, Zenon
      <4>2. blocks[i] = Block("image", image(parts[i]))
        BY <3>1, <3>3, Zenon
      <4>3. blocks[i].type = "image" /\ blocks[i].holds = image(parts[i])
        <5> HIDE DEF image
        <5> QED BY <4>2 DEF Block
      <4>4. RefersTo(parts[i].reference, U, B)
        BY <1>4, Zenon DEF FitContent
      <4> DEFINE reference == parts[i].reference
      <4>5. /\ image(parts[i]).bytes \in ShownBy(reference, web, proxied, up)
            /\ Len(image(parts[i]).bytes) \in 1..imageMaxBytes
        BY <4>1, <4>4, ReferenceIs, Zenon
      <4> HIDE DEF image
      <4> QED BY <3>3, <4>1, <4>3, <4>5, Zenon
    <3> QED BY <3>2, <3>3
  <2>5. BlocksAreParts(parts, blocks, web, proxied, up)
    BY <2>3, <2>4, Zenon DEF BlocksAreParts, ShownBy
  <2> QED BY <2>1, <2>5
<1> QED BY <1>3, <1>4

\* Of blocks that are a message's parts, the texts are kept for the system.
LEMMA SystemBlocksAre ==
  ASSUME NEW parts, NEW blocks, NEW web, NEW proxied, NEW up,
         BlocksAreParts(parts, blocks, web, proxied, up)
  PROVE  SystemBlocks(blocks) = TextsOf(parts)
<1> DEFINE left(i) == IF blocks[i].type = "text" /\ Trimmed(blocks[i].holds.text) # <<>>
                      THEN <<blocks[i]>> ELSE <<>>
           right(i) == IF IsText(parts[i]) /\ Trimmed(parts[i].text) # <<>>
                       THEN <<TextBlock(parts[i].text)>> ELSE <<>>
<1>1. DOMAIN blocks = DOMAIN parts
  BY Zenon DEF BlocksAreParts
<1>2. ASSUME NEW i \in DOMAIN parts
      PROVE  left(i) = right(i)
  <2>1. CASE IsText(parts[i])
    <3>1. blocks[i] = TextBlock(parts[i].text)
      BY <2>1, Zenon DEF BlocksAreParts
    <3>2. TextBlock(parts[i].text).type = "text" /\ TextBlock(parts[i].text).holds.text = parts[i].text
      BY DEF TextBlock, Block, Text
    <3> QED BY <2>1, <3>1, <3>2, Zenon
  <2>2. CASE ~ IsText(parts[i])
    <3>1. blocks[i].type = "image"
      BY <2>2, Zenon DEF BlocksAreParts
    <3>2. "image" # "text"
      OBVIOUS
    <3> QED BY <2>2, <3>1, <3>2, Zenon
  <2> QED BY <2>1, <2>2
<1> HIDE DEF left, right
<1>3. [i \in DOMAIN blocks |-> left(i)] = [i \in DOMAIN parts |-> right(i)]
  BY <1>1, <1>2
<1>4. Flat([i \in DOMAIN blocks |-> left(i)]) = Flat([i \in DOMAIN parts |-> right(i)])
  BY <1>3, Zenon
<1> QED BY <1>4, Zenon DEF SystemBlocks, TextsOf, left, right

\* images.go:37, anthropic.go:155: whatever a message holds, of a user's or an assistant's every
\* text and every image is sent as it is, at the place of its part, of a system's every text that
\* is not blank, and of a tool's the text that it is; or the request is refused.
THEOREM ImagesAreShown ==
  ASSUME NEW B, NEW U, NEW web, FitWeb(web, U, B), NEW proxied \in BOOLEAN, NEW up,
         NEW message, FitContent(message.content, U, B)
  PROVE  ContentIsKept(message, web, proxied, up)
<1> SUFFICES ASSUME NEW blocks \in ContentOf(message, web, proxied, up)
             PROVE  KeptAs(message, blocks, web, proxied, up)
  BY Zenon DEF ContentIsKept
<1> DEFINE content == message.content
           parts == PartsOf(content)
           role == message.role
<1>1. /\ "system" # "user" /\ "system" # "assistant" /\ "system" # "tool"
      /\ "user" # "assistant" /\ "user" # "tool" /\ "assistant" # "tool"
  OBVIOUS
<1> HIDE DEF content
<1>2. FitContent(content, U, B)
  BY DEF content
<1>3. CASE role = "system"
  <2>1. PICK found \in convertUserContent(content, web, proxied, up) : blocks = SystemBlocks(found)
    <3>1. blocks \in {SystemBlocks(found) : found \in convertUserContent(content, web, proxied, up)}
      BY <1>1, <1>3, Zenon DEF ContentOf, content
    <3> QED BY <3>1, Zenon
  <2>2. BlocksAreParts(parts, found, web, proxied, up)
    BY <1>2, UserContentIs
  <2>3. blocks = TextsOf(parts)
    BY <2>1, <2>2, SystemBlocksAre
  <2> QED BY <1>1, <1>3, <2>3, Zenon DEF KeptAs, content
<1>4. CASE role = "user"
  <2>1. blocks \in convertUserContent(content, web, proxied, up)
    BY <1>1, <1>4, Zenon DEF ContentOf, content
  <2>2. BlocksAreParts(parts, blocks, web, proxied, up)
    BY <1>2, <2>1, UserContentIs
  <2> QED BY <1>1, <1>4, <2>2, Zenon DEF KeptAs, content
<1>5. CASE role = "assistant"
  <2>1. blocks \in convertAssistantContent(content, web, up)
    BY <1>1, <1>5, Zenon DEF ContentOf, content
  <2>2. BlocksAreParts(parts, blocks, web, FALSE, up)
    <3>1. CASE Is("array", content)
      <4>1. blocks \in convertUserContent(content, web, FALSE, up)
        BY <2>1, <3>1, Zenon DEF convertAssistantContent
      <4> QED BY <1>2, <4>1, UserContentIs
    <3>2. CASE ~ Is("array", content)
      <4>1. blocks = <<TextBlock(TextOf(content))>>
        BY <2>1, <3>2, Zenon DEF convertAssistantContent
      <4>2. parts = <<Part("text", TextOf(content), Blank)>>
        BY <3>2, Zenon DEF PartsOf
      <4> QED BY <4>1, <4>2, TextIsPart
    <3> QED BY <3>1, <3>2
  <2> QED BY <1>1, <1>5, <2>2, Zenon DEF KeptAs, content
<1>6. CASE role = "tool"
  <2>1. blocks = <<convertToolResult(content)>>
    BY <1>1, <1>6, Zenon DEF ContentOf, content
  <2>2. Is("text", content) => convertToolResult(content) = Block("tool_result", content)
    BY Zenon DEF convertToolResult
  <2>3. Is("text", content) => blocks = <<Block("tool_result", content)>>
    BY <2>1, <2>2, Zenon
  <2> QED BY <1>1, <1>6, <2>3, Zenon DEF KeptAs, content
<1>7. CASE role \notin {"system", "user", "assistant", "tool"}
  <2>1. blocks \in {}
    BY <1>7, Zenon DEF ContentOf
  <2> QED BY <2>1, Zenon
<1> QED BY <1>3, <1>4, <1>5, <1>6, <1>7

\* So it is with all messages of a request.
LEMMA ContentsAre ==
  ASSUME NEW B, NEW U, NEW net, FitWeb(net.web, U, B), NEW proxied \in BOOLEAN,
         NEW messages, \A i \in DOMAIN messages : FitContent(messages[i].content, U, B),
         NEW contents \in Contents(messages, net.web, proxied, net.up)
  PROVE  MessagesAreKept(messages, contents, proxied, net)
<1> DEFINE content(i) == ContentOf(messages[i], net.web, proxied, net.up)
           chosen(i) == CHOOSE blocks \in content(i) : TRUE
<1>1. contents \in IF \E i \in DOMAIN messages : content(i) = {} THEN {}
                   ELSE {[i \in DOMAIN messages |-> chosen(i)]}
  BY Zenon DEF Contents
<1> HIDE DEF content
<1>2. /\ \A i \in DOMAIN messages : content(i) # {}
      /\ contents = [i \in DOMAIN messages |-> chosen(i)]
  BY <1>1, Zenon
<1>3. ASSUME NEW i \in DOMAIN messages
      PROVE  KeptAs(messages[i], contents[i], net.web, proxied, net.up)
  <2>1. \E blocks : blocks \in content(i)
    BY <1>2
  <2>2. chosen(i) \in content(i)
    BY <2>1, Zenon
  <2>3. contents[i] \in content(i)
    BY <1>2, <2>2, Zenon
  <2> DEFINE message == messages[i]
             web == net.web
             up == net.up
  <2>4. FitContent(message.content, U, B)
    OBVIOUS
  <2>5. contents[i] \in ContentOf(message, web, proxied, up)
    BY <2>3 DEF content
  <2> HIDE DEF message, web, up
  <2>6. ContentIsKept(message, web, proxied, up)
    BY <2>4, ImagesAreShown DEF web
  <2>7. KeptAs(message, contents[i], web, proxied, up)
    BY <2>5, <2>6, Zenon DEF ContentIsKept
  <2> QED BY <2>7 DEF message, web, up
<1>4. DOMAIN contents = DOMAIN messages
  BY <1>2, Zenon
<1> QED BY <1>3, <1>4, Zenon DEF MessagesAreKept

\* The addresses of the run.
LEMMA MovedIs ==
  ASSUME NEW next
  PROVE  Moved(next).redirect = next /\ Moved(next).bytes = <<>>
BY Zenon DEF Moved, Answer

LEMMA ChainIs ==
  /\ Chain[1] \in ToSet(Chain)
  /\ ~ parseFetchableImageURL(NoUrl) /\ ~ parseFetchableImageURL(Inside)
  /\ \A answer : \A url \in ToSet(Chain), n \in DOMAIN Chain :
       \/ Web(n, answer)[url] = answer
       \/ Web(n, answer)[url].redirect \in ToSet(Chain) /\ Web(n, answer)[url].bytes = <<>>
<1>1. DOMAIN Chain = 1..6 /\ 1 \in DOMAIN Chain
  BY DEF Chain
<1>2. Chain[1] \in ToSet(Chain)
  BY <1>1 DEF ToSet
<1>3. ~ parseFetchableImageURL(NoUrl)
  <2>1. NoUrl.scheme \notin {"http", "https"}
    BY Zenon DEF NoUrl
  <2> QED BY <2>1, Zenon DEF parseFetchableImageURL
<1>4. ~ parseFetchableImageURL(Inside)
  <2>1. Inside.host = "private"
    BY DEF Inside, Url
  <2>2. "private" \in Inward
    BY DEF Inward
  <2> QED BY <2>1, <2>2, Zenon DEF parseFetchableImageURL, blockedImageHost, blockedImageIP
<1>5. ASSUME NEW url \in ToSet(Chain), NEW n \in DOMAIN Chain, NEW answer
      PROVE  \/ Web(n, answer)[url] = answer
             \/ Web(n, answer)[url].redirect \in ToSet(Chain) /\ Web(n, answer)[url].bytes = <<>>
  <2> DEFINE i == CHOOSE j \in DOMAIN Chain : Chain[j] = url
  <2>1. i \in DOMAIN Chain
    BY DEF ToSet
  <2>2. Web(n, answer)[url] = IF i < n THEN Moved(Chain[i + 1]) ELSE answer
    BY Zenon DEF Web
  <2> HIDE DEF i
  <2>3. CASE i < n
    <3>1. i + 1 \in DOMAIN Chain
      BY <1>1, <2>1, <2>3
    <3>2. Chain[i + 1] \in ToSet(Chain)
      BY <3>1, Zenon DEF ToSet
    <3>3. Web(n, answer)[url].redirect \in ToSet(Chain) /\ Web(n, answer)[url].bytes = <<>>
      BY <2>2, <2>3, <3>2, MovedIs
    <3> QED BY <3>3
  <2>4. CASE ~ (i < n)
    BY <2>2, <2>4, Zenon
  <2> QED BY <2>3, <2>4
<1> QED BY <1>2, <1>3, <1>4, <1>5

LEMMA WebFits ==
  ASSUME NEW n \in DOMAIN Chain, NEW B, NEW answer, answer.bytes \in Seq(B),
         answer.redirect \in {NoUrl, Inside, Chain[1]}
  PROVE  \A u \in ToSet(Chain) :
           /\ Web(n, answer)[u].bytes \in Seq(B)
           /\ parseFetchableImageURL(Web(n, answer)[u].redirect) => Web(n, answer)[u].redirect \in ToSet(Chain)
<1> SUFFICES ASSUME NEW u \in ToSet(Chain)
             PROVE  /\ Web(n, answer)[u].bytes \in Seq(B)
                    /\ parseFetchableImageURL(Web(n, answer)[u].redirect)
                         => Web(n, answer)[u].redirect \in ToSet(Chain)
  OBVIOUS
<1> DEFINE at == Web(n, answer)[u]
<1>1. \/ at = answer
      \/ at.redirect \in ToSet(Chain) /\ at.bytes = <<>>
  BY ChainIs, Zenon
<1> HIDE DEF at
<1>2. CASE at = answer
  <2>1. \/ answer.redirect = Chain[1] \/ ~ parseFetchableImageURL(answer.redirect)
    BY ChainIs
  <2>2. Chain[1] \in ToSet(Chain)
    BY ChainIs
  <2> QED BY <1>2, <2>1, <2>2, Zenon DEF at
<1>3. <<>> \in Seq(B)
  OBVIOUS
<1> QED BY <1>1, <1>2, <1>3, Zenon DEF at

\* What the run's references refer to, and what its pages hold.
LettersShown == {"a", "b", "c", "d", "e", "f", "g"}

LEMMA ReferencesFit ==
  /\ \A bytes \in Attached : bytes \in Seq(LettersShown)
  /\ \A reference \in References : RefersTo(reference, ToSet(Chain), LettersShown)
  /\ RefersTo(Blank, ToSet(Chain), LettersShown)
<1> DEFINE U == ToSet(Chain)
           B == LettersShown
<1>1. Attached \subseteq Seq(B) /\ {<<"d">>, <<>>, <<"e">>, <<"e", "f", "g">>} \subseteq Seq(B)
  BY DEF Attached, LettersShown
<1> HIDE DEF B
<1>2. RefersTo(Blank, U, B)
  BY Zenon DEF RefersTo, Blank
<1>3. RefersTo(Remote(Chain[1]), U, B)
  <2>1. Remote(Chain[1]).form = "remote" /\ Remote(Chain[1]).url = Chain[1]
    BY DEF Remote
  <2> QED BY <2>1, ChainIs DEF RefersTo
<1>4. RefersTo(Remote(Inside), U, B)
  <2>1. Remote(Inside).form = "remote" /\ Remote(Inside).url = Inside
    BY DEF Remote
  <2> QED BY <2>1, ChainIs, Zenon DEF RefersTo
<1>5. ASSUME NEW mime, NEW encoded, NEW letters \in Seq(B)
      PROVE  RefersTo(DataUrl(TRUE, encoded, mime, letters), U, B)
  BY DEF DataUrl, RefersTo
<1>6. <<"d">> \in Seq(B) /\ <<>> \in Seq(B) /\ <<"e">> \in Seq(B) /\ <<"e", "f", "g">> \in Seq(B)
  BY <1>1
<1>7. /\ RefersTo(DataUrl(TRUE, TRUE, "", <<"d">>), U, B)
      /\ RefersTo(DataUrl(TRUE, TRUE, "image/gif", <<>>), U, B)
      /\ RefersTo(DataUrl(TRUE, FALSE, "", <<"e">>), U, B)
      /\ RefersTo(DataUrl(TRUE, TRUE, "", <<"e", "f", "g">>), U, B)
  BY <1>5, <1>6, Zenon
<1>8. \A reference \in References : RefersTo(reference, U, B)
  BY <1>2, <1>3, <1>4, <1>7, Zenon DEF References
<1> QED BY <1>1, <1>2, <1>8 DEF B

\* What the run's messages hold.
LEMMA PartIs ==
  ASSUME NEW type, NEW text, NEW reference
  PROVE  Part(type, text, reference).reference = reference
BY DEF Part

LEMMA ListFits ==
  ASSUME NEW U, NEW B, NEW parts, \A i \in DOMAIN parts : RefersTo(parts[i].reference, U, B)
  PROVE  FitContent(List(parts), U, B)
<1>1. OneKind(List(parts)) /\ List(parts).array = parts
  BY DEF OneKind, List
<1> QED BY <1>1, Zenon DEF FitContent

LEMMA PlainlyFits ==
  ASSUME NEW U, NEW B
  PROVE  /\ FitContent(Missing, U, B) /\ FitContent(Null, U, B)
         /\ \A x : FitContent(Number(x), U, B) /\ FitContent(Text(x), U, B)
<1>1. /\ OneKind(Missing) /\ OneKind(Null) /\ \A x : OneKind(Number(x)) /\ OneKind(Text(x))
      /\ ~ Is("array", Missing) /\ ~ Is("array", Null)
      /\ \A x : ~ Is("array", Number(x)) /\ ~ Is("array", Text(x))
  BY DEF OneKind, Is, Missing, Null, Number, Text
<1> QED BY <1>1, Zenon DEF FitContent

LEMMA RunContentsFit ==
  \A content \in Plainly \cup {Showing(shown) : shown \in [1..2 -> References]} :
    FitContent(content, ToSet(Chain), LettersShown)
<1> DEFINE U == ToSet(Chain)
           B == LettersShown
           Fit(content) == FitContent(content, U, B)
           none == Part("", <<" ">>, Blank)
           some == Part("text", <<" ", "t">>, Blank)
           some2 == Part("text", <<"t">>, Blank)
           more(type) == Part(type, <<"u">>, Blank)
           show(reference) == Part("image_url", <<>>, reference)
           texts == {Text(<<>>), Text(<<" ">>), Text(<<"t">>)}
           threes == {List(<<none, some, more(type)>>) : type \in {"", "text", "audio"}}
<1>1. RefersTo(Blank, U, B) /\ \A reference \in References : RefersTo(reference, U, B)
  BY ReferencesFit
<1>2. /\ none.reference = Blank /\ some.reference = Blank /\ some2.reference = Blank
      /\ \A type : more(type).reference = Blank
      /\ \A reference : show(reference).reference = reference
  BY PartIs, Zenon
<1>3. Plainly = {Missing, Null, Number(2), List(<<>>)} \cup texts \cup threes
  <2> DEFINE one == Text(<<" ">>)
             s3 == {Missing, Null, Number(2), Text(<<>>), one, Text(<<"t">>), List(<<>>)}
  <2>1. Plainly = s3 \cup threes
    BY Zenon DEF Plainly
  <2>2. s3 = {Missing, Null, Number(2), List(<<>>)} \cup texts
    <3> HIDE DEF one
    <3> QED BY Zenon DEF one
  <2> QED BY <2>1, <2>2, Zenon
<1> HIDE DEF U, B, none, some, some2, more, show
<1>4. Fit(Missing) /\ Fit(Null) /\ Fit(Number(2)) /\ \A content \in texts : Fit(content)
  BY PlainlyFits, Zenon
<1>5. Fit(List(<<>>))
  <2>1. DOMAIN <<>> = {}
    OBVIOUS
  <2> QED BY <2>1, ListFits
<1>6. ASSUME NEW a, NEW b, NEW c,
             RefersTo(a.reference, U, B), RefersTo(b.reference, U, B), RefersTo(c.reference, U, B)
      PROVE  Fit(List(<<a, b, c>>))
  <2> DEFINE parts == <<a, b, c>>
  <2>1. DOMAIN parts = 1..3 /\ parts[1] = a /\ parts[2] = b /\ parts[3] = c
    OBVIOUS
  <2> HIDE DEF parts
  <2>2. \A i \in DOMAIN parts : i = 1 \/ i = 2 \/ i = 3
    BY <2>1
  <2>3. \A i \in DOMAIN parts : RefersTo(parts[i].reference, U, B)
    BY <1>6, <2>1, <2>2, Zenon
  <2>4. Fit(List(parts))
    BY <2>3, ListFits
  <2> QED BY <2>4 DEF parts
<1>7. \A type : Fit(List(<<none, some, more(type)>>))
  BY <1>1, <1>2, <1>6, Zenon
<1>8. ASSUME NEW shown \in [1..2 -> References]
      PROVE  Fit(Showing(shown))
  <2>1. shown[1] \in References /\ shown[2] \in References
    OBVIOUS
  <2>2. Fit(List(<<show(shown[1]), some2, show(shown[2])>>))
    BY <1>1, <1>2, <1>6, <2>1, Zenon
  <2> QED BY <2>2, Zenon DEF Showing, show, some2
<1>9. \A content \in Plainly : Fit(content)
  <2>1. \A content \in threes : Fit(content)
    BY <1>7, Zenon
  <2> HIDE DEF texts, threes, Fit
  <2> QED BY <1>3, <1>4, <1>5, <2>1
<1> QED BY <1>8, <1>9, Zenon DEF U, B

LEMMA SiteFits ==
  ASSUME NEW bytes \in Seq(LettersShown), NEW n \in DOMAIN Chain
  PROVE  FitWeb(Web(n, Answer(NoUrl, 200, "image/gif", bytes, FALSE)), ToSet(Chain), LettersShown)
<1> DEFINE answer == Answer(NoUrl, 200, "image/gif", bytes, FALSE)
<1>1. answer.bytes \in Seq(LettersShown) /\ answer.redirect \in {NoUrl, Inside, Chain[1]}
  BY DEF Answer
<1> HIDE DEF answer
<1>2. FitWeb(Web(n, answer), ToSet(Chain), LettersShown)
  BY <1>1, WebFits, Zenon DEF FitWeb
<1> QED BY <1>2 DEF answer

\* The images of the run go whole.
LEMMA RunImages == ImagesGoWhole
<1> DEFINE U == ToSet(Chain)
           B == LettersShown
<1>1. <<>> \in Seq(B) /\ \A bytes \in Attached : bytes \in Seq(B)
  BY ReferencesFit
<1>2. ASSUME NEW n \in DOMAIN Chain, NEW answer \in Finals, NEW proxied \in BOOLEAN, NEW up
      PROVE  FetchedFromEnd(Chain[1], Web(n, answer), proxied, up)
  <2>1. answer.bytes \in Seq(B) /\ answer.redirect \in {NoUrl, Inside, Chain[1]}
    <3> DEFINE mimes == {"", "text/html", "image/gif", "image/tiff"}
               S1 == [redirect : {NoUrl}, status : {200, 404}, mime : mimes, bytes : Attached,
                      breaks : BOOLEAN]
               S2 == {Moved(next) : next \in {Inside, Chain[1]}}
    <3>1. Finals = S1 \cup S2
      BY Zenon DEF Finals
    <3> HIDE DEF B, mimes
    <3>2. CASE answer \in S1
      BY <1>1, <3>2
    <3>3. CASE answer \in S2
      BY <1>1, <3>3, MovedIs
    <3> HIDE DEF S1, S2
    <3> QED BY <3>1, <3>2, <3>3
  <2> HIDE DEF B
  <2>2. \A u \in U :
          /\ Web(n, answer)[u].bytes \in Seq(B)
          /\ parseFetchableImageURL(Web(n, answer)[u].redirect) => Web(n, answer)[u].redirect \in U
    BY <2>1, WebFits
  <2>3. Chain[1] \in U
    BY ChainIs
  <2> HIDE DEF U
  <2> QED BY <2>2, <2>3, ImagesAreFound
<1>3. ASSUME NEW role \in Roles,
             NEW content \in Plainly \cup {Showing(shown) : shown \in [1..2 -> References]},
             NEW bytes \in Attached, NEW proxied \in BOOLEAN
      PROVE  ContentIsKept(Message(role, content), Site(bytes), proxied, {"public"})
  <2> DEFINE message == Message(role, content)
             site == Site(bytes)
             up == {"public"}
  <2>1. message.content = content
    BY DEF Message
  <2>2. FitContent(message.content, U, B)
    BY <2>1, RunContentsFit, Zenon
  <2>3. FitWeb(site, U, B)
    <3>1. 1 \in DOMAIN Chain
      BY DEF Chain
    <3>2. bytes \in Seq(LettersShown)
      BY <1>1
    <3> QED BY <3>1, <3>2, SiteFits, Zenon DEF Site
  <2> HIDE DEF message, site, up, U, B
  <2>4. ContentIsKept(message, site, proxied, up)
    BY <2>2, <2>3, ImagesAreShown
  <2> QED BY <2>4 DEF message, site, up
<1> QED BY <1>2, <1>3, Zenon DEF ImagesGoWhole

-----------------------------------------------------------------------------
(* Paths *)

\* What is cut off at a path's end are slashes, and all that are there.
LEMMA NoSlashIs ==
  ASSUME NEW T, NEW path \in Seq(T)
  PROVE  \E n \in 0..Len(path) :
           /\ NoSlashAtEnd(path) = SubSeq(path, 1, n)
           /\ n # 0 => path[n] # NoText
           /\ \A i \in DOMAIN path : path[i] # NoText => i <= n
<1> DEFINE S == {0} \cup {i \in DOMAIN path : path[i] # NoText}
<1>1. Len(path) \in Nat /\ DOMAIN path = 1..Len(path)
  OBVIOUS
<1>2. S \in SUBSET (0..Len(path)) /\ S # {}
  BY <1>1
<1>3. Max(S) \in S /\ \A i \in S : i <= Max(S)
  <2> HIDE DEF S
  <2> QED BY <1>1, <1>2, Greatest
<1>4. NoSlashAtEnd(path) = SubSeq(path, 1, Max(S))
  BY Zenon DEF NoSlashAtEnd
<1>5. Max(S) \in 0..Len(path)
  BY <1>2, <1>3
<1>6. Max(S) # 0 => path[Max(S)] # NoText
  BY <1>3
<1>7. \A i \in DOMAIN path : path[i] # NoText => i \in S
  BY Zenon
<1> QED BY <1>3, <1>4, <1>5, <1>6, <1>7

Slashes(n) == [i \in 1..n |-> NoText]

LEMMA NoSlashOf ==
  ASSUME NEW T, NEW path \in Seq(T), NEW n \in Nat, NoText \in T,
         path = <<>> \/ path[Len(path)] # NoText
  PROVE  NoSlashAtEnd(path \o Slashes(n)) = path
<1> DEFINE longer == path \o Slashes(n)
<1>1. Slashes(n) \in Seq(T) /\ Len(Slashes(n)) = n
  BY DEF Slashes
<1>2. /\ longer \in Seq(T) /\ Len(longer) = Len(path) + n /\ Len(path) \in Nat
      /\ \A i \in 1..Len(path) : longer[i] = path[i]
      /\ \A i \in 1..n : longer[Len(path) + i] = NoText
  BY <1>1, ConcatProperties DEF Slashes
<1> HIDE DEF longer
<1>3. PICK k \in 0..Len(longer) :
        /\ NoSlashAtEnd(longer) = SubSeq(longer, 1, k)
        /\ k # 0 => longer[k] # NoText
        /\ \A i \in DOMAIN longer : longer[i] # NoText => i <= k
  BY <1>2, NoSlashIs
<1>4. k <= Len(path)
  <2> SUFFICES ASSUME k > Len(path)
               PROVE  FALSE
    BY <1>2
  <2>1. k - Len(path) \in 1..n
    BY <1>2
  <2>2. longer[Len(path) + (k - Len(path))] = NoText
    BY <1>2, <2>1
  <2> QED BY <1>2, <1>3, <2>2
<1>5. k >= Len(path)
  <2>1. CASE path = <<>>
    BY <2>1
  <2>2. CASE path # <<>>
    <3>1. Len(path) \in 1..Len(path) /\ Len(path) \in 1..Len(longer) /\ DOMAIN longer = 1..Len(longer)
      BY <1>2, <2>2
    <3>2. longer[Len(path)] # NoText
      BY <1>2, <2>2, <3>1
    <3> QED BY <1>3, <3>1, <3>2
  <2> QED BY <2>1, <2>2
<1>6. k = Len(path)
  BY <1>2, <1>4, <1>5
<1>7. /\ SubSeq(longer, 1, k) \in Seq(T) /\ Len(SubSeq(longer, 1, k)) = k
      /\ \A i \in 1..k : SubSeq(longer, 1, k)[i] = longer[i]
  BY <1>2, <1>6
<1>8. SubSeq(longer, 1, k) = path
  BY <1>2, <1>6, <1>7, SeqEqual
<1> QED BY <1>3, <1>8 DEF longer

\* A path without slashes at its end is one.
LEMMA NoSlashAgain ==
  ASSUME NEW T, NEW path \in Seq(T), NoText \in T
  PROVE  /\ NoSlashAtEnd(path) \in Seq(T) /\ ToSet(NoSlashAtEnd(path)) \subseteq ToSet(path)
         /\ NoSlashAtEnd(path) = <<>> \/ NoSlashAtEnd(path)[Len(NoSlashAtEnd(path))] # NoText
         /\ NoSlashAtEnd(NoSlashAtEnd(path)) = NoSlashAtEnd(path)
<1> DEFINE cut == NoSlashAtEnd(path)
<1>1. PICK n \in 0..Len(path) : cut = SubSeq(path, 1, n) /\ (n # 0 => path[n] # NoText)
  BY NoSlashIs
<1>2. /\ cut \in Seq(T) /\ Len(cut) = n
      /\ \A i \in 1..n : cut[i] = path[i]
  BY <1>1
<1> HIDE DEF cut
<1>3. cut = <<>> \/ cut[Len(cut)] # NoText
  BY <1>1, <1>2
<1>4. ToSet(cut) \subseteq ToSet(path)
  BY <1>2 DEF ToSet
<1>5. NoSlashAtEnd(cut \o Slashes(0)) = cut
  BY <1>2, <1>3, NoSlashOf
<1>6. cut \o Slashes(0) = cut
  <2>1. Slashes(0) = <<>>
    BY DEF Slashes
  <2> QED BY <1>2, <2>1
<1> QED BY <1>2, <1>3, <1>4, <1>5, <1>6 DEF cut

-----------------------------------------------------------------------------
(* Endpoints *)

\* A host that is not called as the prefix begins is no part of it.
LEMMA HostIsNoPrefix ==
  ASSUME NEW T, NEW path \in Seq(T), NEW host \in T, providerPathPrefix \in Seq(T),
         host # providerPathPrefix[1]
  PROVE  IsSuffix(providerPathPrefix, <<host>> \o path) <=> IsSuffix(providerPathPrefix, path)
<1> DEFINE whole == <<host>> \o path
           prefix == providerPathPrefix
<1>1. Len(prefix) = 2
  BY DEF providerPathPrefix
<1>2. /\ whole \in Seq(T) /\ Len(whole) = Len(path) + 1 /\ Len(path) \in Nat
      /\ whole[1] = host /\ \A i \in 1..Len(path) : whole[1 + i] = path[i]
  <2>1. <<host>> \in Seq(T) /\ Len(<<host>>) = 1 /\ <<host>>[1] = host
    OBVIOUS
  <2> QED BY <2>1, ConcatProperties
<1>3. 1..2 = {1, 2}
  OBVIOUS
<1> HIDE DEF whole, prefix
<1>4. IsSuffix(prefix, path)
        <=> 2 <= Len(path) /\ \A i \in 1..2 : prefix[i] = path[(Len(path) - 2) + i]
  <2>1. IsSuffix(prefix, path)
          <=> /\ Len(prefix) <= Len(path)
              /\ \A i \in 1..Len(prefix) : prefix[i] = path[(Len(path) - Len(prefix)) + i]
    BY SuffixByMembers, Zenon DEF prefix
  <2> QED BY <1>1, <2>1
<1>5. IsSuffix(prefix, whole)
        <=> 2 <= Len(whole) /\ \A i \in 1..2 : prefix[i] = whole[(Len(whole) - 2) + i]
  <2>1. IsSuffix(prefix, whole)
          <=> /\ Len(prefix) <= Len(whole)
              /\ \A i \in 1..Len(prefix) : prefix[i] = whole[(Len(whole) - Len(prefix)) + i]
    BY <1>2, SuffixByMembers, Zenon DEF prefix
  <2> QED BY <1>1, <2>1
<1>6. CASE Len(path) >= 2
  <2>1. ASSUME NEW i \in 1..2
        PROVE  whole[(Len(whole) - 2) + i] = path[(Len(path) - 2) + i]
    <3>1. (Len(path) - 2) + i \in 1..Len(path)
      BY <1>2, <1>6
    <3>2. 1 + ((Len(path) - 2) + i) = (Len(whole) - 2) + i
      BY <1>2
    <3> QED BY <1>2, <3>1, <3>2
  <2> QED BY <1>2, <1>4, <1>5, <1>6, <2>1 DEF whole, prefix
<1>7. CASE Len(path) < 2
  <2>1. ~ IsSuffix(prefix, path)
    BY <1>2, <1>4, <1>7
  <2>2. ASSUME IsSuffix(prefix, whole)
        PROVE  FALSE
    <3>1. Len(whole) = 2
      BY <1>2, <1>5, <1>7, <2>2
    <3>2. prefix[1] = whole[(2 - 2) + 1]
      BY <1>5, <2>2, <3>1
    <3> QED BY <1>2, <3>2 DEF prefix
  <2> QED BY <2>1, <2>2 DEF whole, prefix
<1> QED BY <1>2, <1>6, <1>7

\* A base that is usable, when it is normalized.
MayBeUsed(scheme, user, host) == scheme \in {"http", "https"} /\ host # NoText /\ ~ user

LEMMA NormalizedIs ==
  ASSUME NEW scheme, NEW user, NEW host, NEW path, NEW query
  PROVE  normalizeAPIBase(Base(scheme, user, host, path, query))
           = IF Base(scheme, user, host, path, query) = NoBase THEN {defaultAPIBase}
             ELSE IF MayBeUsed(scheme, user, host)
             THEN {Base(scheme, FALSE, host, NoSlashAtEnd(path), FALSE)} ELSE {}
<1> DEFINE base == Base(scheme, user, host, path, query)
<1>1. base.scheme = scheme /\ base.user = user /\ base.host = host /\ base.path = path
  BY DEF Base
<1> HIDE DEF base
<1>2. CASE MayBeUsed(scheme, user, host)
  BY <1>1, <1>2, Zenon DEF normalizeAPIBase, base, MayBeUsed
<1>3. CASE ~ MayBeUsed(scheme, user, host)
  BY <1>1, <1>3, Zenon DEF normalizeAPIBase, base, MayBeUsed
<1> QED BY <1>2, <1>3, Zenon DEF base

\* A base that may be used, or that has a path, is written.
LEMMA WrittenIs ==
  ASSUME NEW scheme, NEW user, NEW host, NEW path, NEW query,
         MayBeUsed(scheme, user, host) \/ path # <<>>
  PROVE  Base(scheme, user, host, path, query) # NoBase
<1> DEFINE base == Base(scheme, user, host, path, query)
<1>1. base.scheme = scheme /\ base.path = path
  BY DEF Base
<1>2. NoBase.scheme = NoText /\ NoBase.path = <<>>
  <2>1. NoBase = [scheme |-> NoText, user |-> FALSE, host |-> NoText, path |-> <<>>, query |-> FALSE]
    BY Zenon DEF NoBase, Base
  <2> QED BY <2>1
<1>3. "http" # NoText /\ "https" # NoText
  BY Zenon DEF NoText
<1> HIDE DEF base
<1>4. CASE MayBeUsed(scheme, user, host)
  <2>1. scheme # NoText
    BY <1>3, <1>4, Zenon DEF MayBeUsed
  <2>2. base # NoBase
    BY <1>1, <1>2, <2>1
  <2> QED BY <2>2 DEF base
<1>5. CASE path # <<>>
  <2>1. base # NoBase
    BY <1>1, <1>2, <1>5
  <2> QED BY <2>1 DEF base
<1> QED BY <1>4, <1>5

LEMMA DefaultIs ==
  /\ normalizeAPIBase(NoBase) = {defaultAPIBase}
  /\ normalizeAPIBase(defaultAPIBase) = {defaultAPIBase}
  /\ defaultAPIBase.path = <<>>
<1> DEFINE host == "api"
<1>1. defaultAPIBase = Base("https", FALSE, host, <<>>, FALSE) /\ defaultAPIBase.path = <<>>
  BY DEF defaultAPIBase, Base
<1>2. normalizeAPIBase(NoBase) = {defaultAPIBase}
  BY Zenon DEF normalizeAPIBase
<1>3. MayBeUsed("https", FALSE, host)
  BY Zenon DEF MayBeUsed, NoText
<1>4. NoSlashAtEnd(<<>>) = <<>>
  <2> DEFINE T == {NoText}
             none == <<>>
             cut == NoSlashAtEnd(none)
  <2>1. none \in Seq(T) /\ NoText \in T
    OBVIOUS
  <2> HIDE DEF T, none
  <2>2. cut \in Seq(T) /\ ToSet(cut) \subseteq ToSet(none)
    BY <2>1, NoSlashAgain
  <2> HIDE DEF cut
  <2>3. ToSet(none) = {}
    BY DEF none, ToSet
  <2>4. DOMAIN cut = {}
    BY <2>2, <2>3 DEF ToSet
  <2>5. cut = <<>>
    BY <2>2, <2>4
  <2> QED BY <2>5 DEF cut, none
<1> HIDE DEF host
<1>5. Base("https", FALSE, host, <<>>, FALSE) # NoBase
  BY <1>3, WrittenIs
<1>6. normalizeAPIBase(Base("https", FALSE, host, <<>>, FALSE))
        = {Base("https", FALSE, host, NoSlashAtEnd(<<>>), FALSE)}
  BY <1>3, <1>5, NormalizedIs
<1> QED BY <1>1, <1>2, <1>4, <1>6

\* The endpoint on a base that is normalized to another.
LEMMA EndpointIs ==
  ASSUME NEW base, NEW b, NEW suffix, normalizeAPIBase(base) = {b}
  PROVE  providerEndpoint(base, suffix)
           = {IF IsSuffix(providerPathPrefix, <<b.host>> \o b.path)
              THEN Endpoint(b, b.path \o suffix)
              ELSE Endpoint(b, Without(b.path, {NoText}) \o providerPathPrefix \o suffix)}
BY Zenon DEF providerEndpoint

LEMMA WrittenEndsRight ==
  ASSUME NEW T, NoText \in T, providerPathPrefix \in Seq(T), NEW suffix \in Seq(T),
         NEW scheme, NEW user \in BOOLEAN, NEW host \in T \ {providerPathPrefix[1]},
         NEW written \in Seq(T), NEW query \in BOOLEAN,
         Base(scheme, user, host, written, query) # NoBase
  PROVE  EndpointHasPrefix(Base(scheme, user, host, written, query), suffix)
<1> DEFINE base == Base(scheme, user, host, written, query)
           cut == NoSlashAtEnd(written)
           full == cut \o providerPathPrefix
           with == Base(scheme, user, host, full \o <<NoText>>, query)
           usable == MayBeUsed(scheme, user, host)
<1>1. cut \in Seq(T) /\ NoSlashAtEnd(cut) = cut
  BY NoSlashAgain
<1>2. /\ base.scheme = scheme /\ base.user = user /\ base.host = host /\ base.path = written
      /\ base.query = query
  BY DEF Base
<1>3. full \in Seq(T) /\ IsSuffix(providerPathPrefix, full)
  BY <1>1, SuffixOfJoined
<1>4. NoSlashAtEnd(full \o <<NoText>>) = full
  <2>1. Len(providerPathPrefix) = 2
    BY DEF providerPathPrefix
  <2>2. full[Len(full)] = providerPathPrefix[2]
    <3>1. /\ Len(full) = Len(cut) + 2 /\ Len(cut) \in Nat
          /\ \A i \in 1..2 : full[Len(cut) + i] = providerPathPrefix[i]
      <4> HIDE DEF cut
      <4> DEFINE prefix == providerPathPrefix
      <4> HIDE DEF prefix
      <4>1. /\ Len(cut \o prefix) = Len(cut) + 2 /\ Len(cut) \in Nat
            /\ \A i \in 1..2 : (cut \o prefix)[Len(cut) + i] = prefix[i]
        <5>1. prefix \in Seq(T) /\ Len(prefix) = 2
          BY <2>1 DEF prefix
        <5>2. /\ Len(cut \o prefix) = Len(cut) + Len(prefix) /\ Len(cut) \in Nat
              /\ \A i \in 1..Len(prefix) : (cut \o prefix)[Len(cut) + i] = prefix[i]
          <6>1. cut \in Seq(T) /\ prefix \in Seq(T)
            BY <1>1, <5>1
          <6> QED BY ONLY <6>1, JoinedEnds
        <5> QED BY <5>1, <5>2
      <4> QED BY <4>1 DEF prefix
    <3> HIDE DEF full, cut
    <3> QED BY <3>1
  <2>3. providerPathPrefix[2] # NoText
    <3>1. providerPathPrefix[2] = "v1"
      BY DEF providerPathPrefix
    <3>2. "v1" # NoText
      BY Zenon DEF NoText
    <3> QED BY <3>1, <3>2
  <2>4. Slashes(1) = <<NoText>>
    BY DEF Slashes
  <2>5. NoSlashAtEnd(full \o Slashes(1)) = full
    <3> HIDE DEF full
    <3> QED BY <1>3, <2>2, <2>3, NoSlashOf
  <2> QED BY <2>4, <2>5
<1> HIDE DEF cut, full
<1>5. CASE ~ usable
  <2>1. normalizeAPIBase(base) = {} /\ normalizeAPIBase(with) = {}
    <3>1. full \o <<NoText>> # <<>>
      BY <1>3
    <3>2. with # NoBase
      BY <3>1, WrittenIs
    <3> QED BY <1>5, <3>2, NormalizedIs
  <2>2. providerEndpoint(base, suffix) = {} /\ providerEndpoint(with, suffix) = {}
    BY <2>1, Zenon DEF providerEndpoint
  <2> HIDE DEF base
  <2> QED BY <1>2, <2>1, <2>2 DEF EndpointHasPrefix, base, cut, full
<1>6. CASE usable
  <2> DEFINE n == Base(scheme, FALSE, host, cut, FALSE)
             m == Base(scheme, FALSE, host, full, FALSE)
  <2>1. normalizeAPIBase(base) = {n}
    BY <1>6, NormalizedIs DEF cut
  <2>2. normalizeAPIBase(n) = {n}
    <3>1. MayBeUsed(scheme, FALSE, host)
      BY <1>6 DEF MayBeUsed
    <3>2. n # NoBase
      BY <3>1, WrittenIs
    <3> QED BY <1>1, <3>1, <3>2, NormalizedIs
  <2>3. normalizeAPIBase(with) = {m}
    <3>1. with # NoBase
      BY <1>6, WrittenIs
    <3> QED BY <1>4, <1>6, <3>1, NormalizedIs
  <2> DEFINE At1(p) == [scheme |-> scheme, host |-> host, path |-> p]
             ends == IsSuffix(providerPathPrefix, cut)
  <2>4. providerEndpoint(base, suffix)
          = {At1(IF ends THEN cut \o suffix
                 ELSE Without(cut, {NoText}) \o providerPathPrefix \o suffix)}
    <3>1. ends <=> IsSuffix(providerPathPrefix, <<host>> \o cut)
      BY <1>1, HostIsNoPrefix
    <3> HIDE DEF base
    <3>2. providerEndpoint(base, suffix)
            = {IF ends THEN At1(cut \o suffix)
               ELSE At1(Without(cut, {NoText}) \o providerPathPrefix \o suffix)}
      <4>1. n.host = host /\ n.path = cut /\ \A p : Endpoint(n, p) = At1(p)
        BY DEF Base, Endpoint
      <4> HIDE DEF base, n, At1
      <4>2. providerEndpoint(base, suffix)
              = {IF IsSuffix(providerPathPrefix, <<n.host>> \o n.path)
                 THEN Endpoint(n, n.path \o suffix)
                 ELSE Endpoint(n, Without(n.path, {NoText}) \o providerPathPrefix \o suffix)}
        BY <2>1, EndpointIs, Zenon
      <4> QED BY <3>1, <4>1, <4>2
    <3> QED BY <3>2
  <2>5. providerEndpoint(with, suffix) = {At1(full \o suffix)}
    <3>1. IsSuffix(providerPathPrefix, <<host>> \o full)
      BY <1>3, HostIsNoPrefix
    <3> HIDE DEF with
    <3>2. m.host = host /\ m.path = full /\ \A p : Endpoint(m, p) = At1(p)
      BY DEF Base, Endpoint
    <3> HIDE DEF with, m, At1
    <3>3. providerEndpoint(with, suffix)
            = {IF IsSuffix(providerPathPrefix, <<m.host>> \o m.path)
               THEN Endpoint(m, m.path \o suffix)
               ELSE Endpoint(m, Without(m.path, {NoText}) \o providerPathPrefix \o suffix)}
      BY <2>3, EndpointIs, Zenon
    <3> QED BY <3>1, <3>2, <3>3
  <2>6. ASSUME NEW e \in providerEndpoint(base, suffix)
        PROVE  IsSuffix(providerPathPrefix \o suffix, e.path)
    <3>1. CASE ends
      <4>1. PICK front \in Seq(T) : cut = front \o providerPathPrefix
        BY <1>1, <3>1, SuffixSplits
      <4>2. e.path = front \o providerPathPrefix \o suffix
        BY <2>4, <2>6, <3>1, <4>1
      <4> QED BY <4>2, SuffixOfThree
    <3>2. CASE ~ ends
      <4> DEFINE rest == Without(cut, {NoText})
      <4>1. rest \in Seq(T)
        BY <1>1, WithoutKeeps
      <4>2. e = At1(rest \o providerPathPrefix \o suffix)
        <5>1. e = At1(Without(cut, {NoText}) \o providerPathPrefix \o suffix)
          BY <2>4, <2>6, <3>2
        <5> QED BY <5>1, Zenon
      <4> HIDE DEF rest
      <4>3. e.path = rest \o providerPathPrefix \o suffix
        BY <4>2
      <4> QED BY <4>1, <4>3, SuffixOfThree
    <3> QED BY <3>1, <3>2
  <2>7. ASSUME NoText \notin ToSet(cut), ~ ends
        PROVE  providerEndpoint(base, suffix) = providerEndpoint(with, suffix)
    <3>1. Without(cut, {NoText}) = cut
      BY <1>1, <2>7, WithoutNone
    <3> QED BY <2>4, <2>5, <2>7, <3>1 DEF full
  <2> HIDE DEF base, n, m
  <2>8. \A k \in normalizeAPIBase(base) : normalizeAPIBase(k) = {k}
    BY <2>1, <2>2
  <2>9. /\ EndpointHasPrefix(base, suffix)
           <=> /\ \A k \in normalizeAPIBase(base) : normalizeAPIBase(k) = {k}
               /\ \A e \in providerEndpoint(base, suffix) :
                    IsSuffix(providerPathPrefix \o suffix, e.path)
               /\ base # NoBase /\ NoText \notin ToSet(cut) /\ ~ ends
                    => providerEndpoint(base, suffix) = providerEndpoint(with, suffix)
    BY <1>2, Zenon DEF EndpointHasPrefix, cut, full
  <2> QED BY <2>6, <2>7, <2>8, <2>9 DEF base
<1> QED BY <1>5, <1>6

\* upstream.go:21: on whatever base that may be used, and on the plugin's own where none is
\* written, an endpoint ends in the prefix and the route, once, and is the same whether the base
\* was written with the prefix or without; but for a host that is called as the prefix begins
\* (EndpointKeepsHost).
THEOREM EndpointsAreRight ==
  ASSUME NEW T, NoText \in T, providerPathPrefix \in Seq(T), NEW suffix \in Seq(T),
         defaultAPIBase.host \in T \ {providerPathPrefix[1]},
         NEW scheme, NEW user \in BOOLEAN, NEW host \in T \ {providerPathPrefix[1]},
         NEW written \in Seq(T), NEW query \in BOOLEAN
  PROVE  EndpointHasPrefix(Base(scheme, user, host, written, query), suffix)
<1> DEFINE base == Base(scheme, user, host, written, query)
<1>1. CASE base # NoBase
  BY <1>1, WrittenEndsRight
<1>2. CASE base = NoBase
  <2> DEFINE default == defaultAPIBase
  <2>1. default = Base(default.scheme, default.user, default.host, default.path, default.query)
        /\ default.user = FALSE /\ default.query = FALSE /\ default.path = <<>>
    BY DEF defaultAPIBase, Base
  <2>2. <<>> \in Seq(T)
    OBVIOUS
  <2>3. normalizeAPIBase(NoBase) = {default} /\ normalizeAPIBase(default) = {default}
    BY DefaultIs
  <2>4. MayBeUsed(default.scheme, default.user, default.host)
    <3>1. default.scheme = "https" /\ default.user = FALSE /\ default.host = "api"
      BY DEF defaultAPIBase, Base
    <3> HIDE DEF default
    <3> QED BY <3>1, Zenon DEF MayBeUsed, NoText
  <2> HIDE DEF default
  <2>5. default # NoBase
    BY <2>1, <2>4, WrittenIs
  <2>6. EndpointHasPrefix(default, suffix)
    <3> DEFINE s == default.scheme
               h == default.host
    <3>1. default = Base(s, FALSE, h, <<>>, FALSE) /\ h \in T \ {providerPathPrefix[1]}
      BY <2>1 DEF default
    <3> HIDE DEF s, h
    <3>2. EndpointHasPrefix(Base(s, FALSE, h, <<>>, FALSE), suffix)
      BY <2>2, <2>5, <3>1, WrittenEndsRight
    <3> QED BY <3>1, <3>2
  <2>7. providerEndpoint(NoBase, suffix) = providerEndpoint(default, suffix)
    BY <2>3, Zenon DEF providerEndpoint
  <2>8. EndpointHasPrefix(NoBase, suffix)
    BY <2>3, <2>6, <2>7, Zenon DEF EndpointHasPrefix
  <2> QED BY <1>2, <2>8
<1> QED BY <1>1, <1>2

-----------------------------------------------------------------------------
(* The body of a request *)

LEMMA TrimmedHead ==
  ASSUME NEW T, NEW letters \in Seq(T)
  PROVE  /\ Trimmed(letters) \in Seq(T)
         /\ Trimmed(letters) # <<>> => Head(Trimmed(letters)) # " "
<1> DEFINE blank == " "
<1>1. Trimmed(letters)
        = IF ApartFrom(letters, blank) = {} THEN <<>> ELSE Middle(letters, blank)
  BY Zenon DEF Trimmed, ApartFrom, Middle
<1> HIDE DEF blank
<1>2. /\ Trimmed(letters) \in Seq(T)
      /\ Trimmed(letters) # <<>> => Head(Trimmed(letters)) # blank
  <2>1. CASE ApartFrom(letters, blank) = {}
    BY <1>1, <2>1
  <2>2. CASE ApartFrom(letters, blank) # {}
    <3>1. Middle(letters, blank) \in Seq(T)
      BY <2>2, MiddleIs
    <3>2. Middle(letters, blank) # <<>> => Middle(letters, blank)[1] # blank
      BY <2>2, MiddleIs
    <3> HIDE DEF Middle
    <3> QED BY <1>1, <2>2, <3>1, <3>2
  <2> QED BY <2>1, <2>2
<1> QED BY <1>2, Zenon DEF blank

\* The body that goes to the chat route: the client's but for four fields.
LEMMA ChatBodyIs ==
  ASSUME NEW p, DOMAIN p = DOMAIN Plain, NEW model, NEW stream \in BOOLEAN,
         NEW b \in ensureChatPayload(p, model, stream)
  PROVE  /\ p.form = "object" /\ ~ TooLarge(p.size) /\ Is("array", p.messages)
         /\ DOMAIN b = DOMAIN p /\ b.model = Text(model) /\ b.stream = stream
         /\ b.stream_options = OptionsOf(p, stream) /\ b.size = p.encoded.chat
         /\ \A field \in DOMAIN p \ {"model", "stream", "stream_options", "size"} : b[field] = p[field]
         /\ b.messages = p.messages
<1> DEFINE fields == [model |-> Text(model), stream |-> stream,
                      stream_options |-> OptionsOf(p, stream), size |-> p.encoded.chat]
<1>1. /\ DOMAIN fields = {"model", "stream", "stream_options", "size"}
      /\ fields.model = Text(model) /\ fields.stream = stream
      /\ fields.stream_options = OptionsOf(p, stream) /\ fields.size = p.encoded.chat
  OBVIOUS
<1>2. p.form = "object" /\ ~ TooLarge(p.size) /\ Is("array", p.messages) /\ b = WithFields(p, fields)
  BY Zenon DEF ensureChatPayload
<1> HIDE DEF fields
<1>3. /\ "model" \in DOMAIN p /\ "stream" \in DOMAIN p /\ "stream_options" \in DOMAIN p
      /\ "size" \in DOMAIN p /\ "messages" \in DOMAIN p
  BY DEF Plain
<1>4. "messages" \notin DOMAIN fields
  BY <1>1
<1>5. DOMAIN b = DOMAIN p /\ \A field \in DOMAIN p :
        b[field] = IF field \in DOMAIN fields THEN fields[field] ELSE p[field]
  BY <1>2 DEF WithFields
<1>6. /\ b.model = Text(model) /\ b.stream = stream /\ b.stream_options = OptionsOf(p, stream)
      /\ b.size = p.encoded.chat
  BY <1>1, <1>3, <1>5
<1> QED BY <1>1, <1>2, <1>3, <1>4, <1>5, <1>6

\* openai.go:82: of any body, the chat route gets every field as the client has it, but for the
\* model, whether it streams, the usage a stream is asked for, and the length.
THEOREM ChatFieldsStay ==
  ASSUME NEW p, DOMAIN p = DOMAIN Plain, NEW model, NEW stream \in BOOLEAN
  PROVE  ChatFieldsAreKept(p, model, stream)
<1> SUFFICES ASSUME NEW b \in ensureChatPayload(p, model, stream)
             PROVE  /\ DOMAIN b = DOMAIN p /\ b.model = Text(model) /\ b.stream = stream
                    /\ \A field \in DOMAIN p \ {"model", "stream", "stream_options", "size"} :
                         b[field] = p[field]
                    /\ Is("missing", b.stream_options) => ~ stream
                    /\ b.stream_options # p.stream_options
                         => stream /\ Is("missing", p.stream_options)
  BY Zenon DEF ChatFieldsAreKept
<1>1. /\ DOMAIN b = DOMAIN p /\ b.model = Text(model) /\ b.stream = stream
      /\ b.stream_options = OptionsOf(p, stream)
      /\ \A field \in DOMAIN p \ {"model", "stream", "stream_options", "size"} : b[field] = p[field]
  BY ChatBodyIs
<1>2. ~ Is("missing", UsageAsked)
  BY DEF Is, UsageAsked, Object
<1>3. CASE stream /\ Is("missing", p.stream_options)
  <2>1. b.stream_options = UsageAsked
    BY <1>1, <1>3 DEF OptionsOf
  <2> QED BY <1>1, <1>2, <1>3, <2>1
<1>4. CASE ~ (stream /\ Is("missing", p.stream_options))
  <2>1. b.stream_options = p.stream_options
    BY <1>1, <1>4 DEF OptionsOf
  <2> QED BY <1>1, <1>4, <2>1
<1> QED BY <1>3, <1>4

\* A value is of one kind, and a number is one.
Counts(value) == OneKind(value) /\ (Is("number", value) => value.number \in Int)

\* The limit that goes to Claude's models is one they take, and the client's.
LEMMA LimitIs ==
  ASSUME NEW p, NEW n \in anthropicMaxTokens(p),
         Counts(p.max_tokens), Counts(p.max_completion_tokens)
  PROVE  /\ n \in 1..maxAnthropicMaxTokens
         /\ Is("number", p.max_tokens) => n = p.max_tokens.number \div 2
         /\ Is("missing", p.max_tokens) /\ Is("number", p.max_completion_tokens)
              => n = p.max_completion_tokens.number \div 2
<1>1. ASSUME NEW h \in Int, NEW m, m = Truncated(h), m \in 1..maxAnthropicMaxTokens
      PROVE  m = h \div 2
  <2>1. CASE h >= 0
    BY <1>1, <2>1, Zenon DEF Truncated
  <2>2. CASE ~ (h >= 0)
    <3> DEFINE k == -h
    <3>1. k \in Nat
      BY <2>2
    <3>2. k \div 2 \in Nat
      <4> HIDE DEF k
      <4> QED BY <3>1
    <3>3. m = -(k \div 2)
      BY <1>1, <2>2, Zenon DEF Truncated
    <3> DEFINE q == k \div 2
    <3> HIDE DEF k, q
    <3>4. m = -q /\ q \in Nat
      BY <3>2, <3>3 DEF q
    <3>5. m >= 1
      BY <1>1, <3>4
    <3> QED BY <3>4, <3>5
  <2> QED BY <2>1, <2>2
<1>2. defaultAnthropicMaxTokens \in 1..maxAnthropicMaxTokens
  BY DEF defaultAnthropicMaxTokens, maxAnthropicMaxTokens
<1> DEFINE node == IF Is("missing", p.max_tokens) THEN p.max_completion_tokens ELSE p.max_tokens
<1>3. n \in CASE Is("missing", node) -> {defaultAnthropicMaxTokens}
              [] Is("number", node) -> {Truncated(node.number)} \cap 1..maxAnthropicMaxTokens
              [] OTHER -> {}
  BY Zenon DEF anthropicMaxTokens
<1>4. \A value : OneKind(value) => ~ (Is("missing", value) /\ Is("number", value))
  <2> SUFFICES ASSUME NEW value, OneKind(value), "missing" \in DOMAIN value,
                      "number" \in DOMAIN value
               PROVE  FALSE
    BY DEF Is
  <2>1. "missing" = "number"
    BY Zenon DEF OneKind
  <2> QED BY <2>1
<1>5. OneKind(node) /\ (Is("number", node) => node.number \in Int)
  BY Zenon DEF Counts
<1>6. CASE Is("missing", node)
  <2>1. n = defaultAnthropicMaxTokens
    BY <1>3, <1>4, <1>5, <1>6
  <2>2. ~ Is("number", node)
    BY <1>4, <1>5, <1>6
  <2>3. ~ Is("number", p.max_tokens)
    <3>1. OneKind(p.max_tokens)
      BY DEF Counts
    <3> QED BY <1>4, <2>2, <3>1
  <2> QED BY <1>2, <2>1, <2>2, <2>3
<1>7. CASE Is("number", node)
  <2>1. ~ Is("missing", node)
    BY <1>4, <1>5, <1>7
  <2>2. n \in {Truncated(node.number)} \cap 1..maxAnthropicMaxTokens
    BY <1>3, <1>7, <2>1
  <2>3. n \in 1..maxAnthropicMaxTokens /\ n = node.number \div 2
    BY <1>1, <1>5, <1>7, <2>2
  <2>4. OneKind(p.max_tokens)
    BY DEF Counts
  <2> QED BY <1>4, <2>3, <2>4
<1>8. CASE ~ Is("missing", node) /\ ~ Is("number", node)
  BY <1>3, <1>8
<1> QED BY <1>6, <1>7, <1>8

\* No stop that goes to Claude's models is blank, or begins with one.
LEMMA StopsAre ==
  ASSUME NEW T, NEW node,
         Is("text", node) => node.text \in Seq(T),
         Is("array", node) => node.array \in Seq(Seq(T)),
         NEW i \in DOMAIN parseStopSequences(node)
  PROVE  /\ parseStopSequences(node)[i] # <<>>
         /\ Head(parseStopSequences(node)[i]) # " "
<1> DEFINE texts == IF Is("text", node) THEN <<node.text>>
                    ELSE IF Is("array", node) THEN node.array ELSE <<>>
           trimmed == [j \in DOMAIN texts |-> Trimmed(texts[j])]
           stops == Without(trimmed, {<<>>})
<1>1. parseStopSequences(node) = stops
  BY Zenon DEF parseStopSequences
<1>2. texts \in Seq(Seq(T))
  <2>1. CASE Is("text", node)
    BY <2>1
  <2>2. CASE ~ Is("text", node) /\ Is("array", node)
    BY <2>2
  <2>3. CASE ~ Is("text", node) /\ ~ Is("array", node)
    BY <2>3
  <2> QED BY <2>1, <2>2, <2>3
<1> HIDE DEF texts
<1>3. \A j \in DOMAIN texts : texts[j] \in Seq(T)
  BY <1>2
<1>4. \A j \in DOMAIN texts : Trimmed(texts[j]) \in Seq(T)
  BY <1>3, TrimmedHead, Zenon
<1>5. trimmed \in Seq(Seq(T))
  <2>1. Len(texts) \in Nat /\ DOMAIN texts = 1..Len(texts)
    BY <1>2
  <2> DEFINE S == Seq(T)
             n == Len(texts)
  <2>2. \A j \in 1..n : trimmed[j] \in S
    BY <1>4, <2>1
  <2>3. trimmed = [j \in 1..n |-> trimmed[j]]
    BY <2>1
  <2> HIDE DEF S, n, trimmed
  <2>4. trimmed \in Seq(S)
    BY <2>1, <2>2, <2>3 DEF n
  <2> QED BY <2>4 DEF S
<1>6. \A t \in ToSet(trimmed) : \E j \in DOMAIN texts : t = Trimmed(texts[j])
  BY DEF ToSet
<1> HIDE DEF trimmed
<1>7. stops \in Seq(Seq(T)) /\ ToSet(stops) = ToSet(trimmed) \ {<<>>}
  BY <1>5, WithoutKeeps
<1> DEFINE t == stops[i]
<1>8. t \in ToSet(stops)
  BY <1>1 DEF ToSet
<1> HIDE DEF stops, t
<1>9. t # <<>> /\ t \in ToSet(trimmed)
  BY <1>7, <1>8
<1>10. PICK j \in DOMAIN texts : t = Trimmed(texts[j])
  BY <1>6, <1>9
<1>11. Trimmed(texts[j]) # <<>> => Head(Trimmed(texts[j])) # " "
  BY <1>3, TrimmedHead, Zenon
<1> QED BY <1>1, <1>9, <1>10, <1>11, Zenon DEF t

\* What is told of a tool is what the client says of it.
ToldAs(told, tool) ==
  LET fn == FunctionOf(tool) IN
  /\ told.name = fn.name
  /\ \/ told.schema = fn.parameters
     \/ /\ told.schema = EmptySchema
        /\ Is("missing", fn.parameters) \/ Is("null", fn.parameters)

\* The tools that go to Claude's models are the client's.
LEMMA ToolsAre ==
  ASSUME NEW node, NEW tools \in convertTools(node), Is("array", node), OneKind(node)
  PROVE  /\ DOMAIN tools = DOMAIN node.array
         /\ \A i \in DOMAIN tools : ToldAs(tools[i], node.array[i])
<1> DEFINE fn(item) == FunctionOf(item)
           schema(item) == IF Is("missing", fn(item).parameters) \/ Is("null", fn(item).parameters)
                           THEN EmptySchema ELSE fn(item).parameters
           told(item) == [name |-> fn(item).name, schema |-> schema(item)]
           made == [i \in DOMAIN node.array |-> told(node.array[i])]
<1>1. ~ Is("missing", node)
  <2> SUFFICES ASSUME "missing" \in DOMAIN node
               PROVE  FALSE
    BY DEF Is
  <2>1. "array" \in DOMAIN node
    BY Zenon DEF Is
  <2>2. "missing" = "array"
    BY <2>1, Zenon DEF OneKind
  <2> QED BY <2>2
<1>2. tools = made
  <2> DEFINE usable(item) == item.type \in {NoText, "function"} /\ fn(item).name # <<>>
  <2>1. convertTools(node)
          = IF Is("missing", node) THEN {<<>>}
            ELSE IF ~ Is("array", node) \/ \E i \in DOMAIN node.array : ~ usable(node.array[i])
            THEN {} ELSE {made}
    BY Zenon DEF convertTools, FunctionOf
  <2> HIDE DEF made, usable
  <2> QED BY <1>1, <2>1
<1>3. ASSUME NEW item
      PROVE  ToldAs(told(item), item)
  <2>1. told(item).name = fn(item).name /\ told(item).schema = schema(item)
    <3> HIDE DEF fn, schema
    <3> QED OBVIOUS
  <2>2. \/ schema(item) = fn(item).parameters
        \/ /\ schema(item) = EmptySchema
           /\ Is("missing", fn(item).parameters) \/ Is("null", fn(item).parameters)
    <3> HIDE DEF fn
    <3> QED BY Zenon
  <2> HIDE DEF told, schema
  <2> QED BY <2>1, <2>2, Zenon DEF ToldAs
<1> HIDE DEF told
<1>4. ASSUME NEW i \in DOMAIN made
      PROVE  ToldAs(made[i], node.array[i])
  <2>1. made[i] = told(node.array[i])
    BY <1>4, Zenon
  <2> QED BY <1>3, <2>1, Zenon
<1>5. DOMAIN made = DOMAIN node.array
  BY Zenon
<1> QED BY <1>2, <1>4, <1>5, Zenon

\* The body that goes to Claude's models.
LEMMA MessagesBodyIs ==
  ASSUME NEW p, NEW model, NEW stream, NEW proxied, NEW net,
         NEW b \in chatToAnthropic(p, model, stream, proxied, net)
  PROVE  /\ p.form = "object" /\ Is("array", p.messages)
         /\ b.max_tokens \in anthropicMaxTokens(p) /\ b.tools \in convertTools(p.tools)
         /\ b.stop_sequences = parseStopSequences(p.stop)
         /\ b.model = Text(model) /\ b.stream = stream
         /\ b.messages \in ContentsOf(p, proxied, net) /\ b.size = LengthWith(p, b.messages)
<1> DEFINE body(n, tools, contents) ==
             [model |-> Text(model), stream |-> stream, max_tokens |-> n, tools |-> tools,
              temperature |-> NumberOrMissing(p.temperature),
              top_p |-> NumberOrMissing(p.top_p),
              stop_sequences |-> parseStopSequences(p.stop),
              messages |-> contents, size |-> LengthWith(p, contents)]
<1>1. p.form = "object"
  BY DEF chatToAnthropic
<1>2. PICK n \in anthropicMaxTokens(p), tools \in convertTools(p.tools),
           contents \in ContentsOf(p, proxied, net) : b = body(n, tools, contents)
  BY <1>1 DEF chatToAnthropic, LengthWith
<1>3. Is("array", p.messages)
  BY <1>2, Zenon DEF ContentsOf
<1>4. /\ b.max_tokens = n /\ b.tools = tools /\ b.messages = contents
      /\ b.stop_sequences = parseStopSequences(p.stop) /\ b.model = Text(model)
      /\ b.stream = stream /\ b.size = LengthWith(p, contents)
  BY <1>2
<1> QED BY <1>1, <1>2, <1>3, <1>4

\* And there is one of each of its parts.
LEMMA MessagesBodyFrom ==
  ASSUME NEW p, p.form = "object", NEW model, NEW stream, NEW proxied, NEW net,
         NEW n \in anthropicMaxTokens(p), NEW tools \in convertTools(p.tools),
         NEW contents \in ContentsOf(p, proxied, net)
  PROVE  \E b \in chatToAnthropic(p, model, stream, proxied, net) : b.size = LengthWith(p, contents)
<1> DEFINE body == [model |-> Text(model), stream |-> stream, max_tokens |-> n, tools |-> tools,
                    temperature |-> NumberOrMissing(p.temperature),
                    top_p |-> NumberOrMissing(p.top_p),
                    stop_sequences |-> parseStopSequences(p.stop),
                    messages |-> contents, size |-> LengthWith(p, contents)]
<1>1. body \in chatToAnthropic(p, model, stream, proxied, net)
  BY DEF chatToAnthropic, LengthWith
<1>2. body.size = LengthWith(p, contents)
  OBVIOUS
<1> QED BY <1>1, <1>2, Zenon

\* Values the fields of a body may have.
FitBody(p, T) ==
  /\ Counts(p.max_tokens) /\ Counts(p.max_completion_tokens) /\ OneKind(p.tools)
  /\ Is("text", p.stop) => p.stop.text \in Seq(T)
  /\ Is("array", p.stop) => p.stop.array \in Seq(Seq(T))

\* anthropic.go:119: of any body, Claude's models get a limit they take, the client's if it named
\* one, no blank stop, and all of the client's tools in order, each with the parameters the client
\* gave it, whatever these are, or with none where the client gave none.
THEOREM MessagesFieldsStay ==
  ASSUME NEW T, NEW p, FitBody(p, T), NEW model, NEW stream, NEW proxied, NEW net
  PROVE  MessagesFieldsAreKept(p, model, stream, proxied, net)
<1> SUFFICES ASSUME NEW b \in chatToAnthropic(p, model, stream, proxied, net)
             PROVE  /\ b.max_tokens \in 1..maxAnthropicMaxTokens
                    /\ Is("number", p.max_tokens) => b.max_tokens = p.max_tokens.number \div 2
                    /\ (Is("missing", p.max_tokens) /\ Is("number", p.max_completion_tokens))
                         => b.max_tokens = p.max_completion_tokens.number \div 2
                    /\ \A i \in DOMAIN b.stop_sequences :
                         b.stop_sequences[i] # <<>> /\ Head(b.stop_sequences[i]) # " "
                    /\ Is("array", p.tools) =>
                         /\ DOMAIN b.tools = DOMAIN p.tools.array
                         /\ \A i \in DOMAIN b.tools : ToldAs(b.tools[i], p.tools.array[i])
  BY Zenon DEF MessagesFieldsAreKept, ToldAs
<1>1. /\ b.max_tokens \in anthropicMaxTokens(p) /\ b.tools \in convertTools(p.tools)
      /\ b.stop_sequences = parseStopSequences(p.stop)
  BY MessagesBodyIs
<1>2. /\ b.max_tokens \in 1..maxAnthropicMaxTokens
      /\ Is("number", p.max_tokens) => b.max_tokens = p.max_tokens.number \div 2
      /\ (Is("missing", p.max_tokens) /\ Is("number", p.max_completion_tokens))
           => b.max_tokens = p.max_completion_tokens.number \div 2
  BY <1>1, LimitIs, Zenon DEF FitBody
<1>3. ASSUME NEW i \in DOMAIN b.stop_sequences
      PROVE  b.stop_sequences[i] # <<>> /\ Head(b.stop_sequences[i]) # " "
  BY <1>1, StopsAre, Zenon DEF FitBody
<1>4. ASSUME Is("array", p.tools)
      PROVE  /\ DOMAIN b.tools = DOMAIN p.tools.array
             /\ \A i \in DOMAIN b.tools : ToldAs(b.tools[i], p.tools.array[i])
  BY <1>1, <1>4, ToolsAre, Zenon DEF FitBody
<1> QED BY <1>2, <1>3, <1>4, Zenon

-----------------------------------------------------------------------------
(* The call *)

\* What goes by doHTTP: a request for each endpoint and body that is not too large.
Sends(call, E, B, accept) == UNION {doHTTP(call, e, b, accept) : e \in E, b \in B}

LEMMA SendsAre ==
  ASSUME NEW call, NEW E, NEW B, NEW accept
  PROVE  /\ \A s \in Sends(call, E, B, accept) :
              /\ s.endpoint \in E /\ s.body \in B /\ ~ TooLarge(s.body.size)
              /\ s.headers = upstreamHeaders(call, accept)
              /\ s.through = liveRoundTrip(call.proxy, upstreamHeaders(call, accept))
         /\ Sends(call, E, B, accept) = {} <=> E = {} \/ \A b \in B : TooLarge(b.size)
<1> DEFINE headers == upstreamHeaders(call, accept)
           request(e, b) == [endpoint |-> e, headers |-> headers, body |-> b,
                          through |-> liveRoundTrip(call.proxy, headers)]
<1>1. \A e \in E, b \in B : doHTTP(call, e, b, accept) = IF TooLarge(b.size) THEN {} ELSE {request(e, b)}
  BY Zenon DEF doHTTP
<1>2. \A s : s \in Sends(call, E, B, accept)
               <=> \E e \in E, b \in B : s \in doHTTP(call, e, b, accept)
  BY DEF Sends
<1>3. \A e, b : /\ request(e, b).endpoint = e /\ request(e, b).body = b
                /\ request(e, b).headers = headers
                /\ request(e, b).through = liveRoundTrip(call.proxy, headers)
  OBVIOUS
<1> HIDE DEF request, headers
<1>4. ASSUME NEW s \in Sends(call, E, B, accept)
      PROVE  /\ s.endpoint \in E /\ s.body \in B /\ ~ TooLarge(s.body.size) /\ s.headers = headers
             /\ s.through = liveRoundTrip(call.proxy, headers)
  <2>1. PICK e \in E, b \in B : s \in doHTTP(call, e, b, accept)
    BY <1>2
  <2>2. ~ TooLarge(b.size) /\ s = request(e, b)
    BY <1>1, <2>1
  <2> QED BY <1>3, <2>2
<1>5. ASSUME E # {}, NEW b \in B, ~ TooLarge(b.size)
      PROVE  Sends(call, E, B, accept) # {}
  <2>1. PICK e \in E : TRUE
    BY <1>5
  <2>2. request(e, b) \in doHTTP(call, e, b, accept)
    BY <1>1, <1>5, <2>1
  <2> QED BY <1>2, <2>1, <2>2
<1>6. ASSUME Sends(call, E, B, accept) # {}
      PROVE  E # {} /\ \E b \in B : ~ TooLarge(b.size)
  <2>1. PICK s : s \in Sends(call, E, B, accept)
    BY <1>6
  <2> QED BY <1>4, <2>1
<1> QED BY <1>4, <1>5, <1>6 DEF headers

\* An endpoint ends in its route, and there is one if the base is usable.
LEMMA EndpointEnds ==
  ASSUME NEW T, NoText \in T, providerPathPrefix \in Seq(T), NEW base, base.path \in Seq(T),
         NEW suffix \in Seq(T), suffix # <<>>
  PROVE  /\ \A e \in providerEndpoint(base, suffix) : Last(e.path) = Last(suffix)
         /\ providerEndpoint(base, suffix) = {} <=> normalizeAPIBase(base) = {}
<1> DEFINE cut == NoSlashAtEnd(base.path)
           b == Base(base.scheme, FALSE, base.host, cut, FALSE)
<1>1. cut \in Seq(T) /\ <<>> \in Seq(T)
  BY NoSlashAgain
<1>2. b.path = cut /\ defaultAPIBase.path = <<>>
  BY DefaultIs DEF Base
<1>3. \/ normalizeAPIBase(base) = {}
      \/ \E n : normalizeAPIBase(base) = {n} /\ n.path \in Seq(T)
  <2>1. \/ normalizeAPIBase(base) = {defaultAPIBase} \/ normalizeAPIBase(base) = {b}
        \/ normalizeAPIBase(base) = {}
    BY Zenon DEF normalizeAPIBase
  <2> HIDE DEF b, cut
  <2> QED BY <1>1, <1>2, <2>1
<1> HIDE DEF b, cut
<1>4. ASSUME NEW front \in Seq(T)
      PROVE  Last(front \o suffix) = Last(suffix)
  <2> DEFINE whole == front \o suffix
  <2>1. /\ Len(whole) = Len(front) + Len(suffix) /\ Len(front) \in Nat /\ Len(suffix) \in Nat
        /\ \A i \in 1..Len(suffix) : whole[Len(front) + i] = suffix[i]
    BY JoinedEnds
  <2>2. Len(suffix) \in 1..Len(suffix)
    BY <2>1, EmptySeq
  <2> HIDE DEF whole
  <2>3. Last(whole) = Last(suffix)
    BY <2>1, <2>2 DEF Last
  <2> QED BY <2>3 DEF whole
<1>5. CASE normalizeAPIBase(base) = {}
  <2>1. providerEndpoint(base, suffix) = {}
    BY <1>5, Zenon DEF providerEndpoint
  <2> QED BY <1>5, <2>1
<1>6. ASSUME NEW n, normalizeAPIBase(base) = {n}, n.path \in Seq(T)
      PROVE  /\ \A e \in providerEndpoint(base, suffix) : Last(e.path) = Last(suffix)
             /\ providerEndpoint(base, suffix) = {} <=> normalizeAPIBase(base) = {}
  <2> DEFINE ends == IsSuffix(providerPathPrefix, <<n.host>> \o n.path)
             first == n.path \o suffix
             rest == Without(n.path, {NoText}) \o providerPathPrefix
             second == rest \o suffix
  <2>1. providerEndpoint(base, suffix) = {IF ends THEN Endpoint(n, first) ELSE Endpoint(n, second)}
    BY <1>6, EndpointIs, Zenon
  <2>2. rest \in Seq(T)
    <3>1. Without(n.path, {NoText}) \in Seq(T)
      BY <1>6, WithoutKeeps
    <3> QED BY <3>1, JoinedEnds
  <2>3. Last(first) = Last(suffix) /\ Last(second) = Last(suffix)
    <3> HIDE DEF rest
    <3> QED BY <1>4, <1>6, <2>2
  <2>4. \A p : Endpoint(n, p).path = p
    BY DEF Endpoint
  <2> HIDE DEF ends, first, second
  <2>5. \A e \in providerEndpoint(base, suffix) : Last(e.path) = Last(suffix)
    BY <2>1, <2>3, <2>4
  <2> QED BY <1>6, <2>1, <2>5
<1> QED BY <1>3, <1>5, <1>6

\* The call that is made of a client's, and what is request by it.
ModelOf(x) == IF x.model # <<>> THEN x.model ELSE Trimmed(TextOf(x.payload.model))

CallOf(x, config) ==
  [key |-> x.key, proxy |-> IF x.proxy # NoText THEN x.proxy ELSE config.proxy,
   model |-> ModelOf(x), payload |-> x.payload, zdr |-> config.zdr,
   clientZDR |-> clientRequestedZDR(x.zdr),
   anthropic |-> usesAnthropicMessages(ModelOf(x), <<>>)]

LEMMA AskedIs ==
  ASSUME NEW x, NEW config, NEW stream, NEW net
  PROVE  Asked(x, config, stream, net)
           = IF x.key = NoText \/ ModelOf(x) = <<>> THEN {}
             ELSE IF usesAnthropicMessages(ModelOf(x), <<>>)
             THEN Anthropic(CallOf(x, config), config.base, stream, net)
             ELSE OpenAI(CallOf(x, config), config.base, stream)
<1> DEFINE call == CallOf(x, config)
<1>1. buildExecutorCall(x, config)
        = IF x.key = NoText \/ ModelOf(x) = <<>> THEN {} ELSE {call}
  BY Zenon DEF buildExecutorCall, payloadModel, ModelOf, CallOf
<1>2. call.anthropic = usesAnthropicMessages(ModelOf(x), <<>>)
  BY Zenon DEF CallOf
<1>3. Asked(x, config, stream, net)
        = UNION {IF c.anthropic THEN Anthropic(c, config.base, stream, net)
                 ELSE OpenAI(c, config.base, stream) : c \in buildExecutorCall(x, config)}
  BY Zenon DEF Asked
<1> HIDE DEF call
<1>4. CASE x.key = NoText \/ ModelOf(x) = <<>>
  BY <1>1, <1>3, <1>4
<1>5. CASE ~ (x.key = NoText \/ ModelOf(x) = <<>>)
  <2>1. Asked(x, config, stream, net)
          = IF call.anthropic THEN Anthropic(call, config.base, stream, net)
            ELSE OpenAI(call, config.base, stream)
    BY <1>1, <1>3, <1>5
  <2> QED BY <1>2, <1>5, <2>1 DEF call
<1> QED BY <1>4, <1>5

LEMMA ByItsId ==
  ASSUME NEW model
  PROVE  usesAnthropicMessages(model, <<>>) <=> model # <<>> /\ Head(model) \in {"c", "C"}
<1>1. DOMAIN <<>> = {}
  OBVIOUS
<1> QED BY <1>1, Zenon DEF usesAnthropicMessages, isClaude

\* Values a call may have.
FitCall(x, config, T) ==
  /\ DOMAIN x.payload = DOMAIN Plain
  /\ config.zdr \in BOOLEAN /\ config.base.path \in Seq(T)

\* And its messages.
FitMessages(node, U, B) ==
  Is("array", node) => \A i \in DOMAIN node.array : FitContent(node.array[i].content, U, B)

HeadersOf(x, config, stream) == upstreamHeaders(CallOf(x, config), Accepted(stream))
ZdrAsked(x, config) == config.zdr /\ x.zdr \notin {"1", "true"}

LEMMA HeadersAre ==
  ASSUME NEW x, NEW config, config.zdr \in BOOLEAN, NEW stream \in BOOLEAN
  PROVE  /\ HeadersOf(x, config, stream).authorization = x.key
         /\ HeadersOf(x, config, stream).zdr # NoText <=> ZdrAsked(x, config)
         /\ liveRoundTrip(CallOf(x, config).proxy, HeadersOf(x, config, stream))
              = Through(x, config, stream)
<1> DEFINE call == CallOf(x, config)
           headers == HeadersOf(x, config, stream)
           events == "text/event-stream"
           streams == "host stream"
<1>1. /\ call.key = x.key /\ call.zdr = config.zdr /\ call.clientZDR = clientRequestedZDR(x.zdr)
      /\ call.proxy = IF x.proxy # NoText THEN x.proxy ELSE config.proxy
  BY DEF CallOf
<1>2. /\ headers.authorization = call.key /\ headers.accept = Accepted(stream)
      /\ headers.zdr = IF call.zdr /\ ~ call.clientZDR THEN "1" ELSE NoText
  BY DEF upstreamHeaders, HeadersOf
<1>3. "1" # NoText
  BY Zenon DEF NoText
<1> HIDE DEF call
<1>4. clientRequestedZDR(x.zdr) <=> x.zdr \in {"1", "true"}
  BY Zenon DEF clientRequestedZDR
<1>5. clientRequestedZDR(x.zdr) \in BOOLEAN
  BY DEF clientRequestedZDR
<1> HIDE DEF headers
<1>6. headers.zdr # NoText <=> config.zdr /\ x.zdr \notin {"1", "true"}
  BY <1>1, <1>2, <1>3, <1>4, <1>5
<1>7. headers.accept = Accepted(stream) /\ (Accepted(stream) = events <=> stream)
  <2>1. Accepted(stream) = events <=> stream
    BY DEF Accepted
  <2> QED BY <1>2, <2>1, Zenon
<1>8. liveRoundTrip(call.proxy, headers)
        = IF call.proxy # NoText THEN call.proxy
          ELSE IF headers.accept = events THEN streams ELSE "host"
  BY Zenon DEF liveRoundTrip
<1>9. Through(x, config, stream)
        = IF x.proxy # NoText THEN x.proxy ELSE IF config.proxy # NoText THEN config.proxy
          ELSE IF stream THEN streams ELSE "host"
  BY Zenon DEF Through
<1> HIDE DEF events, streams
<1>10. liveRoundTrip(call.proxy, headers) = Through(x, config, stream)
  BY <1>1, <1>7, <1>8, <1>9
<1>11. headers.authorization = x.key
  BY <1>1, <1>2, Zenon
<1> QED BY <1>6, <1>10, <1>11, Zenon DEF call, headers, ZdrAsked

\* The messages of a body for Claude's models are the client's.
LEMMA MessagesStay ==
  ASSUME NEW U, NEW B, NEW net, FitWeb(net.web, U, B), NEW proxied \in BOOLEAN,
         NEW p, FitMessages(p.messages, U, B), NEW contents \in ContentsOf(p, proxied, net)
  PROVE  MessagesAreKept(p.messages.array, contents, proxied, net)
<1> DEFINE messages == p.messages.array
<1>1. /\ Is("array", p.messages)
      /\ contents \in Contents(messages, net.web, proxied, net.up)
  BY Zenon DEF ContentsOf
<1>2. \A i \in DOMAIN messages : FitContent(messages[i].content, U, B)
  BY <1>1, Zenon DEF FitMessages
<1> HIDE DEF messages
<1>3. MessagesAreKept(messages, contents, proxied, net)
  BY <1>1, <1>2, ContentsAre
<1> QED BY <1>3 DEF messages

\* A body for the chat route is there if it may be, and has one length.
LEMMA ChatSends ==
  ASSUME NEW p, DOMAIN p = DOMAIN Plain, NEW model, NEW stream \in BOOLEAN
  PROVE  (\A b \in ensureChatPayload(p, model, stream) : TooLarge(b.size))
           <=> \/ p.form # "object" \/ ~ Is("array", p.messages)
               \/ TooLarge(p.size) \/ TooLarge(p.encoded.chat)
<1> DEFINE none == p.form # "object" \/ TooLarge(p.size) \/ ~ Is("array", p.messages)
           chat == ensureChatPayload(p, model, stream)
<1>1. chat = {} <=> none
  BY DEF ensureChatPayload
<1>2. \A b \in chat : b.size = p.encoded.chat
  BY ChatBodyIs
<1> HIDE DEF chat
<1> DEFINE all == \A b \in chat : TooLarge(b.size)
<1>3. ASSUME none
      PROVE  all
  BY <1>1, <1>3
<1>4. ASSUME ~ none
      PROVE  all <=> TooLarge(p.encoded.chat)
  <2>1. PICK b \in chat : TRUE
    BY <1>1, <1>4
  <2> QED BY <1>2, <2>1
<1>5. all <=> none \/ TooLarge(p.encoded.chat)
  <2> HIDE DEF all, none
  <2> QED BY <1>3, <1>4
<1> QED BY <1>5 DEF chat

\* A body for Claude's models is too large if it is with any contents there are.
LEMMA MessagesSend ==
  ASSUME NEW p, NEW model, NEW stream, NEW proxied, NEW net
  PROVE  (\A b \in chatToAnthropic(p, model, stream, proxied, net) : TooLarge(b.size))
           <=> \/ p.form # "object" \/ anthropicMaxTokens(p) = {} \/ convertTools(p.tools) = {}
               \/ \A contents \in ContentsOf(p, proxied, net) : TooLarge(LengthWith(p, contents))
<1> DEFINE bodies == chatToAnthropic(p, model, stream, proxied, net)
           found == ContentsOf(p, proxied, net)
           limits == anthropicMaxTokens(p)
           lists == convertTools(p.tools)
           large(contents) == TooLarge(LengthWith(p, contents))
<1> HIDE DEF bodies, found, limits, lists, large
<1>1. ASSUME NEW b \in bodies, ~ TooLarge(b.size)
      PROVE  /\ p.form = "object" /\ limits # {} /\ lists # {}
             /\ \E contents \in found : ~ large(contents)
  <2>1. /\ p.form = "object" /\ b.max_tokens \in limits /\ b.tools \in lists
        /\ b.messages \in found /\ b.size = LengthWith(p, b.messages)
    BY MessagesBodyIs DEF bodies, found, limits, lists
  <2> QED BY <1>1, <2>1 DEF large
<1>2. ASSUME p.form = "object", NEW n \in limits, NEW tools \in lists,
             NEW contents \in found, ~ large(contents)
      PROVE  \E b \in bodies : ~ TooLarge(b.size)
  <2>1. \E b \in bodies : b.size = LengthWith(p, contents)
    BY <1>2, MessagesBodyFrom DEF bodies, found, limits, lists
  <2> QED BY <1>2, <2>1 DEF large
<1>3. (\E b \in bodies : ~ TooLarge(b.size))
        <=> p.form = "object" /\ limits # {} /\ lists # {} /\ \E contents \in found : ~ large(contents)
  BY <1>1, <1>2
<1> QED BY <1>3 DEF bodies, found, limits, lists, large

\* executor.go:133: whatever a client asks for by whatever credential, it is kept back if and only
\* if KeptBack says so, and what goes upstream is not over the limit, with its images in it, names
\* the model that was meant, holds of each message what KeptAs says, goes where that model is with
\* the credential's key, through its proxy, and streams if that is asked for.
THEOREM CallsStayTheirs ==
  ASSUME NEW T, NoText \in T, providerPathPrefix \in Seq(T), <<"messages">> \in Seq(T),
         <<"chat", "completions">> \in Seq(T), NEW U, NEW B, NEW net, FitWeb(net.web, U, B),
         NEW x, NEW config, NEW stream \in BOOLEAN, FitCall(x, config, T),
         FitMessages(x.payload.messages, U, B)
  PROVE  CallIsTheirs(x, config, stream, net)
<1> DEFINE call == CallOf(x, config)
           model == ModelOf(x)
           p == x.payload
           accept == Accepted(stream)
           headers == HeadersOf(x, config, stream)
           claude == IsClaudes(model)
           proxied == HasProxy(x, config)
           chatEnds == providerEndpoint(config.base, <<"chat", "completions">>)
           messagesEnds == providerEndpoint(config.base, <<"messages">>)
           chat == ensureChatPayload(p, model, stream)
           messages == chatToAnthropic(p, model, stream, proxied, net)
           requests == Asked(x, config, stream, net)
           none == x.key = NoText \/ model = <<>>
           large(contents) == TooLarge(LengthWith(p, contents))
           noBase == normalizeAPIBase(config.base) = {}
<1>1. /\ DOMAIN p = DOMAIN Plain /\ config.zdr \in BOOLEAN /\ config.base.path \in Seq(T)
  BY Zenon DEF FitCall
<1>2. requests = IF none THEN {} ELSE IF claude THEN Sends(call, messagesEnds, messages, accept)
             ELSE Sends(call, chatEnds, chat, accept)
  <2>1. call.payload = p /\ call.model = model /\ (call.proxy # NoText) = proxied
    BY DEF CallOf, HasProxy
  <2>2. Anthropic(call, config.base, stream, net) = Sends(call, messagesEnds, messages, accept)
    BY <2>1 DEF Anthropic, Sends
  <2>3. OpenAI(call, config.base, stream) = Sends(call, chatEnds, chat, accept)
    BY <2>1 DEF OpenAI, Sends
  <2>4. ~ none => (usesAnthropicMessages(model, <<>>) <=> claude)
    BY ByItsId, Zenon DEF IsClaudes
  <2>5. requests = IF none THEN {} ELSE IF usesAnthropicMessages(model, <<>>)
               THEN Anthropic(call, config.base, stream, net)
               ELSE OpenAI(call, config.base, stream)
    BY AskedIs, Zenon
  <2> HIDE DEF none, claude, requests, call, model, messagesEnds, chatEnds, messages, chat, accept
  <2> QED BY <2>2, <2>3, <2>4, <2>5, Zenon
<1>3. /\ \A b \in chat : /\ b.model = Text(model) /\ b.stream = stream
                         /\ b.size = p.encoded.chat /\ b.messages = p.messages
      /\ (\A b \in chat : TooLarge(b.size))
           <=> \/ p.form # "object" \/ ~ Is("array", p.messages)
               \/ TooLarge(p.size) \/ TooLarge(p.encoded.chat)
  BY <1>1, ChatBodyIs, ChatSends
<1>4. /\ \A b \in messages : /\ b.model = Text(model) /\ b.stream = stream
                             /\ b.size = LengthWith(p, b.messages)
                             /\ MessagesAreKept(p.messages.array, b.messages, proxied, net)
      /\ (\A b \in messages : TooLarge(b.size))
           <=> \/ p.form # "object" \/ anthropicMaxTokens(p) = {} \/ convertTools(p.tools) = {}
               \/ \A contents \in ContentsOf(p, proxied, net) : large(contents)
  <2>1. ASSUME NEW b \in messages
        PROVE  /\ b.model = Text(model) /\ b.stream = stream /\ b.size = LengthWith(p, b.messages)
               /\ b.messages \in ContentsOf(p, proxied, net)
    BY MessagesBodyIs
  <2>2. proxied \in BOOLEAN
    BY DEF HasProxy
  <2>3. FitMessages(p.messages, U, B)
    OBVIOUS
  <2>4. (\A b \in messages : TooLarge(b.size))
          <=> \/ p.form # "object" \/ anthropicMaxTokens(p) = {} \/ convertTools(p.tools) = {}
              \/ \A contents \in ContentsOf(p, proxied, net) : large(contents)
    BY MessagesSend
  <2> HIDE DEF messages, proxied, p, model, large
  <2>5. ASSUME NEW b \in messages
        PROVE  MessagesAreKept(p.messages.array, b.messages, proxied, net)
    BY <2>1, <2>2, <2>3, MessagesStay
  <2> QED BY <2>1, <2>4, <2>5
<1>5. /\ \A e \in chatEnds : Last(e.path) = "completions"
      /\ chatEnds = {} <=> noBase
  <2>1. Last(<<"chat", "completions">>) = "completions" /\ <<"chat", "completions">> # <<>>
    BY DEF Last
  <2> DEFINE suffix == <<"chat", "completions">>
  <2> HIDE DEF suffix
  <2>2. suffix \in Seq(T) /\ suffix # <<>> /\ Last(suffix) = "completions"
    BY <2>1 DEF suffix
  <2>3. /\ \A e \in providerEndpoint(config.base, suffix) : Last(e.path) = Last(suffix)
        /\ providerEndpoint(config.base, suffix) = {} <=> noBase
    BY <1>1, <2>2, EndpointEnds
  <2> QED BY <2>2, <2>3 DEF suffix
<1>6. /\ \A e \in messagesEnds : Last(e.path) = "messages"
      /\ messagesEnds = {} <=> noBase
  <2>1. Last(<<"messages">>) = "messages" /\ <<"messages">> # <<>>
    BY DEF Last
  <2> DEFINE suffix == <<"messages">>
  <2> HIDE DEF suffix
  <2>2. suffix \in Seq(T) /\ suffix # <<>> /\ Last(suffix) = "messages"
    BY <2>1 DEF suffix
  <2>3. /\ \A e \in providerEndpoint(config.base, suffix) : Last(e.path) = Last(suffix)
        /\ providerEndpoint(config.base, suffix) = {} <=> noBase
    BY <1>1, <2>2, EndpointEnds
  <2> QED BY <2>2, <2>3 DEF suffix
<1>7. /\ headers.authorization = x.key /\ (headers.zdr # NoText <=> ZdrAsked(x, config))
      /\ liveRoundTrip(call.proxy, headers) = Through(x, config, stream)
      /\ upstreamHeaders(call, accept) = headers
  <2>1. upstreamHeaders(call, accept) = headers
    BY Zenon DEF HeadersOf
  <2> HIDE DEF accept
  <2> QED BY <1>1, <2>1, HeadersAre
<1>8. requests = {} <=> KeptBack(x, config, model, net)
  <2> DEFINE notObject == p.form # "object"
             noList == ~ Is("array", p.messages)
             noParts == anthropicMaxTokens(p) = {} \/ convertTools(p.tools) = {}
             allLarge == \A contents \in ContentsOf(p, proxied, net) : large(contents)
             chatLarge == TooLarge(p.size) \/ TooLarge(p.encoded.chat)
  <2>1. KeptBack(x, config, model, net)
          <=> \/ none \/ noBase \/ notObject \/ noList
              \/ claude /\ (noParts \/ allLarge)
              \/ ~ claude /\ chatLarge
    BY Zenon DEF KeptBack
  <2>2. noList => allLarge
    BY Zenon DEF ContentsOf
  <2>3. Sends(call, messagesEnds, messages, accept) = {}
          <=> messagesEnds = {} \/ \A b \in messages : TooLarge(b.size)
    <3> HIDE DEF call, messagesEnds, messages, accept
    <3> QED BY SendsAre
  <2>4. Sends(call, chatEnds, chat, accept) = {}
          <=> chatEnds = {} \/ \A b \in chat : TooLarge(b.size)
    <3> HIDE DEF call, chatEnds, chat, accept
    <3> QED BY SendsAre
  <2>5. (\A b \in messages : TooLarge(b.size)) <=> notObject \/ noParts \/ allLarge
    BY <1>4, Zenon
  <2>6. (\A b \in chat : TooLarge(b.size)) <=> notObject \/ noList \/ chatLarge
    BY <1>3, Zenon
  <2> HIDE DEF none, claude, requests, call, model, messagesEnds, chatEnds, messages, chat, accept,
               noBase, notObject, noList, noParts, allLarge, chatLarge
  <2> QED BY <1>2, <1>5, <1>6, <2>1, <2>2, <2>3, <2>4, <2>5, <2>6
<1>9. ASSUME NEW s \in requests
      PROVE  /\ s.headers.authorization = x.key
             /\ s.body.model = Text(model) /\ s.body.stream = stream
             /\ IF claude
                THEN /\ MessagesAreKept(p.messages.array, s.body.messages, proxied, net)
                     /\ ~ large(s.body.messages)
                ELSE s.body.messages = p.messages /\ ~ TooLarge(p.encoded.chat)
             /\ Last(s.endpoint.path) = IF claude THEN "messages" ELSE "completions"
             /\ s.through = Through(x, config, stream)
             /\ s.headers.zdr # NoText <=> ZdrAsked(x, config)
  <2> HIDE DEF none, claude, requests, call, model, messagesEnds, chatEnds, messages, chat, accept, p,
               headers, proxied
  <2>1. \/ claude /\ s \in Sends(call, messagesEnds, messages, accept)
        \/ ~ claude /\ s \in Sends(call, chatEnds, chat, accept)
    BY <1>2, <1>9
  <2>2. CASE claude /\ s \in Sends(call, messagesEnds, messages, accept)
    <3>1. /\ s.endpoint \in messagesEnds /\ s.body \in messages /\ ~ TooLarge(s.body.size)
          /\ s.headers = headers /\ s.through = liveRoundTrip(call.proxy, headers)
      BY <1>7, <2>2, SendsAre
    <3>2. /\ MessagesAreKept(p.messages.array, s.body.messages, proxied, net)
          /\ ~ large(s.body.messages) /\ s.body.model = Text(model) /\ s.body.stream = stream
      BY <1>4, <3>1, Zenon
    <3> QED BY <1>6, <1>7, <2>2, <3>1, <3>2, Zenon
  <2>3. CASE ~ claude /\ s \in Sends(call, chatEnds, chat, accept)
    <3>1. /\ s.endpoint \in chatEnds /\ s.body \in chat /\ ~ TooLarge(s.body.size)
          /\ s.headers = headers /\ s.through = liveRoundTrip(call.proxy, headers)
      BY <1>7, <2>3, SendsAre
    <3>2. /\ s.body.messages = p.messages /\ ~ TooLarge(p.encoded.chat)
          /\ s.body.model = Text(model) /\ s.body.stream = stream
      BY <1>3, <3>1, Zenon
    <3> QED BY <1>5, <1>7, <2>3, <3>1, <3>2, Zenon
  <2> QED BY <2>1, <2>2, <2>3
<1>10. CallIsTheirs(x, config, stream, net)
         <=> /\ requests = {} <=> KeptBack(x, config, model, net)
             /\ \A s \in requests :
                  /\ s.headers.authorization = x.key
                  /\ s.body.model = Text(model) /\ s.body.stream = stream
                  /\ IF claude
                     THEN /\ MessagesAreKept(p.messages.array, s.body.messages, proxied, net)
                          /\ ~ large(s.body.messages)
                     ELSE s.body.messages = p.messages /\ ~ TooLarge(p.encoded.chat)
                  /\ Last(s.endpoint.path) = IF claude THEN "messages" ELSE "completions"
                  /\ s.through = Through(x, config, stream)
                  /\ s.headers.zdr # NoText <=> ZdrAsked(x, config)
  BY Zenon DEF CallIsTheirs, ModelOf, ZdrAsked
<1> HIDE DEF requests, claude, model, proxied, large, p
<1> QED BY <1>8, <1>9, <1>10, Zenon

-----------------------------------------------------------------------------
(* Framing, and the run *)

\* Slashes at the end of a path do not change how its stream is framed.
LEMMA FramingStays ==
  ASSUME NEW T, NEW path \in Seq(T), NoText \in T, path # <<>>, Last(path) # NoText, NEW n \in Nat
  PROVE  FramingFits(path, n)
<1> DEFINE whole == path \o Slashes(n)
           raw == Last(path) = "completions" /\ Len(path) > 1
<1>1. path[Len(path)] # NoText
  BY DEF Last
<1>2. NoSlashAtEnd(whole) = path
  BY <1>1, NoSlashOf
<1>3. streamFramingFor(whole) = IF raw THEN "raw" ELSE "SSE"
  <2> HIDE DEF whole
  <2> QED BY <1>2 DEF streamFramingFor
<1> QED BY <1>3, Zenon DEF FramingFits, Slashes

\* What the run's bodies are made of.
LEMMA WithIs ==
  ASSUME NEW fields
  PROVE  /\ DOMAIN With(fields) = DOMAIN Plain
         /\ \A field \in DOMAIN Plain :
              With(fields)[field] = IF field \in DOMAIN fields THEN fields[field] ELSE Plain[field]
BY DEF With, WithFields

LEMMA ValuesAre ==
  /\ OneKind(Missing) /\ OneKind(Null) /\ \A x : OneKind(Number(x)) /\ OneKind(Text(x))
                                            /\ OneKind(List(x)) /\ OneKind(Object(x))
  /\ Is("missing", Missing) /\ Is("null", Null) /\ \A x : Is("object", Object(x))
  /\ ~ Is("number", Missing) /\ ~ Is("number", Null)
  /\ ~ Is("text", Missing) /\ ~ Is("text", Null) /\ ~ Is("array", Missing) /\ ~ Is("array", Null)
  /\ \A x : /\ ~ Is("array", Text(x)) /\ ~ Is("text", List(x))
            /\ Text(x).text = x /\ List(x).array = x /\ Number(x).number = x
BY DEF OneKind, Is, Missing, Null, Number, Text, List, Object

LEMMA PlainIs ==
  /\ DOMAIN Plain = {"form", "size", "encoded", "messages", "model", "stream", "stream_options",
                     "max_tokens", "max_completion_tokens", "temperature", "top_p", "stop", "tools"}
  /\ Plain.max_tokens = Missing /\ Plain.max_completion_tokens = Missing
  /\ Plain.stop = Missing /\ Plain.tools = Missing /\ Plain.messages = List(<<>>)
BY DEF Plain

StopLetters == {" ", "a", "b"}

LEMMA LimitsCount == \A limit \in Limits : Counts(limit)
<1>1. \A n \in Int : Counts(Number(n))
  BY ValuesAre DEF Counts
<1>2. Counts(Missing) /\ Counts(Null)
  BY ValuesAre DEF Counts
<1>3. {-1, 0, 1, 2, 3, 400000, 400001, 400002} \subseteq Int
  OBVIOUS
<1> QED BY <1>1, <1>2, <1>3 DEF Limits

\* A body that the run sets no limit, stop or tools in.
FitStop(stop) ==
  /\ Is("text", stop) => stop.text \in Seq(StopLetters)
  /\ Is("array", stop) => stop.array \in Seq(Seq(StopLetters))

LEMMA FitParts ==
  ASSUME NEW p, Counts(p.max_tokens), Counts(p.max_completion_tokens), FitStop(p.stop),
         OneKind(p.tools)
  PROVE  FitBody(p, StopLetters)
BY Zenon DEF FitBody, FitStop

LEMMA StopsFit == \A stop \in Stops : FitStop(stop)
<1> DEFINE blank == " "
           L == {blank, "a", "b"}
           A == {<<>>, <<blank>>, <<blank, "a">>, <<"a">>}
           B == {<<blank>>, <<blank, "a">>, <<"b">>}
           S1 == {Text(t) : t \in A}
           S2 == {List(t) : t \in [1..2 -> B]}
<1>1. A \subseteq Seq(L) /\ B \subseteq Seq(L)
  <2> HIDE DEF blank
  <2> QED OBVIOUS
<1>2. L = StopLetters
  BY Zenon DEF StopLetters
<1>3. Stops = {Missing, Null} \cup S1 \cup S2
  BY Zenon DEF Stops
<1> HIDE DEF L, A, B, blank
<1>4. FitStop(Missing) /\ FitStop(Null)
  BY ValuesAre, Zenon DEF FitStop
<1>5. ASSUME NEW t \in A
      PROVE  FitStop(Text(t))
  <2>1. t \in Seq(L)
    BY <1>1
  <2> QED BY <1>2, <2>1, ValuesAre, Zenon DEF FitStop
<1>6. ASSUME NEW t \in [1..2 -> B]
      PROVE  FitStop(List(t))
  <2> DEFINE Q == Seq(L)
  <2> HIDE DEF Q
  <2>1. t \in [1..2 -> Q]
    BY <1>1 DEF Q
  <2>2. t \in Seq(Q)
    BY <2>1, SeqDef
  <2>3. t \in Seq(Seq(L))
    BY <2>2 DEF Q
  <2> QED BY <1>2, <2>3, ValuesAre, Zenon DEF FitStop
<1>7. (\A stop \in S1 : FitStop(stop)) /\ \A stop \in S2 : FitStop(stop)
  BY <1>5, <1>6, Zenon
<1> HIDE DEF S1, S2
<1> QED BY <1>3, <1>4, <1>7, Zenon

LEMMA ToolsFit == \A tools \in ToolLists : OneKind(tools)
<1> DEFINE S == {List(t) : t \in UNION {[1..n -> Tools] : n \in 0..2}}
<1>1. ToolLists = {Missing, Null} \cup S
  BY Zenon DEF ToolLists
<1>2. \A tools \in S : OneKind(tools)
  BY ValuesAre, Zenon
<1> HIDE DEF S
<1> QED BY <1>1, <1>2, ValuesAre, Zenon

\* A body that some fields are set in is as fit as what they are set to.
LEMMA WithFits ==
  ASSUME NEW fields,
         "max_tokens" \in DOMAIN fields => Counts(fields.max_tokens),
         "max_completion_tokens" \in DOMAIN fields => Counts(fields.max_completion_tokens),
         "stop" \in DOMAIN fields => FitStop(fields.stop),
         "tools" \in DOMAIN fields => OneKind(fields.tools)
  PROVE  DOMAIN With(fields) = DOMAIN Plain /\ FitBody(With(fields), StopLetters)
<1> DEFINE p == With(fields)
<1>1. Counts(Missing) /\ FitStop(Missing) /\ OneKind(Missing)
  BY ValuesAre, Zenon DEF Counts, FitStop
<1>2. DOMAIN p = DOMAIN Plain
  BY WithIs
<1>3. /\ p.max_tokens = IF "max_tokens" \in DOMAIN fields THEN fields.max_tokens ELSE Missing
      /\ p.max_completion_tokens = IF "max_completion_tokens" \in DOMAIN fields
                                   THEN fields.max_completion_tokens ELSE Missing
      /\ p.stop = IF "stop" \in DOMAIN fields THEN fields.stop ELSE Missing
      /\ p.tools = IF "tools" \in DOMAIN fields THEN fields.tools ELSE Missing
  BY PlainIs, WithIs
<1> HIDE DEF p
<1>4. /\ Counts(p.max_tokens) /\ Counts(p.max_completion_tokens) /\ FitStop(p.stop)
      /\ OneKind(p.tools)
  BY <1>1, <1>3
<1> QED BY <1>2, <1>4, FitParts DEF p

LEMMA PayloadsFit ==
  \A p \in Payloads : DOMAIN p = DOMAIN Plain /\ FitBody(p, StopLetters)
<1> DEFINE forms == {"empty", "invalid", "array", "object"}
           models == {Missing, Text(<<"b">>)}
           options == {Missing, Null, Object("the client's")}
           some == {Missing, List(<<>>)}
           S1 == [form : forms, size : Sizes, encoded : AllLengths, messages : some]
           S2 == [model : models, stream : BOOLEAN, stream_options : options,
                  temperature : Values, top_p : Values]
           S3 == [max_tokens : Limits, max_completion_tokens : Limits]
           S4 == [stop : Stops]
           S5 == [tools : ToolLists]
           Fit(fields) == DOMAIN With(fields) = DOMAIN Plain /\ FitBody(With(fields), StopLetters)
<1>1. Payloads = {With(fields) : fields \in S1 \cup S2 \cup S3 \cup S4 \cup S5}
  BY Zenon DEF Payloads
<1> HIDE DEF forms, models, options, some
<1>2. ASSUME NEW fields \in S1
      PROVE  Fit(fields)
  <2>1. DOMAIN fields = {"form", "size", "encoded", "messages"}
    OBVIOUS
  <2> QED BY <2>1, WithFits
<1>3. ASSUME NEW fields \in S2
      PROVE  Fit(fields)
  <2>1. DOMAIN fields = {"model", "stream", "stream_options", "temperature", "top_p"}
    OBVIOUS
  <2> QED BY <2>1, WithFits
<1>4. ASSUME NEW fields \in S3
      PROVE  Fit(fields)
  <2>1. /\ DOMAIN fields = {"max_tokens", "max_completion_tokens"}
        /\ fields.max_tokens \in Limits /\ fields.max_completion_tokens \in Limits
    OBVIOUS
  <2> QED BY <2>1, LimitsCount, WithFits
<1>5. ASSUME NEW fields \in S4
      PROVE  Fit(fields)
  <2>1. DOMAIN fields = {"stop"} /\ fields.stop \in Stops
    OBVIOUS
  <2> QED BY <2>1, StopsFit, WithFits
<1>6. ASSUME NEW fields \in S5
      PROVE  Fit(fields)
  <2>1. DOMAIN fields = {"tools"} /\ fields.tools \in ToolLists
    OBVIOUS
  <2> QED BY <2>1, ToolsFit, WithFits
<1>7. \A fields \in S1 \cup S2 \cup S3 \cup S4 \cup S5 : Fit(fields)
  <2> HIDE DEF S1, S2, S3, S4, S5, Fit
  <2> QED BY <1>2, <1>3, <1>4, <1>5, <1>6
<1> HIDE DEF S1, S2, S3, S4, S5
<1> QED BY <1>1, <1>7, Zenon

\* Parts of the run's paths.
Names == {"x", "provider", "v1", NoText, "messages", "chat", "completions", "responses", "api"}

LEMMA NamesAre ==
  /\ NoText \in Names /\ "api" \in Names /\ "api" # "provider" /\ NoText # "provider"
  /\ <<"messages">> \in Seq(Names) /\ <<"chat", "completions">> \in Seq(Names)
  /\ <<"responses">> \in Seq(Names) /\ <<NoText, "v1">> \in Seq(Names)
  /\ providerPathPrefix \in Seq(Names) /\ providerPathPrefix[1] = "provider"
<1> DEFINE none == NoText
<1>1. none # "provider"
  BY Zenon DEF NoText
<1> HIDE DEF none
<1>2. Names = {"x", "provider", "v1", none, "messages", "chat", "completions", "responses", "api"}
  BY DEF Names, none
<1>3. /\ none \in Names /\ "api" \in Names /\ "v1" \in Names /\ "provider" \in Names
      /\ "messages" \in Names /\ "chat" \in Names /\ "completions" \in Names
      /\ "responses" \in Names
  BY <1>2, Zenon
<1>4. "api" # "provider"
  OBVIOUS
<1> HIDE DEF Names
<1>5. /\ <<"messages">> \in Seq(Names) /\ <<"chat", "completions">> \in Seq(Names)
      /\ <<"responses">> \in Seq(Names) /\ <<none, "v1">> \in Seq(Names)
      /\ <<"provider", "v1">> \in Seq(Names)
  BY <1>3
<1>6. providerPathPrefix = <<"provider", "v1">> /\ <<"provider", "v1">>[1] = "provider"
  BY DEF providerPathPrefix
<1> QED BY <1>1, <1>3, <1>4, <1>5, <1>6 DEF none

LEMMA RunEndpoints == EndpointsHavePrefix
<1>1. ASSUME NEW path \in Paths
      PROVE  path \in Seq(Names)
  <2>1. PICK n \in 0..4 : path \in [1..n -> {"x", "provider", "v1", NoText}]
    BY DEF Paths
  <2>2. {"x", "provider", "v1", NoText} \subseteq Names
    BY Zenon DEF Names
  <2>3. n \in Nat /\ path \in [1..n -> Names]
    BY <2>1, <2>2
  <2> QED BY <2>3, SeqDef
<1>3. defaultAPIBase.host \in Names \ {providerPathPrefix[1]}
  <2>1. defaultAPIBase.host = "api"
    BY DEF defaultAPIBase, Base
  <2> QED BY <2>1, NamesAre
<1>2. ASSUME NEW base \in Bases,
             NEW suffix \in {<<"messages">>, <<"chat", "completions">>}
      PROVE  EndpointHasPrefix(base, suffix)
  <2> DEFINE schemes == {NoText, "http"}
             hosts == {NoText, "api"}
  <2>1. Bases = [scheme : schemes, user : BOOLEAN, host : hosts, path : Paths,
               query : BOOLEAN]
    BY Zenon DEF Bases
  <2>2. hosts \subseteq Names \ {providerPathPrefix[1]}
    BY NamesAre
  <2> HIDE DEF schemes, hosts
  <2>3. /\ base.user \in BOOLEAN /\ base.query \in BOOLEAN
        /\ base.host \in Names \ {providerPathPrefix[1]} /\ base.path \in Seq(Names)
        /\ base = Base(base.scheme, base.user, base.host, base.path, base.query)
    BY <1>1, <2>1, <2>2 DEF Base
  <2>4. suffix \in Seq(Names)
    BY NamesAre, Zenon
  <2>5. EndpointHasPrefix(Base(base.scheme, base.user, base.host, base.path, base.query), suffix)
    BY <1>3, <2>3, <2>4, NamesAre, EndpointsAreRight, Zenon
  <2> QED BY <2>3, <2>5
<1> QED BY <1>2, Zenon DEF EndpointsHavePrefix

LEMMA RunFields == FieldsAreKept
<1> SUFFICES ASSUME NEW p \in Payloads, NEW stream \in BOOLEAN, NEW net \in Nets
             PROVE  /\ ChatFieldsAreKept(p, <<"m">>, stream)
                    /\ MessagesFieldsAreKept(p, <<"m">>, stream, FALSE, net)
  BY Zenon DEF FieldsAreKept
<1>1. DOMAIN p = DOMAIN Plain /\ FitBody(p, StopLetters)
  BY PayloadsFit, Zenon
<1> QED BY <1>1, ChatFieldsStay, MessagesFieldsStay, Zenon

\* What the run fetches images from, and the chats it sends.
LEMMA NetsFit == \A net \in Nets : FitWeb(net.web, ToSet(Chain), LettersShown)
<1> SUFFICES ASSUME NEW net \in Nets
             PROVE  FitWeb(net.web, ToSet(Chain), LettersShown)
  OBVIOUS
<1> DEFINE bytes == <<"a">>
           web == Web(2, Answer(NoUrl, 200, "image/gif", bytes, FALSE))
<1>1. bytes \in Seq(LettersShown) /\ 2 \in DOMAIN Chain
  BY DEF LettersShown, Chain
<1> HIDE DEF bytes
<1>2. FitWeb(web, ToSet(Chain), LettersShown)
  BY <1>1, SiteFits
<1>3. PICK up : net = Net(web, up)
  BY Zenon DEF Nets, bytes
<1> HIDE DEF web
<1>4. net.web = web
  BY <1>3 DEF Net
<1> QED BY <1>2, <1>4, Zenon

LEMMA ChatsFit == \A node \in Chats : FitMessages(node, ToSet(Chain), LettersShown)
<1> DEFINE U == ToSet(Chain)
           B == LettersShown
           Fit(node) == FitMessages(node, U, B)
           data == DataUrl(TRUE, TRUE, "", <<"d">>)
           remote == Part("image_url", <<>>, Remote(Chain[1]))
           attached == Part("image_url", <<>>, data)
           text == Part("text", <<"t">>, Blank)
           refused == Part("image_url", <<>>, Blank)
           says == Text(<<"t">>)
           Holds(part) == RefersTo(part.reference, U, B)
           Sayable(message) == FitContent(message.content, U, B)
<1>1. Holds(remote) /\ Holds(attached) /\ Holds(text) /\ Holds(refused)
  <2>1. RefersTo(Blank, U, B) /\ \A reference \in References : RefersTo(reference, U, B)
    BY ReferencesFit
  <2>2. Remote(Chain[1]) \in References /\ data \in References
    BY Zenon DEF References
  <2> QED BY <2>1, <2>2, PartIs, Zenon
<1> HIDE DEF U, B, data, remote, attached, text, refused, says
<1>2. /\ \A a : Holds(a) => FitContent(List(<<a>>), U, B)
      /\ \A a, b : Holds(a) /\ Holds(b) => FitContent(List(<<a, b>>), U, B)
  <2>1. ASSUME NEW a, Holds(a)
        PROVE  FitContent(List(<<a>>), U, B)
    <3> DEFINE parts == <<a>>
    <3>1. \A i \in DOMAIN parts : parts[i] = a
      OBVIOUS
    <3> HIDE DEF parts
    <3>2. \A i \in DOMAIN parts : RefersTo(parts[i].reference, U, B)
      BY <2>1, <3>1, Zenon
    <3>3. FitContent(List(parts), U, B)
      BY <3>2, ListFits
    <3> QED BY <3>3 DEF parts
  <2>2. ASSUME NEW a, NEW b, Holds(a), Holds(b)
        PROVE  FitContent(List(<<a, b>>), U, B)
    <3> DEFINE parts == <<a, b>>
    <3>1. \A i \in DOMAIN parts : parts[i] = a \/ parts[i] = b
      OBVIOUS
    <3> HIDE DEF parts
    <3>2. \A i \in DOMAIN parts : RefersTo(parts[i].reference, U, B)
      BY <2>2, <3>1, Zenon
    <3>3. FitContent(List(parts), U, B)
      BY <3>2, ListFits
    <3> QED BY <3>3 DEF parts
  <2> QED BY <2>1, <2>2, Zenon
<1>3. FitContent(says, U, B)
  BY PlainlyFits, Zenon DEF says
<1>4. \A role, content : FitContent(content, U, B) => Sayable(Message(role, content))
  <2>1. \A role, content : Message(role, content).content = content
    BY DEF Message
  <2> QED BY <2>1, Zenon
<1> HIDE DEF Holds
<1>5. ASSUME NEW messages, \A i \in DOMAIN messages : Sayable(messages[i])
      PROVE  Fit(List(messages))
  <2>1. List(messages).array = messages
    BY ValuesAre
  <2> QED BY <1>5, <2>1, Zenon DEF FitMessages
<1> HIDE DEF Sayable
<1>6. /\ \A a : Sayable(a) => Fit(List(<<a>>))
      /\ \A a, b : Sayable(a) /\ Sayable(b) => Fit(List(<<a, b>>))
      /\ \A a, b, c, d : Sayable(a) /\ Sayable(b) /\ Sayable(c) /\ Sayable(d) => Fit(List(<<a, b, c, d>>))
  <2>1. ASSUME NEW a, Sayable(a)
        PROVE  Fit(List(<<a>>))
    <3> DEFINE messages == <<a>>
    <3>1. \A i \in DOMAIN messages : messages[i] = a
      OBVIOUS
    <3> HIDE DEF messages, Fit
    <3>2. Fit(List(messages))
      BY <1>5, <2>1, <3>1
    <3> QED BY <3>2 DEF messages
  <2>2. ASSUME NEW a, NEW b, Sayable(a), Sayable(b)
        PROVE  Fit(List(<<a, b>>))
    <3> DEFINE messages == <<a, b>>
    <3>1. \A i \in DOMAIN messages : messages[i] = a \/ messages[i] = b
      OBVIOUS
    <3> HIDE DEF messages, Fit
    <3>2. Fit(List(messages))
      BY <1>5, <2>2, <3>1
    <3> QED BY <3>2 DEF messages
  <2>3. ASSUME NEW a, NEW b, NEW c, NEW d, Sayable(a), Sayable(b), Sayable(c), Sayable(d)
        PROVE  Fit(List(<<a, b, c, d>>))
    <3> DEFINE messages == <<a, b, c, d>>
    <3>1. \A i \in DOMAIN messages :
            messages[i] = a \/ messages[i] = b \/ messages[i] = c \/ messages[i] = d
      OBVIOUS
    <3> HIDE DEF messages, Fit
    <3>2. \A i \in DOMAIN messages : Sayable(messages[i])
      BY <2>3, <3>1, Zenon
    <3>3. Fit(List(messages))
      BY <1>5, <3>2
    <3> QED BY <3>3 DEF messages
  <2> QED BY <2>1, <2>2, <2>3, Zenon
<1>7. Fit(Missing) /\ Fit(says)
  BY ValuesAre, Zenon DEF FitMessages, says
<1> HIDE DEF Fit
<1> DEFINE one == Message("user", List(<<text, attached>>))
           two == Message("user", List(<<remote, attached>>))
           three == Message("user", List(<<text>>))
           four == Message("user", List(<<refused>>))
           five == Message("developer", says)
           six == Message("system", List(<<text, attached>>))
           seven == Message("user", says)
           eight == Message("assistant", List(<<remote>>))
           nine == Message("tool", List(<<remote>>))
<1>8. /\ Sayable(one) /\ Sayable(two) /\ Sayable(three) /\ Sayable(four) /\ Sayable(five) /\ Sayable(six)
      /\ Sayable(seven) /\ Sayable(eight) /\ Sayable(nine)
  BY <1>1, <1>2, <1>3, <1>4, Zenon
<1>9. Chats = {Missing, says, List(<<one>>), List(<<two>>), List(<<three, four>>), List(<<five>>),
               List(<<six, seven, eight, nine>>)}
  BY Zenon DEF Chats, data, remote, attached, text, refused, says
<1> HIDE DEF one, two, three, four, five, six, seven, eight, nine
<1>10. /\ Fit(List(<<one>>)) /\ Fit(List(<<two>>)) /\ Fit(List(<<three, four>>))
       /\ Fit(List(<<five>>)) /\ Fit(List(<<six, seven, eight, nine>>))
  BY <1>6, <1>8, Zenon
<1>11. \A node \in Chats : Fit(node)
  BY <1>7, <1>9, <1>10, Zenon
<1> QED BY <1>11 DEF Fit, U, B

LEMMA RunCalls == CallsAreTheirs
<1> SUFFICES ASSUME NEW x \in ClientAsks, NEW config \in Configs, NEW stream \in BOOLEAN,
                    NEW net \in Nets
             PROVE  CallIsTheirs(x, config, stream, net)
  BY Zenon DEF CallsAreTheirs
<1> DEFINE U == ToSet(Chain)
           B == LettersShown
<1>1. config.zdr \in BOOLEAN /\ config.base.path \in Seq(Names)
  <2> DEFINE first == defaultAPIBase
             second == Base("http", TRUE, "api", <<>>, FALSE)
             proxies == {NoText, "the plugin's"}
  <2>1. Configs = [base : {first, NoBase, second}, proxy : proxies, zdr : BOOLEAN]
    BY Zenon DEF Configs
  <2>2. first.path = <<>> /\ second.path = <<>> /\ NoBase.path = <<>>
    BY DEF defaultAPIBase, Base, NoBase
  <2> HIDE DEF first, second, proxies
  <2>3. config.base \in {first, NoBase, second} /\ config.zdr \in BOOLEAN
    BY <2>1
  <2> HIDE DEF Names
  <2>4. <<>> \in Seq(Names)
    OBVIOUS
  <2> QED BY <2>2, <2>3, <2>4
<1>2. DOMAIN x.payload = DOMAIN Plain /\ FitMessages(x.payload.messages, U, B)
  <2> DEFINE keys == {NoText, "key"}
             proxies == {NoText, "the file's"}
             models == {<<>>, <<"a">>, <<"C", "a">>}
             wishes == {NoText, "0", "1", "true"}
             named == {Missing, Text(<<" ", "c">>)}
             limits == {Missing, Null, Number(2)}
             lengths == [chat : Sizes, messages : Sizes \cup {2, 3}]
             S1 == [size : Sizes, model : named, max_tokens : limits]
             S2 == [encoded : lengths, messages : Chats]
  <2>1. ClientAsks = [key : keys, proxy : proxies, model : models, payload : AskBodies,
                      zdr : wishes]
    BY Zenon DEF ClientAsks
  <2>2. AskBodies = {With(fields) : fields \in S1 \cup S2}
    BY Zenon DEF AskBodies
  <2> HIDE DEF keys, proxies, models, wishes, named, limits, lengths
  <2>3. x.payload \in AskBodies
    BY <2>1
  <2>4. PICK fields \in S1 \cup S2 : x.payload = With(fields)
    BY <2>2, <2>3, Zenon
  <2>5. "messages" \in DOMAIN Plain /\ Plain.messages = List(<<>>)
    BY PlainIs
  <2>6. FitMessages(List(<<>>), U, B)
    <3>1. List(<<>>).array = <<>> /\ DOMAIN <<>> = {}
      BY ValuesAre
    <3> QED BY <3>1, Zenon DEF FitMessages
  <2>7. CASE fields \in S1
    <3>1. "messages" \notin DOMAIN fields
      BY <2>7
    <3> HIDE DEF S1, S2, U, B
    <3>2. DOMAIN x.payload = DOMAIN Plain /\ x.payload.messages = List(<<>>)
      BY <2>4, <2>5, <3>1, WithIs
    <3> QED BY <2>6, <3>2, Zenon
  <2>8. CASE fields \in S2
    <3>1. "messages" \in DOMAIN fields /\ fields.messages \in Chats
      BY <2>8
    <3> HIDE DEF S1, S2
    <3>2. DOMAIN x.payload = DOMAIN Plain /\ x.payload.messages = fields.messages
      BY <2>4, <2>5, <3>1, WithIs
    <3> QED BY <3>1, <3>2, ChatsFit, Zenon
  <2> QED BY <2>4, <2>7, <2>8
<1>3. FitCall(x, config, Names)
  BY <1>1, <1>2, Zenon DEF FitCall
<1>4. FitWeb(net.web, U, B)
  BY NetsFit, Zenon
<1> HIDE DEF U, B
<1> QED BY <1>2, <1>3, <1>4, NamesAre, CallsStayTheirs

LEMMA RunFraming == FramingsFit
<1> SUFFICES ASSUME NEW n \in 0..1,
                    NEW end \in {<<"chat", "completions">>, <<"responses">>, <<"messages">>}
             PROVE  FramingFits(<<NoText, "v1">> \o end, n)
  BY Zenon DEF FramingsFit
<1> DEFINE start == <<NoText, "v1">>
           path == start \o end
<1>1. start \in Seq(Names) /\ end \in Seq(Names)
  BY NamesAre, Zenon
<1>2. /\ end[Len(end)] \in {"completions", "responses", "messages"}
      /\ Len(end) \in Nat /\ Len(end) > 0
  <2>1. CASE end = <<"chat", "completions">>
    BY <2>1
  <2>2. CASE end = <<"responses">>
    BY <2>2
  <2>3. CASE end = <<"messages">>
    BY <2>3
  <2> QED BY <2>1, <2>2, <2>3, Zenon
<1>3. "completions" # NoText /\ "responses" # NoText /\ "messages" # NoText
  BY Zenon DEF NoText
<1> HIDE DEF start
<1>4. path \in Seq(Names) /\ path # <<>> /\ Last(path) = end[Len(end)]
  <2>1. /\ path \in Seq(Names) /\ Len(path) = Len(start) + Len(end) /\ Len(start) \in Nat
        /\ \A i \in 1..Len(end) : path[Len(start) + i] = end[i]
    BY <1>1, JoinedEnds
  <2>2. Len(end) \in 1..Len(end)
    BY <1>2
  <2>3. path[Len(path)] = end[Len(end)] /\ Len(path) # 0
    BY <1>2, <2>1, <2>2
  <2> HIDE DEF path
  <2> QED BY <2>1, <2>3 DEF Last
<1>5. Last(path) # NoText
  <2> HIDE DEF path
  <2> QED BY <1>2, <1>3, <1>4
<1>6. n \in Nat
  OBVIOUS
<1> HIDE DEF path
<1>7. FramingFits(path, n)
  BY <1>4, <1>5, <1>6, NamesAre, FramingStays, Zenon
<1> QED BY <1>7 DEF path, start

\* The requests of the run are fit.
LEMMA RunRequests == RequestsAreFit
<1>1. AnswersAreWhole
  BY Zenon DEF AnswersAreWhole, doJSON
<1> QED BY <1>1, RunEndpoints, RunFields, RunCalls, RunFraming, Zenon DEF RequestsAreFit

\* executor.go:133, images.go:71, anthropic.go:155: a request that is open has gone upstream within
\* the limit, its images counted, where its model is answered, with its model, its parameters and
\* its tools, and with the texts and the images of its users and assistants as they are where the
\* client put them.  Of a system it has the texts, of a tool the text (KeptAs).
THEOREM RequestsGoWhole == StreamSpec => []WhatIsAskedIsSent
<1>1. WhatIsAskedIsSent
  BY RunImages, RunRequests DEF WhatIsAskedIsSent
<1> QED BY <1>1, PTL
=============================================================================
