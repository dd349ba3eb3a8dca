---------------------------- MODULE CursorModels ----------------------------
(***************************************************************************)
(* Models of the Cursor plugin (auth-cursor/go: catalog.go, models.go):    *)
(* the catalog kept for each credential, what of it is listed, and what a  *)
(* generation makes of it.                                                 *)
(*                                                                         *)
(* Two kinds of calls meet at the catalogs: "auth" (modelsForAuth), which  *)
(* always fetches, and "generate" (createAgent, resumeParkedAgent), which  *)
(* fetches when there is no fresh entry; staticModels only reads what was  *)
(* discovered last.  A step is one access to a sync.Map or to              *)
(* discoveredCatalog, or the answer of ListModels.                         *)
(***************************************************************************)
EXTENDS ExcludedModels

CONSTANTS
  Calls, Keys,  \* calls that may be under way at once, and API keys
  Lists,        \* answers of ListModels: sequences of models
  Asked,        \* what a generation asks for: model, params and the configured optimizeFor
  Exclusions,   \* what may be excluded: [attributes, host, storage -> sequences of patterns]
  Ttl,          \* catalogTTL
  Timeout,      \* catalogTimeout
  MaxTime,      \* bound: ticks of the clock
  NoEntry

ASSUME ModelsAssumption ==
  /\ Ttl \in Nat \ {0} /\ Timeout \in Nat /\ MaxTime \in Nat
  /\ NoEntry \notin Keys

VARIABLES
  now,         \* the clock
  catalogs,    \* modelCatalogs: [Keys -> an entry or NoEntry]
  discovered,  \* discoveredCatalog, <<>> before the first discovery
  call         \* [Calls -> the call and its variables]

modelsVars == <<now, catalogs, discovered, call>>

Times == 0..MaxTime

\* "asked" is a history: when the fetch began.
Entry == [models : Lists, fetched : Times, asked : Times]

\* "models" are those the call goes on with, <<>> also when it has none; "age" is how old they
\* are.  "at" is when the call's fetch began, "left" what its sweep has still to visit, and
\* "drop" the key whose entry the call found stale and is about to delete.
Call == [pc : {"idle", "looking", "dropping", "fetching", "sweeping", "resolving"},
         kind : {"auth", "generate", "none"}, key : Keys \cup {NoEntry},
         at : Times, age : Times, models : Lists \cup {<<>>},
         left : SUBSET Keys, drop : Keys \cup {NoEntry}]

\* Without the models that have no id.
discoverModels(catalog) == Without(catalog, {model \in ToSet(catalog) : model.id = <<>>})

\* The type invariant.
ModelsTypeOK ==
  /\ now \in Times
  /\ catalogs \in [Keys -> Entry \cup {NoEntry}]
  /\ discovered \in {discoverModels(list) : list \in Lists \cup {<<>>}} \cup {<<>>}
  /\ call \in [Calls -> Call]

-----------------------------------------------------------------------------
(* Model selection.  Params are a function from ids to values. *)

NoValue == "no value"

requestedValue(requested, id) ==
  IF id \in DOMAIN requested THEN requested[id]
  ELSE IF "reasoning_effort" \notin DOMAIN requested THEN NoValue
  ELSE IF id \in {"effort", "reasoning"} THEN requested["reasoning_effort"]
  ELSE IF id = "thinking" THEN (IF requested["reasoning_effort"] = "none" THEN "false" ELSE "true")
  ELSE NoValue

preferredOptimizeFor(definition, optimizeFor) ==
  IF optimizeFor \in ToSet(definition.values) THEN optimizeFor
  ELSE IF definition.values # <<>> THEN Head(definition.values)
  ELSE NoValue

\* Variant: what was requested is passed on, allowed or not.
ParamValue_Unchecked(definition, asked) ==
  LET supplied == requestedValue(asked.params, definition.id) IN
  IF supplied # NoValue THEN supplied
  ELSE IF definition.id = "optimize_for" THEN preferredOptimizeFor(definition, asked.optimizeFor)
  ELSE NoValue

\* The value of one parameter of the model, or none.
ParamValue(definition, asked) ==
  LET supplied == requestedValue(asked.params, definition.id) IN
  IF supplied \in ToSet(definition.values) THEN supplied
  ELSE IF definition.id = "optimize_for" THEN preferredOptimizeFor(definition, asked.optimizeFor)
  ELSE NoValue

Selection(id, params) == [id |-> id, params |-> params]

resolveModelSelection(models, asked) ==
  LET found == SelectInSeq(models, LAMBDA model : model.id # <<>> /\ model.id = asked.model) IN
  IF found = 0 THEN Selection(asked.model, {<<id, asked.params[id]>> : id \in DOMAIN asked.params})
  ELSE Selection(asked.model,
         {<<d.id, ParamValue(d, asked)>> :
            d \in {e \in ToSet(models[found].params) : ParamValue(e, asked) # NoValue}})

-----------------------------------------------------------------------------
(* catalogFor *)

CallBecomes(a, value) == call' = [call EXCEPT ![a] = value]

NoCall == [pc |-> "idle", kind |-> "none", key |-> NoEntry, at |-> 0, age |-> 0, models |-> <<>>,
           left |-> {}, drop |-> NoEntry]

Returns(a) == CallBecomes(a, NoCall)

\* A discovery forces a fetch.
Ask(a, kind, key) ==
  /\ call[a].pc = "idle"
  /\ CallBecomes(a, IF kind = "auth"
       THEN [NoCall EXCEPT !.pc = "fetching", !.kind = kind, !.key = key, !.at = now]
       ELSE [NoCall EXCEPT !.pc = "looking", !.kind = kind, !.key = key])
  /\ UNCHANGED <<now, catalogs, discovered>>

\* Variant: an entry is good for ever.
Fresh_Always(entry) == entry # NoEntry

Fresh(entry) == entry # NoEntry /\ now - entry.fetched < Ttl

\* modelCatalogs.Load.
LookHits(a) ==
  LET entry == catalogs[call[a].key] IN
  /\ call[a].pc = "looking"
  /\ Fresh(entry)
  /\ CallBecomes(a, [call[a] EXCEPT !.pc = "resolving", !.models = entry.models,
                                    !.age = now - entry.asked])
  /\ UNCHANGED <<now, catalogs, discovered>>

LookMisses(a) ==
  LET entry == catalogs[call[a].key] IN
  /\ call[a].pc = "looking"
  /\ ~Fresh(entry)
  /\ CallBecomes(a, IF entry = NoEntry
       THEN [call[a] EXCEPT !.pc = "fetching", !.at = now]
       ELSE [call[a] EXCEPT !.pc = "dropping", !.drop = call[a].key])
  /\ UNCHANGED <<now, catalogs, discovered>>

\* modelCatalogs.Delete of what was found stale, whatever is there by now; in catalogFor, or
\* in evictStaleCatalogs.
Drop(a) ==
  /\ call[a].drop # NoEntry
  /\ catalogs' = [catalogs EXCEPT ![call[a].drop] = NoEntry]
  /\ CallBecomes(a, IF call[a].pc = "dropping"
       THEN [call[a] EXCEPT !.pc = "fetching", !.drop = NoEntry, !.at = now]
       ELSE [call[a] EXCEPT !.drop = NoEntry])
  /\ UNCHANGED <<now, discovered>>

Answered(a, list) == [call[a] EXCEPT !.pc = "sweeping", !.models = list, !.left = Keys,
                                     !.age = now - call[a].at]

\* Variant: the entry says when it expires.
FetchAnswers_Expiry(a, list) ==
  /\ call[a].pc = "fetching"
  /\ catalogs' = [catalogs EXCEPT ![call[a].key] =
       [models |-> list, fetched |-> now + Ttl, asked |-> call[a].at]]
  /\ CallBecomes(a, Answered(a, list))
  /\ UNCHANGED <<now, discovered>>

\* ListModels answers, in time, and the answer is stored.
FetchAnswers(a, list) ==
  /\ call[a].pc = "fetching"
  /\ catalogs' = [catalogs EXCEPT ![call[a].key] =
       [models |-> list, fetched |-> now, asked |-> call[a].at]]
  /\ CallBecomes(a, Answered(a, list))
  /\ UNCHANGED <<now, discovered>>

\* ListModels, or for a discovery acquireBridge, fails: there are no models.
FetchFails(a) ==
  /\ call[a].pc = "fetching"
  /\ CallBecomes(a, [call[a] EXCEPT !.pc = "resolving"])
  /\ UNCHANGED <<now, catalogs, discovered>>

\* The time a sweep goes by, read once: when its call's answer was stored.
SweepTime(a) == call[a].at + call[a].age

\* Variant: the sweep deletes the stale entry of the call's own key only.
Stale_OwnKey(a, key) ==
  /\ key = call[a].key
  /\ catalogs[key] # NoEntry /\ SweepTime(a) - catalogs[key].fetched > Ttl

Stale(a, key) == catalogs[key] # NoEntry /\ SweepTime(a) - catalogs[key].fetched > Ttl

\* evictStaleCatalogs visits an entry, and deletes it in a second step.
Sweep(a, key) ==
  /\ call[a].pc = "sweeping" /\ call[a].drop = NoEntry
  /\ key \in call[a].left
  /\ CallBecomes(a, [call[a] EXCEPT !.left = call[a].left \ {key},
                                    !.drop = IF Stale(a, key) THEN key ELSE NoEntry])
  /\ UNCHANGED <<now, catalogs, discovered>>

SweepEnds(a) ==
  /\ call[a].pc = "sweeping" /\ call[a].drop = NoEntry /\ call[a].left = {}
  /\ CallBecomes(a, [call[a] EXCEPT !.pc = "resolving"])
  /\ UNCHANGED <<now, catalogs, discovered>>

-----------------------------------------------------------------------------
(* What a call makes of the models *)

\* Variant: what a discovery found is kept, even nothing.
Discovered_Always(models) == models

\* A discovery that found nothing leaves what is known.
Discovered(models) == IF models # <<>> THEN models ELSE discovered

\* The end of modelsForAuth, which answers what applyExcludedModels leaves.
AuthAnswers(a) ==
  /\ call[a].pc = "resolving" /\ call[a].kind = "auth"
  /\ discovered' = Discovered(discoverModels(call[a].models))
  /\ Returns(a)
  /\ UNCHANGED <<now, catalogs>>

\* createAgent or resumeParkedAgent sends what resolveModelSelection makes of the models.
Selects(a) ==
  /\ call[a].pc = "resolving" /\ call[a].kind = "generate"
  /\ Returns(a)
  /\ UNCHANGED <<now, catalogs, discovered>>

\* Fetches end in time.
Tick ==
  /\ now < MaxTime
  /\ \A a \in Calls : call[a].pc = "fetching" => now - call[a].at < Timeout
  /\ now' = now + 1
  /\ UNCHANGED <<catalogs, discovered, call>>

-----------------------------------------------------------------------------
ModelsInit ==
  /\ now = 0
  /\ catalogs = [k \in Keys |-> NoEntry]
  /\ discovered = <<>>
  /\ call = [a \in Calls |-> NoCall]

CallStep(a) ==
  \/ \E key \in Keys, kind \in {"auth", "generate"} : Ask(a, kind, key)
  \/ LookHits(a) \/ LookMisses(a) \/ Drop(a)
  \/ \E list \in Lists : FetchAnswers(a, list)
  \/ FetchFails(a)
  \/ \E key \in Keys : Sweep(a, key)
  \/ SweepEnds(a)
  \/ AuthAnswers(a) \/ Selects(a)

ModelsNext == (\E a \in Calls : CallStep(a)) \/ Tick

ModelsSpec == ModelsInit /\ [][ModelsNext]_modelsVars

-----------------------------------------------------------------------------
(* Properties *)

\* The search from left to right, after prefix and suffix are cut off, finds what a star may
\* stand for: of these lists, exactly the models go that a pattern in force matches.
RightlyListed == {list \in Lists :
  \A x \in Exclusions :
    LET models == discoverModels(list)
        excluded == excludedModelsForRequest(x)
        listed == applyExcludedModels(models, excluded) IN
    \A i \in DOMAIN models :
      (models[i] \in ToSet(listed)) <=>
        ~ \E j \in DOMAIN excluded : Matches(excluded[j], models[i].id)}

\* A discovery answers a model if and only if no pattern in force matches its id.
ListedUnlessExcluded ==
  \A a \in Calls : (call[a].pc = "resolving" /\ call[a].kind = "auth") =>
    call[a].models \in RightlyListed \cup {<<>>}

\* Of a model of these lists, the first of its name, Cursor is sent its own parameters with
\* values it offers, one each, and a router always has its optimize_for (catalog.go:17).
RightlySelected == {models \in Lists :
  \A asked \in Asked, i \in DOMAIN models :
    (/\ models[i].id # <<>> /\ models[i].id = asked.model
     /\ \A j \in 1..(i - 1) : models[j].id # asked.model) =>
      LET definitions == ToSet(models[i].params)
          params == resolveModelSelection(models, asked).params IN
      /\ \A p \in params : \E d \in definitions : p[1] = d.id /\ p[2] \in ToSet(d.values)
      /\ \A p, q \in params : p[1] = q[1] => p = q
      /\ \A d \in definitions : (d.id = "optimize_for" /\ d.values # <<>>) =>
           \E p \in params : p[1] = d.id}

\* Cursor is sent what it accepts, whatever a generation asks for.
SelectionIsAccepted ==
  \A a \in Calls : (call[a].pc = "resolving" /\ call[a].kind = "generate") =>
    call[a].models \in RightlySelected \cup {<<>>}

\* A client is offered the models it may use, and Cursor takes what it is asked for.
ModelsAreUsable == ListedUnlessExcluded /\ SelectionIsAccepted

\* What a generation goes by was asked for not longer ago than catalogTTL and catalogTimeout,
\* in whatever order fetches end, store and sweep.
UsedListIsRecent ==
  \A a \in Calls : call[a].pc = "resolving" /\ call[a].kind = "generate" =>
    call[a].age < Ttl + Timeout

\* The times kept with a list make sure of that.
ListsAreRecent == ModelsTypeOK /\ UsedListIsRecent

\* Whoever fetches leaves no entry that was too old when the sweep began (catalog.go:54), also
\* of keys nobody asks for any more.
SweepLeavesNothingStale ==
  [][\A a \in Calls : (call[a].pc = "sweeping" /\ call'[a].pc = "resolving") =>
       \A k \in Keys : catalogs[k] # NoEntry =>
         SweepTime(a) - catalogs[k].fetched <= Ttl]_modelsVars

\* Once there was a discovery, static registration has models to describe (models.go:15).
DiscoveryIsKept == [][discovered # <<>> => discovered' # <<>>]_modelsVars

\* What is kept is neither too old nor thrown away too soon.
CatalogsAreKeptUp == SweepLeavesNothingStale /\ DiscoveryIsKept

\* models.go:80: the cache that a discovery fills keeps model resolution off the hot path:
\* a list that was stored is there as long as it is fresh.
FreshListIsThere ==
  [][\A k \in Keys : Fresh(catalogs[k]) => catalogs'[k] # NoEntry]_modelsVars
=============================================================================
