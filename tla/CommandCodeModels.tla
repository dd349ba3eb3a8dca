-------------------------- MODULE CommandCodeModels --------------------------
(***************************************************************************)
(* What the Command Code plugin makes of the upstream's list of models     *)
(* (auth-commandcode/go/models.go): the models it offers, and the endpoint *)
(* a request for one of them goes to.                                      *)
(*                                                                         *)
(* An id is a sequence of letters, as in ExcludedModels; the letters "c"   *)
(* and "C" stand for "claude-" in small and in capital letters.            *)
(***************************************************************************)
EXTENDS ExcludedModels

\* What the response has: <<>> for an id or a name that is missing or blank, 0 for a context
\* length that is.
Item(id, name, context) == [id |-> id, name |-> name, context |-> context]

Model(id, name, context, anthropic) ==
  [id |-> id, name |-> name, context |-> context, anthropic |-> anthropic]

isClaude(id) == id # <<>> /\ Head(id) \in {"c", "C"}

\* Variant: a list that has the model decides.
usesAnthropicMessages_Listed(id, catalog) ==
  IF catalog # <<>> THEN \E i \in DOMAIN catalog : catalog[i].id = id /\ catalog[i].anthropic
  ELSE isClaude(id)

\* By the catalog, where a description says so, or by the id.
usesAnthropicMessages(id, catalog) ==
  \/ \E i \in DOMAIN catalog : catalog[i].id = id /\ catalog[i].anthropic
  \/ isClaude(id)

\* Variant: an item is taken again when it is listed again.
FirstNamed_EachTime(items, i) == items[i].id # <<>>

\* An item counts if it has an id that none before it had.
FirstNamed(items, i) == items[i].id # <<>> /\ \A j \in 1..(i - 1) : items[j].id # items[i].id

\* The description is the plugin's own: it says "Anthropic" of ids that do.  No model at all
\* is an error.
parseModelsResponse(items) ==
  LET model(i) == Model(items[i].id, IF items[i].name = <<>> THEN items[i].id ELSE items[i].name,
                        items[i].context, usesAnthropicMessages(items[i].id, <<>>))
      kept == Without([i \in DOMAIN items |-> i], {i \in DOMAIN items : ~ FirstNamed(items, i)})
  IN  [i \in DOMAIN kept |-> model(kept[i])]

\* modelsForAuth; matching is ExcludedModels'.
Offered(models, x) == applyExcludedModels(models, excludedModelsForRequest(x))

-----------------------------------------------------------------------------
(* Properties *)

Ids == {<<>>, <<"c", "a">>, <<"C", "a">>, <<"a">>}

Responses ==
  UNION {[1..n -> {Item(id, name, 0) : id \in Ids, name \in {<<>>, <<"n">>}}] : n \in 0..3}

Hidden == {<<>>, <<<<"a">>>>, <<<<"c", "*">>>>, <<<<"*", "a">>, <<"c">>>>, <<<<"*">>>>}

\* Of the response the plugin offers each usable id once, in the order it first came, but for
\* the hidden ones, and none without a name.
OfferedRightly(items, host, own) ==
  LET x == [attributes |-> <<>>, host |-> host, storage |-> own]
      offered == Offered(parseModelsResponse(items), x)
      visible(id) == ~ \E i \in DOMAIN (host \o own) : Matches((host \o own)[i], id) IN
  /\ {offered[i].id : i \in DOMAIN offered}
       = {id \in {items[i].id : i \in DOMAIN items} : id # <<>> /\ visible(id)}
  /\ \A i, j \in DOMAIN offered : i # j => offered[i].id # offered[j].id
  /\ \A i, j \in DOMAIN offered : i < j =>
       \E k \in DOMAIN items : /\ items[k].id = offered[i].id
                               /\ \A l \in 1..k : items[l].id # offered[j].id
  /\ \A i \in DOMAIN offered : offered[i].name # <<>>

\* A request for an id goes the same way whatever list is known by then, or none: it is
\* Claude's, however it is spelled, or not (README.md:110).
SentRightly(items, id) ==
  usesAnthropicMessages(id, parseModelsResponse(items))
    <=> \E letter \in {"c", "C"} : IsPrefix(<<letter>>, id)

ModelsGoByTheirIds ==
  /\ \A items \in Responses, host, own \in Hidden : OfferedRightly(items, host, own)
  /\ \A items \in Responses, id \in Ids : SentRightly(items, id)
=============================================================================
