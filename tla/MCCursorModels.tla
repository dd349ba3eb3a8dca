--------------------------- MODULE MCCursorModels ---------------------------
(* Lists of models, requests and exclusions for CursorModels.  An id and a *)
(* pattern are sequences of letters; "*" is the star.                      *)
EXTENDS CursorModels, TLC

Router == [id |-> <<"a">>,
           params |-> <<[id |-> "optimize_for", values |-> <<"cost", "speed">>]>>]
Thinker == [id |-> <<"a", "b", "a">>,
            params |-> <<[id |-> "effort", values |-> <<"low", "high">>],
                         [id |-> "thinking", values |-> <<"true">>]>>]
Plain == [id |-> <<"b", "a", "b", "a">>, params |-> <<>>]
Nameless == [id |-> <<>>, params |-> <<>>]

\* The lists one account may get, before and after its plan changes.
MCLists == {<<Router, Thinker, Plain>>, <<Nameless>>}

\* Allowed and unknown values, the effort a client gives, and a model not in any list.
MCAsked ==
  {[model |-> Router.id, params |-> params, optimizeFor |-> o] :
     params \in {<<>>, [optimize_for |-> "speed"], [optimize_for |-> "magic"]},
     o \in {"speed", "magic"}} \cup
  {[model |-> m, params |-> params, optimizeFor |-> "speed"] :
     m \in {Thinker.id, <<"b">>},
     params \in {<<>>, [reasoning_effort |-> "low"], [reasoning_effort |-> "none"],
                 [effort |-> "huge", thinking |-> "true"]}}

\* Every pattern of up to four symbols, and longer ones: prefix and suffix that overlap in an
\* id, a segment between two stars that only the suffix holds.
Patterns ==
  UNION {[1..n -> {"a", "b", "*"}] : n \in 1..4} \cup
  {<<"a", "b", "*", "b", "a">>, <<"*", "b", "*", "a", "*">>, <<"b", "*", "b", "*", "a">>,
   <<"*", "b", "a", "*", "b", "a">>, <<"b", "a", "b", "*", "a", "b", "a">>}

MCExclusions ==
  {[attributes |-> <<>>, host |-> <<p>>, storage |-> <<>>] : p \in Patterns} \cup
  {[attributes |-> <<>>, host |-> <<>>, storage |-> <<>>],
   [attributes |-> <<<<"b", "*">>>>, host |-> <<<<"a">>>>, storage |-> <<>>],
   [attributes |-> <<>>, host |-> <<<<"a">>>>, storage |-> <<<<"b", "*">>>>]}

\* Calls and keys are interchangeable.
ModelsSymmetry == Permutations(Calls) \cup Permutations(Keys)
=============================================================================
