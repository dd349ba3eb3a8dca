--------------------------- MODULE MCCursorRequest ---------------------------
(***************************************************************************)
(* Requests, with what is made of them before they run, and the            *)
(* classification of what they may fail with.                              *)
(***************************************************************************)
EXTENDS CursorRequest, CursorFailures, CursorCall

MCEfforts == {Missing, Null, Text(<<>>), Text(<<" ", "high">>), Text(<<"low">>)}

MCTiers == {Missing, Text(<<"priority", " ">>), Text(<<"flex">>)}

MCTools ==
  {Tool(type, name, p) : type \in {"", "function", "custom"}, name \in {"", "f", "g"},
                         p \in {Missing, Object("one"), List(<<>>)}}

MCToolChoices == {Missing, Text(<<"none">>), Text(<<"auto">>), Object("f"), Object("")}

MCArgumentValues == {Missing, Null, Text(<<>>), Text(<<"a">>), Object("one")}

\* Who is told that a request failed is told the same of the same fault, whether the error of a
\* call or the result of a run brought it, in an answer or in a stream (bridge_errors.go:43).
FaultsAreTold ==
  \A r \in Requests : req[r].told = "error" => EveryFaultIsTold

\* An agent that is there has the tools and the parameters the client meant, and the next
\* request that means the same finds it again (executor.go:242).
CallsAreMeant ==
  \A r \in Requests : bridge[r].agent # "none" => RequestsAreMeant
=============================================================================
