------------------------- MODULE MCCommandCodeStream -------------------------
(***************************************************************************)
(* Requests, with the classification of what they may fail with, and the   *)
(* images, parameters and tools they may bring.                            *)
(***************************************************************************)
EXTENDS CommandCodeStream, CommandCodeFailures, CommandCodeImages,
        CommandCodeCall

MCStatuses == {400, 401, 402, 403, 404, 408, 413, 422, 429, 500, 502, 503, 504, 529}

MCErrorMessages == {<<>>, <<"m">>, <<"m", "c">>}

\* Who is told that a request failed is told a status, a type and whether to retry that agree
\* (errors.go:38, 93).
FailuresAgree == \A r \in Requests : req[r].told = "error" => FailurePartsAgree

\* A request that is open has gone upstream within the limit, what its images add counted
\* (executor.go:133, upstream.go:89), where its model is answered and with its model, its
\* parameters and its tools.  What its users and assistants said and showed is in it as it is, at
\* the places the client gave it (images.go:71, anthropic.go:155); of a system's messages it has
\* the texts, and of a tool's the text.  Their images are not claimed (ShownAsUsers).
WhatIsAskedIsSent ==
  \A r \in Requests : req[r].body = "open" => ImagesGoWhole /\ RequestsAreFit
=============================================================================
