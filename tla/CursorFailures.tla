--------------------------- MODULE CursorFailures ---------------------------
(***************************************************************************)
(* bridge_errors.go: what the host is told of a failed request.            *)
(*                                                                         *)
(* 401 retires a credential, 429 backs it off, 400 blames the request, and *)
(* without a status (0) the credential is cooled.  A stream carries the    *)
(* message only, so what the status says has to be in the text too.        *)
(***************************************************************************)
EXTENDS Naturals, Sequences

CONSTANTS
  Said,        \* what errors, results and status messages may say
  OtherCodes   \* the codes of a run's result that are none of the SDK's

\* SdkErrorCode_value, without the prefix.
SdkCodes ==
  {"UNSPECIFIED", "UNAUTHORIZED", "API_KEY_NOT_FOUND", "PLAN_REQUIRED", "ROLE_FORBIDDEN",
   "FEATURE_UNAVAILABLE", "AGENT_NOT_FOUND", "RUN_NOT_FOUND", "VALIDATION_ERROR",
   "INVALID_MODEL", "INVALID_BRANCH_NAME", "REPOSITORY_REQUIRED", "REPOSITORY_ACCESS",
   "PR_RESOLUTION_FAILED", "USAGE_LIMIT_EXCEEDED", "AGENT_BUSY", "AGENT_ARCHIVED",
   "RUN_NOT_CANCELLABLE", "RATE_LIMIT_EXCEEDED", "UPSTREAM_ERROR", "INTERNAL_ERROR",
   "CLIENT_CANCELLED"}

ConnectCodes ==
  {"canceled", "unknown", "invalid_argument", "deadline_exceeded", "not_found",
   "already_exists", "permission_denied", "resource_exhausted", "failed_precondition",
   "aborted", "out_of_range", "unimplemented", "internal", "unavailable", "data_loss",
   "unauthenticated"}

Nothing == ""   \* a blank text, and what is not there

-----------------------------------------------------------------------------
(* A failure: its status, whether to retry, what it says, and the form of  *)
(* the text: "typed" is a JSON body with a type and a code, "numbered" has *)
(* the status in its first words, "bare" has neither.                      *)

Failure(status, retryable, form, says) ==
  [status |-> status, retryable |-> retryable, form |-> form, says |-> says]

requestFault(code, says) ==
  [status |-> 400, retryable |-> FALSE, form |-> "typed", says |-> says, code |-> code]

upstreamErrorText(status, retryable, says) == Failure(status, retryable, "numbered", says)

FirstSaid(texts) == SelectSeq(texts, LAMBDA t : t # Nothing)[1]

\* An error of a call to the bridge: a Connect code and its text, and the
\* details the bridge attached, if it did.
CallError(connect, text, details) == [connect |-> connect, text |-> text, details |-> details]

\* Details: a code of the SDK, a text, and whether a wait is suggested.
Details(code, text, wait) == [code |-> code, text |-> text, wait |-> wait]
NoDetails == Details(Nothing, Nothing, FALSE)

sdkErrorDetails(err) == err.details

transportMessage(err) ==
  FirstSaid(<<sdkErrorDetails(err).text, err.text, "the error">>)

\* The bridge is alive and cannot reach Cursor: this is nobody's fault.
failureFromTransport(err) ==
  LET says == transportMessage(err)
  IN  CASE err.connect = "unauthenticated"    -> upstreamErrorText(401, FALSE, says)
        [] err.connect = "permission_denied"  -> upstreamErrorText(403, FALSE, says)
        [] err.connect = "resource_exhausted" -> upstreamErrorText(429, TRUE, says)
        [] err.connect \in {"deadline_exceeded", "unavailable"} ->
             Failure(0, TRUE, "bare", says)
        [] OTHER -> Failure(0, FALSE, "bare", "the error")

\* The codes that are the request's fault, and how they are called.
requestFaultCodes ==
  [c \in {"INVALID_MODEL", "PLAN_REQUIRED", "FEATURE_UNAVAILABLE", "VALIDATION_ERROR",
          "INVALID_BRANCH_NAME", "REPOSITORY_REQUIRED", "RUN_NOT_CANCELLABLE",
          "AGENT_NOT_FOUND", "RUN_NOT_FOUND"} |->
     CASE c = "INVALID_MODEL"       -> "model_not_available"
       [] c = "PLAN_REQUIRED"       -> "plan_required"
       [] c = "FEATURE_UNAVAILABLE" -> "feature_unavailable"
       [] OTHER                     -> "validation_error"]

rateLimitText(details) ==
  IF details.wait THEN "with the wait" ELSE FirstSaid(<<details.text, "cursor request failed">>)

failureFromDetails(details) ==
  LET says == FirstSaid(<<details.text, "cursor request failed">>)
  IN  CASE details.code \in DOMAIN requestFaultCodes ->
             requestFault(requestFaultCodes[details.code], says)
        [] details.code \in {"UNAUTHORIZED", "API_KEY_NOT_FOUND"} ->
             upstreamErrorText(401, FALSE, says)
        [] details.code = "ROLE_FORBIDDEN" -> upstreamErrorText(403, FALSE, says)
        [] details.code \in {"RATE_LIMIT_EXCEEDED", "USAGE_LIMIT_EXCEEDED"} ->
             upstreamErrorText(429, details.wait, rateLimitText(details))
        [] OTHER -> Failure(0, details.wait, "bare", says)

\* The variant takes a code that says nothing for a classification.
failureFrom_TrustsDetails(err) ==
  IF sdkErrorDetails(err) # NoDetails THEN failureFromDetails(sdkErrorDetails(err))
  ELSE failureFromTransport(err)

failureFrom(err) ==
  IF sdkErrorDetails(err) # NoDetails /\ sdkErrorDetails(err).code # "UNSPECIFIED"
  THEN failureFromDetails(sdkErrorDetails(err))
  ELSE failureFromTransport(err)

-----------------------------------------------------------------------------
(* The result of a run.  Its error_code is a text: a code of the SDK, with *)
(* the prefix or without, or anything else, or nothing.                    *)

RunResult(code, prefixed) == [code |-> code, prefixed |-> prefixed]

\* statusMessage: the last one of the stream.  A status message outranks what
\* the result says; a status is there always.
runFailureMessage(result, statusMessage) ==
  FirstSaid(<<statusMessage, result.code, "the run's status">>)

\* The texts that blame the model; the other texts there are blame the run.
modelUnavailableMarkers ==
  {"not supported in your region", "not available in your region", "model not available",
   "model is not available", "model not supported", "model is not supported",
   "not available on your plan", "not available for your plan"}

runFailure(says) ==
  requestFault(IF says \in modelUnavailableMarkers THEN "model_not_available" ELSE "run_failed",
               says)

\* The variant looks the code up as the result spells it.
sdkErrorDetailsFromRun_AsSpelled(result, statusMessage) ==
  IF result.prefixed /\ result.code \in SdkCodes \ {"UNSPECIFIED"}
  THEN Details(result.code, runFailureMessage(result, statusMessage), FALSE)
  ELSE NoDetails

\* The prefix is put before a code that has none, and the case is ignored.
sdkErrorDetailsFromRun(result, statusMessage) ==
  IF result.code \in SdkCodes \ {"UNSPECIFIED"}
  THEN Details(result.code, runFailureMessage(result, statusMessage), FALSE)
  ELSE NoDetails

runFailureFromResult(result, statusMessage) ==
  LET details == sdkErrorDetailsFromRun(result, statusMessage)
  IN  IF details # NoDetails THEN failureFromDetails(details)
      ELSE runFailure(runFailureMessage(result, statusMessage))

-----------------------------------------------------------------------------
(* Properties.                                                             *)

CallErrors ==
  {CallError(c, t, d) : c \in ConnectCodes, t \in Said,
                        d \in {NoDetails} \cup {Details(s, u, w) : s \in SdkCodes, u \in Said,
                                                                   w \in BOOLEAN}}

RunResults ==
  {RunResult(c, p) : c \in SdkCodes \cup {Nothing} \cup OtherCodes, p \in BOOLEAN}

\* What a host that has the text of a failure only makes of it.
StatusInText(failure) ==
  CASE failure.form = "typed"    -> 400
    [] failure.form = "numbered" -> failure.status
    [] failure.form = "bare"     -> 0

\* A fault is told in the same way however it arrives.  A code of the SDK has
\* one status, be it in the details of a call, with whatever Connect code, or in
\* a run's result, however that spells it; a key that Cursor rejects is a 401
\* also where the details say nothing; a run that names no fault is the
\* request's; and a stream's text says what the status of a unary answer says
\* (bridge_errors.go:17, 43, 209, 259).
EveryFaultIsTold ==
  /\ \A err \in CallErrors, result \in RunResults, message \in Said :
       err.details.code = result.code /\ result.code \in SdkCodes \ {"UNSPECIFIED"} =>
         failureFrom(err).status = runFailureFromResult(result, message).status
  /\ \A err \in CallErrors :
       /\ err.connect = "unauthenticated" /\ err.details.code \in {Nothing, "UNSPECIFIED"} =>
            failureFrom(err).status = 401
       /\ StatusInText(failureFrom(err)) = failureFrom(err).status
  /\ \A result \in RunResults, message \in Said :
       /\ result.code \notin SdkCodes \ {"UNSPECIFIED"} =>
            runFailureFromResult(result, message).status = 400
       /\ StatusInText(runFailureFromResult(result, message))
            = runFailureFromResult(result, message).status

-----------------------------------------------------------------------------
\* Does not hold; see the README.  A run that fails is the request's fault,
\* unless its result has a code of the credential's or of a quota.
FailedRunsBlameRequest ==
  \A result \in RunResults, message \in Said :
    runFailureFromResult(result, message).status \in {400, 401, 403, 429}
=============================================================================
