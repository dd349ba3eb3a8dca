------------------------- MODULE CommandCodeFailures -------------------------
(***************************************************************************)
(* errors.go of auth-commandcode: what the host is told of a failed        *)
(* request.  A typed failure is a JSON body with a type; a stream carries  *)
(* this text and no status.                                                *)
(***************************************************************************)
EXTENDS Integers, Sequences

CONSTANTS
  Statuses,   \* of an upstream's answers
  ErrorTypes, ErrorCodes, ErrorMessages   \* what its bodies may say

Unknown == ""   \* a text that is blank or missing

ASSUME FailuresAssumption ==
  /\ Statuses \subseteq Nat /\ {400, 502} \subseteq Statuses
  /\ Unknown \in ErrorTypes \cap ErrorCodes
  /\ ErrorMessages # {} /\ \A message \in ErrorMessages : message \in Seq(STRING)

Failure(status, retryable, type, says) ==
  [status |-> status, retryable |-> retryable, type |-> type, says |-> says]

firstNonEmpty(a, b) == IF a # Unknown THEN a ELSE b

defaultErrorType(status) ==
  CASE status = 401 -> "authentication_error"
    [] status = 403 -> "permission_error"
    [] status = 429 -> "rate_limit_error"
    [] status \in {400, 422} -> "invalid_request_error"
    [] status >= 500 -> "server_error"
    [] OTHER -> "invalid_request_error"

\* openaiErrorJSON: the text of a typed failure.
Typed(status, retryable, type, says) ==
  Failure(status, retryable, IF type = Unknown THEN defaultErrorType(status) ELSE type, says)

requestFault == Typed(400, FALSE, "invalid_request_error", <<"what is wrong">>)

\* The variant reports a stream that broke off like a fault of the request.
incompleteStreamError_Final == Typed(502, FALSE, "invalid_request_error", <<"ended early">>)

incompleteStreamError == Typed(502, TRUE, "server_error", <<"ended early">>)

\* The errors of Go on the way to the upstream and back: a failure of one's
\* own, the context's, a timeout of the network, anything else.
failureFrom(kind, classified) ==
  CASE kind = "classified" -> classified
    [] kind = "canceled"   -> Failure(499, FALSE, Unknown, <<"request canceled">>)
    [] kind \in {"deadline", "timeout"} -> Failure(504, TRUE, Unknown, <<"timed out">>)
    [] kind \in {"eof", "other"} -> Failure(0, TRUE, Unknown, <<"the error">>)

-----------------------------------------------------------------------------
(* An upstream's body: "object" has an error object, with a type, a code   *)
(* and a message; "string" has a message in its place; "text" is not JSON. *)

Body(form, type, code, message) ==
  [form |-> form, type |-> type, code |-> code, message |-> message]

parseUpstreamError(body) ==
  IF body.form = "object"
  THEN [code |-> body.code, type |-> firstNonEmpty(body.type, body.code),
        message |-> body.message]
  ELSE [code |-> Unknown, type |-> Unknown, message |-> body.message]

\* A text is a sequence of words; a code that it has already is not added.
messageWithCode(code, message) ==
  IF code = Unknown \/ \E i \in DOMAIN message : message[i] = code THEN message
  ELSE <<code>> \o message

\* The variant calls only the server's failures worth a retry.
classifyHTTPStatus_NoBackoff(status, body) ==
  LET parsed == parseUpstreamError(body)
  IN  Typed(status, status >= 500, parsed.type, messageWithCode(parsed.code, parsed.message))

classifyHTTPStatus(status, body) ==
  LET parsed == parseUpstreamError(body)
      code == IF parsed.code = Unknown /\ status = 403 THEN "upgrade_required" ELSE parsed.code
      message == IF parsed.message = << >> THEN <<"the status in words">> ELSE parsed.message
  IN  Typed(status,
            (status = 429 \/ status >= 500) /\ status \notin {400, 401, 403, 422},
            parsed.type, messageWithCode(code, message))

\* The error event of a stream: it has no status, so it is given one.
StreamError(body) == classifyHTTPStatus(502, body)

\* validateAPIKey: what the login says of it.
LoginSays(failure) ==
  CASE failure.status = 401 -> "invalid key"
    [] failure.status = 403 -> "rejected key"
    [] OTHER -> "unreachable"

-----------------------------------------------------------------------------
(* Properties.                                                             *)

Bodies ==
  {Body(f, t, c, m) : f \in {"object", "string", "text"}, t \in ErrorTypes, c \in ErrorCodes,
                      m \in ErrorMessages}

Classified == {classifyHTTPStatus(s, b) : s \in Statuses, b \in Bodies}

RetryTypes == {"rate_limit_error", "server_error"}

\* A failure's parts agree, wherever it was made.  What the upstream left
\* untyped gets the type that says whether to retry; the failures the plugin
\* makes itself are the ones their status has; and whatever has a status is
\* worth a retry exactly if the status is (errors.go:38, 45, 64, 93, 113).
FailurePartsAgree ==
  /\ \A s \in Statuses, b \in Bodies : parseUpstreamError(b).type = Unknown =>
       LET failure == classifyHTTPStatus(s, b)
       IN  failure.retryable <=> failure.type \in RetryTypes
  /\ \A own \in {requestFault, incompleteStreamError} : \E f \in Classified :
       own.status = f.status /\ own.retryable = f.retryable /\ own.type = f.type
  /\ \A kind \in {"canceled", "deadline", "timeout"} :
       LET failure == failureFrom(kind, Unknown)
       IN  failure.retryable <=> failure.status = 429 \/ failure.status >= 500
  /\ \A b \in Bodies : b.form = "object" /\ b.code # Unknown =>
       \E i \in DOMAIN StreamError(b).says : StreamError(b).says[i] = b.code

-----------------------------------------------------------------------------
\* Does not hold; see the README.  The text of a failure says what its status
\* says.
TextSaysStatus ==
  /\ \A kind \in {"canceled", "deadline", "timeout", "eof", "other"} :
       failureFrom(kind, Unknown).type # Unknown
  /\ \A b \in Bodies : StreamError(b).type \in RetryTypes
=============================================================================
