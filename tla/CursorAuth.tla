----------------------------- MODULE CursorAuth -----------------------------
(***************************************************************************)
(* auth.go, the weights of register.go, and what commandline.go makes of a *)
(* key, of auth-cursor.                                                    *)
(***************************************************************************)
EXTENDS AuthFile

CONSTANT Letters   \* an email's characters, in small letters

apiKeyFromStorage(storage) == FirstText(storage, <<"api_key", "apiKey">>, Blank)

\* A date that does not parse is passed over, as is a number that is not
\* positive.  None is the zero time.
expiryFromStorage(storage) ==
  LET texts == <<"expires_at", "expiresAt">>
      numbers == <<"expires_at_ms", "apiKeyExpiresAtMs">>
      dates == {i \in DOMAIN texts : TextAt(storage, texts[i]) \in DOMAIN Dates}
      stamps == {i \in DOMAIN numbers : NumberAt(storage, numbers[i]) > 0}
  IN  IF dates # {} THEN Dates[TextAt(storage, texts[Min(dates)])]
      ELSE IF stamps # {} THEN NumberAt(storage, numbers[Min(stamps)])
      ELSE None

HasExpired(expiry, now) == expiry # None /\ now >= expiry

refreshDeadline(expiry, now) == IF expiry = None THEN now + Renewal ELSE expiry

authLabel(storage, name) ==
  FirstText(storage, <<"label", "email">>, IF name = Blank THEN "cursor" ELSE Stem[name])

weightLookupKeys(storage, name) ==
  <<TextAt(storage, "email"), name, Stem[name]>>

configuredWeight(weights, storage, name) ==
  FirstWeight(weights, weightLookupKeys(storage, name))

\* The variant keeps the weight of the parse.
attributesWithoutWeight_KeepsAll(attributes) == attributes

attributesWithoutWeight(attributes) == Without(attributes, {"weight"})

applyConfiguredWeight(attributes, weights, storage, name) ==
  LET weight == configuredWeight(weights, storage, name)
  IN  IF weight = None THEN attributes ELSE Over([weight |-> weight], attributes)

resolveProxyURL(storage, fallback) == FirstText(storage, <<"proxy_url">>, fallback)

-----------------------------------------------------------------------------
parseAuth(storage, name, weights, now) ==
  LET expiry == expiryFromStorage(storage)
  IN  IF TextAt(storage, "type") # "cursor" THEN Declined
      ELSE IF apiKeyFromStorage(storage) = Blank \/ HasExpired(expiry, now) THEN Refused
      ELSE Accepted([storage    |-> storage,
                     label      |-> authLabel(storage, name),
                     proxy      |-> TextAt(storage, "proxy_url"),
                     disabled   |-> FlagAt(storage, "disabled"),
                     attributes |-> applyConfiguredWeight(<< >>, weights, storage, name),
                     due        |-> refreshDeadline(expiry, now)])

refreshAuth(storage, attributes, id, weights, now) ==
  LET expiry == expiryFromStorage(storage)
  IN  IF apiKeyFromStorage(storage) = Blank \/ HasExpired(expiry, now) THEN Refused
      ELSE Accepted([storage    |-> storage,
                     attributes |-> applyConfiguredWeight(attributesWithoutWeight(attributes),
                                                          weights, storage, id),
                     due        |-> refreshDeadline(expiry, now)])

-----------------------------------------------------------------------------
\* UnmarshalYAML: a weight that is not an integer fails the configuration.
IsWeight(entry) == entry.whole

\* The variant takes the keys as they were written.
normalizeWeights_KeepsCase(entries) ==
  LET plain == {e \in entries : ~e.key.odd}
  IN  [k \in {e.key.word : e \in plain} |-> (CHOOSE e \in plain : e.key.word = k).weight]

\* entries: the weights of the configuration, as they are written there.
normalizeWeights(entries) ==
  IF \/ \E e \in entries : e.key.word = Blank \/ e.weight > MaxWeight
     \/ \E e, d \in entries : e # d /\ e.key.word = d.key.word
  THEN None
  ELSE [k \in {e.key.word : e \in entries} |->
          LET entry == CHOOSE e \in entries : e.key.word = k
          IN  IF entry.weight < 0 THEN 0 ELSE entry.weight]

\* None for a configuration that is refused.
decodeWeights(entries) ==
  IF \A e \in entries : IsWeight(e) THEN normalizeWeights(entries) ELSE None

-----------------------------------------------------------------------------
\* The variant forgets one spelling of the expiry.
credentialFields_NoExpiry ==
  {"type", "email", "api_key", "apiKey", "expiresAt", "expires_at_ms", "apiKeyExpiresAtMs"}

credentialFields ==
  {"type", "email", "api_key", "apiKey",
   "expires_at", "expiresAt", "expires_at_ms", "apiKeyExpiresAtMs"}

Edges == {"-", "_", "."}
IsSafe(c) == c \in Edges \cup {"a", "b", "c", "x", "1"}

TrimEdges(s) ==
  LET kept == {i \in DOMAIN s : s[i] \notin Edges}
  IN  IF kept = {} THEN << >>
      ELSE SubSeq(s, CHOOSE i \in kept : \A j \in kept : i <= j,
                     CHOOSE i \in kept : \A j \in kept : j <= i)

sanitizeFileComponent(email) ==
  LET joined == [i \in DOMAIN Letters[email] |->
                   IF Letters[email][i] \in {"@", "+"} THEN "-" ELSE Letters[email][i]]
  IN  TrimEdges(SelectSeq(joined, IsSafe))

\* The file a key of this account goes to; a name of the clock's for a key
\* whose account has no email.
fileName(email, now) ==
  LET account == IF email = Blank THEN << >> ELSE sanitizeFileComponent(email)
  IN  IF account = << >> THEN "cursor-" \o ToString(now) \o ".json"
      ELSE "cursor-" \o FoldLeft(LAMBDA word, c : word \o c, Blank, account) \o ".json"

\* What is carried over from the file that is replaced.
existingAuthStorage(content) == IF content = Torn THEN << >> ELSE content

ImportedStorage(content, apiKey, email) ==
  LET kept == Without(existingAuthStorage(content), credentialFields)
      written == [type |-> Plain("cursor"), api_key |-> Plain(apiKey)]
  IN  Over(IF email = Blank THEN written ELSE Over([email |-> Plain(email)], written), kept)

\* The variant starts the record as a new one.
authData_Enabled(content, name, apiKey, email, now) ==
  LET storage == ImportedStorage(content, apiKey, email)
  IN  [storage    |-> storage,
       label      |-> authLabel(storage, name),
       proxy      |-> TextAt(storage, "proxy_url"),
       disabled   |-> FALSE,
       attributes |-> << >>,
       due        |-> refreshDeadline(None, now)]

authData(content, name, apiKey, email, now) ==
  LET storage == ImportedStorage(content, apiKey, email)
  IN  [storage    |-> storage,
       label      |-> authLabel(storage, name),
       proxy      |-> TextAt(storage, "proxy_url"),
       disabled   |-> FlagAt(storage, "disabled"),
       attributes |-> << >>,
       due        |-> refreshDeadline(None, now)]
=============================================================================
