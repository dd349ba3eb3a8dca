--------------------------- MODULE CommandCodeAuth ---------------------------
(***************************************************************************)
(* auth.go, the weights of register.go, and what commandline.go makes of a *)
(* key, of auth-commandcode: a key has no expiry and no account.           *)
(***************************************************************************)
EXTENDS AuthFile

CONSTANT Digest   \* the first characters of a key's digest, in hexadecimal

apiKeyFromStorage(storage) == FirstText(storage, <<"api_key", "apiKey">>, Blank)

authLabel(storage, name) ==
  FirstText(storage, <<"label", "email">>, IF name = Blank THEN "commandcode" ELSE Stem[name])

weightLookupKeys(storage, name) ==
  <<TextAt(storage, "label"), TextAt(storage, "email"), name, Stem[name]>>

configuredWeight(weights, storage, name) ==
  FirstWeight(weights, weightLookupKeys(storage, name))

attributesWithoutWeight(attributes) == Without(attributes, {"weight"})

applyConfiguredWeight(attributes, weights, storage, name) ==
  LET weight == configuredWeight(weights, storage, name)
  IN  IF weight = None THEN attributes ELSE Over([weight |-> weight], attributes)

resolveProxyURL(storage, fallback) == FirstText(storage, <<"proxy_url">>, fallback)

-----------------------------------------------------------------------------
parseAuth(storage, name, weights, now) ==
  IF TextAt(storage, "type") # "commandcode" THEN Declined
  ELSE IF apiKeyFromStorage(storage) = Blank THEN Refused
  ELSE Accepted([storage    |-> storage,
                 label      |-> authLabel(storage, name),
                 proxy      |-> TextAt(storage, "proxy_url"),
                 disabled   |-> FlagAt(storage, "disabled"),
                 attributes |-> applyConfiguredWeight(<< >>, weights, storage, name),
                 due        |-> now + Renewal])

refreshAuth(storage, attributes, id, weights, now) ==
  IF apiKeyFromStorage(storage) = Blank THEN Refused
  ELSE Accepted([storage    |-> storage,
                 attributes |-> applyConfiguredWeight(attributesWithoutWeight(attributes),
                                                      weights, storage, id),
                 due        |-> now + Renewal])

-----------------------------------------------------------------------------
IsWeight(entry) == entry.whole

normalizeWeights(entries) ==
  IF \/ \E e \in entries : e.key.word = Blank \/ e.weight > MaxWeight
     \/ \E e, d \in entries : e # d /\ e.key.word = d.key.word
  THEN None
  ELSE [k \in {e.key.word : e \in entries} |->
          LET entry == CHOOSE e \in entries : e.key.word = k
          IN  IF entry.weight < 0 THEN 0 ELSE entry.weight]

\* None for a configuration that is refused.
decodeWeights(entries) ==
  IF \A e \in entries : IsWeight(e) THEN normalizeWeights(entries) ELSE None

-----------------------------------------------------------------------------
\* Only these: the email and the label of a file are the operator's.
credentialFields == {"type", "api_key", "apiKey"}

credentialFileName(apiKey) == "commandcode-" \o Digest[apiKey] \o ".json"

\* An entry of the host's list, by the provider it says.
isCommandCodeAuth(content) == TextAt(content, "type") = "commandcode"

\* content: that of the file that is replaced, or of the one the key is in.
importedAuthData(content, name, apiKey, now) ==
  LET kept == Without(IF content = Torn THEN << >> ELSE content, credentialFields)
      storage == Over([type |-> Plain("commandcode"), api_key |-> Plain(apiKey)], kept)
  IN  [storage    |-> storage,
       label      |-> authLabel(storage, name),
       proxy      |-> TextAt(storage, "proxy_url"),
       disabled   |-> FlagAt(storage, "disabled"),
       attributes |-> << >>,
       due        |-> now + Renewal]
=============================================================================
