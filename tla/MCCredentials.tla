---------------------------- MODULE MCCredentials ----------------------------
(***************************************************************************)
(* An instance: two accounts whose emails make one file name, an account   *)
(* without an email, two keys, and the files an operator may leave.        *)
(***************************************************************************)
EXTENDS Credentials

MCDates == [soon |-> 1]

MCLetters == [x \in {"a+b@x", "a-b@x"} |->
  IF x = "a+b@x" THEN <<"a", "+", "b", "@", "x">> ELSE <<"a", "-", "b", "@", "x">>]

MCKeys == {"k1", "k2", "k3"}
MCEmailOf == [k \in MCKeys |-> CASE k = "k1" -> "a+b@x" [] k = "k2" -> "a-b@x" [] OTHER -> ""]
MCDigest == [k1 |-> "d1", k2 |-> "d2", k3 |-> "d3"]

Stems == {"cursor-a-b-x", "cursor-0", "cursor-1",
          "commandcode-d1", "commandcode-d2", "commandcode-d3", "own"}
MCStem == [n \in {s \o ".json" : s \in Stems} |-> CHOOSE s \in Stems : s \o ".json" = n]
MCNames == DOMAIN MCStem
MCEdited == {"cursor-a-b-x.json", "commandcode-d1.json", "own.json"}

\* An old expiry and a camelCase key beside an api_key; a file of the
\* operator's own, disabled; one with a weight and an email.
Old(type) == [type |-> Text(type, TRUE), api_key |-> Plain("k2"), apiKey |-> Text("k1", TRUE),
              expires_at |-> Plain("soon"), label |-> Plain("home")]
Own(type) == [type |-> Plain(type), apiKey |-> Text("k1", TRUE), disabled |-> TRUE,
              expires_at |-> Plain("someday"), apiKeyExpiresAtMs |-> 1, proxy_url |-> Plain("p")]
Heavy(type) == [type |-> Plain(type), api_key |-> Plain("k1"), email |-> Text("a+b@x", TRUE),
                weight |-> 7]

MCWritten == [p \in {"cursor", "commandcode"} |->
  {Old(p), Own(p), Heavy(p), Torn, [type |-> Plain("other"), api_key |-> Plain("k1")]}]

Entry(key, weight) == [key |-> key, weight |-> weight, whole |-> TRUE]

\* Keys in capitals, a name and a more specific one, a weight below zero, a
\* key written twice, a weight too large, one that is a fraction.
MCConfigs ==
  {{Entry(Text("a+b@x", TRUE), 3), Entry(Plain("own"), 2)},
   {Entry(Text("home", TRUE), -1), Entry(Plain("own.json"), 4)},
   {Entry(Plain("own"), 5), Entry(Text("own", TRUE), 6)},
   {Entry(Plain("own"), 11)},
   {[key |-> Plain("own"), weight |-> 1, whole |-> FALSE]}}
=============================================================================
