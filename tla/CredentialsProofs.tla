------------------------- MODULE CredentialsProofs -------------------------
(***************************************************************************)
(* Credentials: that a record the host has under the weights of now has    *)
(* the weight that is meant, and that what a login leaves works and is the *)
(* operator's.                                                             *)
(***************************************************************************)
EXTENDS Credentials, TLAPS

-----------------------------------------------------------------------------
(* What is read of a file.                                                 *)

\* Both plugins read a field alike.
LEMMA SameReadings ==
  ASSUME NEW storage, NEW field
  PROVE  /\ Cursor!TextAt(storage, field) = TextAt(storage, field)
         /\ CommandCode!TextAt(storage, field) = TextAt(storage, field)
         /\ Cursor!FlagAt(storage, field) = FlagAt(storage, field)
         /\ CommandCode!FlagAt(storage, field) = FlagAt(storage, field)
         /\ Cursor!NumberAt(storage, field) = NumberAt(storage, field)
BY DEF Cursor!TextAt, CommandCode!TextAt, TextAt, Cursor!FlagAt, CommandCode!FlagAt, FlagAt,
       Cursor!NumberAt, NumberAt, Cursor!Blank, CommandCode!Blank, Blank

\* A field that is not blank is the first of the fields that start with it.
LEMMA FirstField ==
  ASSUME NEW storage, NEW a, NEW b, NEW default, TextAt(storage, a) # Blank
  PROVE  FirstText(storage, <<a, b>>, default) = TextAt(storage, a)
<1> DEFINE values == [i \in DOMAIN <<a, b>> |-> TextAt(storage, <<a, b>>[i])]
           given == {i \in DOMAIN values : values[i] # Blank}
<1>1. DOMAIN values = 1..2 /\ values[1] = TextAt(storage, a)
  OBVIOUS
<1>2. 1 \in given /\ given \subseteq 1..2
  BY <1>1
<1>3. Min(given) = 1
  <2> HIDE DEF given
  <2>1. \A j \in given : 1 <= j
    BY <1>2
  <2>2. \A i \in given : (\A j \in given : i <= j) => i = 1
    BY <1>2
  <2> QED BY <1>2, <2>1, <2>2 DEF Min
<1>4. FirstText(storage, <<a, b>>, default) = FirstOf(values, default)
  BY DEF FirstText
<1> QED BY <1>1, <1>2, <1>3, <1>4 DEF FirstOf

LEMMA SameKey ==
  ASSUME NEW storage
  PROVE  /\ Cursor!apiKeyFromStorage(storage) = FirstText(storage, <<"api_key", "apiKey">>, Blank)
         /\ CommandCode!apiKeyFromStorage(storage)
              = FirstText(storage, <<"api_key", "apiKey">>, Blank)
BY DEF Cursor!apiKeyFromStorage, CommandCode!apiKeyFromStorage, Cursor!FirstText,
       CommandCode!FirstText, FirstText, Cursor!FirstOf, CommandCode!FirstOf, FirstOf,
       Cursor!TextAt, CommandCode!TextAt, TextAt, Cursor!Blank, CommandCode!Blank, Blank,
       Cursor!Min, CommandCode!Min, Min

LEMMA Laid ==
  ASSUME NEW f, NEW g
  PROVE  /\ DOMAIN Over(f, g) = DOMAIN f \cup DOMAIN g
         /\ \A x \in DOMAIN f : Over(f, g)[x] = f[x]
         /\ \A x \in DOMAIN g \ DOMAIN f : Over(f, g)[x] = g[x]
         /\ Cursor!Over(f, g) = Over(f, g) /\ CommandCode!Over(f, g) = Over(f, g)
BY DEF Over, Cursor!Over, CommandCode!Over

LEMMA LeftOut ==
  ASSUME NEW f, NEW fields
  PROVE  /\ DOMAIN Without(f, fields) = DOMAIN f \ fields
         /\ \A x \in DOMAIN f \ fields : Without(f, fields)[x] = f[x]
         /\ Cursor!Without(f, fields) = Without(f, fields)
         /\ CommandCode!Without(f, fields) = Without(f, fields)
BY DEF Without, Cursor!Without, CommandCode!Without

-----------------------------------------------------------------------------
(* The weight of a credential.                                             *)

Fits(content) == "weight" \in DOMAIN content => content["weight"] \in Int

\* The weights are those of the entries, each of which names another word.
WeightsFit(es, ws) ==
  /\ DOMAIN ws = {e.key.word : e \in es}
  /\ \A e \in es : /\ e.weight \in Int /\ e.weight <= MaxWeight
                   /\ e.key.word # Blank
                   /\ ws[e.key.word] = IF e.weight < 0 THEN 0 ELSE e.weight
  /\ \A e, d \in es : e.key.word = d.key.word => e = d

LEMMA WeightsAreNumbers ==
  ASSUME CredentialsAssumption, NEW es, NEW ws, WeightsFit(es, ws)
  PROVE  \A k \in DOMAIN ws : ws[k] \in 0..MaxWeight
BY DEF WeightsFit, CredentialsAssumption

\* A configuration that is accepted.
LEMMA DecodedFits ==
  ASSUME CredentialsAssumption, NEW es, \A e \in es : e.weight \in Int,
         NEW decoded, decoded # None,
         decoded = Cursor!decodeWeights(es) \/ decoded = CommandCode!decodeWeights(es)
  PROVE  WeightsFit(es, decoded)
<1>1. /\ \A e \in es : e.key.word # Blank /\ ~(e.weight > MaxWeight)
      /\ \A e, d \in es : e.key.word = d.key.word => e = d
      /\ decoded = [k \in {e.key.word : e \in es} |->
                      LET entry == CHOOSE e \in es : e.key.word = k
                      IN  IF entry.weight < 0 THEN 0 ELSE entry.weight]
  BY DEF Cursor!decodeWeights, Cursor!normalizeWeights, Cursor!Blank, Blank,
         CommandCode!decodeWeights, CommandCode!normalizeWeights, CommandCode!Blank
<1>2. DOMAIN decoded = {e.key.word : e \in es}
  BY <1>1
<1>3. ASSUME NEW e \in es
      PROVE  /\ e.weight \in Int /\ e.weight <= MaxWeight /\ e.key.word # Blank
             /\ decoded[e.key.word] = IF e.weight < 0 THEN 0 ELSE e.weight
  <2>1. e.weight \in Int /\ e.weight <= MaxWeight /\ e.key.word # Blank
    BY <1>1 DEF CredentialsAssumption
  <2> DEFINE entry == CHOOSE d \in es : d.key.word = e.key.word
  <2>2. entry = e
    BY <1>1
  <2>3. e.key.word \in {d.key.word : d \in es}
    OBVIOUS
  <2>4. decoded[e.key.word] = IF entry.weight < 0 THEN 0 ELSE entry.weight
    BY <1>1, <2>3
  <2> QED BY <2>1, <2>2, <2>4
<1> QED BY <1>1, <1>2, <1>3 DEF WeightsFit

\* The entries for a word.
EntriesFor(word) == {e \in entries : word # Blank /\ e.key.word = word}

\* What the first of some words that has entries says.
MeantByWords(called) ==
  LET first == {i \in DOMAIN called : /\ EntriesFor(called[i]) # {}
                                      /\ \A j \in 1..(i - 1) : EntriesFor(called[j]) = {}}
  IN  IF first = {} THEN None
      ELSE LET w == (CHOOSE e \in UNION {EntriesFor(called[i]) : i \in first} : TRUE).weight
           IN  IF w < 0 THEN 0 ELSE w

LEMMA WordsAreMeant ==
  ASSUME CredentialsAssumption, WeightsFit(entries, weights),
         NEW N \in 3..4, NEW called, DOMAIN called = 1..N
  PROVE  /\ FirstWeight(weights, called) = MeantByWords(called)
         /\ MeantByWords(called) \in Int \cup {None}
<1> DEFINE named == {i \in DOMAIN called : called[i] # Blank /\ called[i] \in DOMAIN weights}
           first == {i \in DOMAIN called : /\ EntriesFor(called[i]) # {}
                                           /\ \A j \in 1..(i - 1) : EntriesFor(called[j]) = {}}
<1>1. \A word : EntriesFor(word) # {} <=> word # Blank /\ word \in DOMAIN weights
  BY DEF WeightsFit, EntriesFor
<1>2. CASE named = {}
  <2>1. \A i \in DOMAIN called : EntriesFor(called[i]) = {}
    BY <1>1, <1>2
  <2>2. first = {}
    BY <2>1
  <2> QED BY <1>2, <2>2 DEF FirstWeight, MeantByWords
<1>3. CASE named # {}
  <2>1. PICK m \in named : \A i \in named : m <= i
    <3>1. named \subseteq {1, 2, 3, 4}
      OBVIOUS
    <3> HIDE DEF named
    <3>2. CASE 1 \in named
      BY <3>1, <3>2
    <3>3. CASE 1 \notin named /\ 2 \in named
      BY <3>1, <3>3
    <3>4. CASE 1 \notin named /\ 2 \notin named /\ 3 \in named
      BY <3>1, <3>4
    <3>5. CASE named = {4}
      BY <3>5
    <3> QED BY <1>3, <3>1, <3>2, <3>3, <3>4, <3>5
  <2>2. m \in 1..N /\ called[m] # Blank /\ called[m] \in DOMAIN weights
    OBVIOUS
  <2>3. \A j \in 1..(m - 1) : EntriesFor(called[j]) = {}
    <3> SUFFICES ASSUME NEW j \in 1..(m - 1), EntriesFor(called[j]) # {} PROVE FALSE
      OBVIOUS
    <3>1. j \in 1..N
      BY <2>2
    <3>2. j \in named
      BY <1>1, <3>1
    <3> QED BY <2>1, <2>2, <3>2
  <2>4. Min(named) = m
    <3>1. named \subseteq Int
      OBVIOUS
    <3> HIDE DEF named
    <3>2. \A i \in named : (\A j \in named : i <= j) => i = m
      BY <2>1, <3>1
    <3> QED BY <2>1, <3>2 DEF Min
  <2>5. m \in first
    BY <1>1, <2>2, <2>3
  <2>6. ASSUME NEW i \in first PROVE i = m
    <3>1. i \in 1..N /\ i \in named
      BY <1>1
    <3>2. ~(m < i)
      <4> SUFFICES ASSUME m < i PROVE FALSE
        OBVIOUS
      <4>1. m \in 1..(i - 1)
        BY <2>2, <3>1
      <4> QED BY <1>1, <2>2, <4>1
    <3> QED BY <2>1, <2>2, <3>1, <3>2
  <2>7. PICK e \in entries : EntriesFor(called[m]) = {e} /\ e.key.word = called[m]
    BY <2>2 DEF WeightsFit, EntriesFor
  <2>8. first = {m}
    BY <2>5, <2>6
  <2>9. UNION {EntriesFor(called[i]) : i \in first} = {e}
    <3> HIDE DEF first
    <3> QED BY <2>7, <2>8
  <2>10. (CHOOSE d \in UNION {EntriesFor(called[i]) : i \in first} : TRUE) = e
    <3> HIDE DEF first
    <3> QED BY <2>9
  <2>11. MeantByWords(called) = IF e.weight < 0 THEN 0 ELSE e.weight
    <3>1. first # {}
      BY <2>5
    <3> QED BY <3>1, <2>10 DEF MeantByWords
  <2>12. FirstWeight(weights, called) = weights[called[m]]
    BY <1>3, <2>4 DEF FirstWeight
  <2> QED BY <2>7, <2>11, <2>12 DEF WeightsFit
<1> QED BY <1>2, <1>3

\* What a plugin finds in its weights for a file.
Configured(storage, n) ==
  IF plugin = "cursor" THEN Cursor!configuredWeight(weights, storage, n)
  ELSE CommandCode!configuredWeight(weights, storage, n)

LEMMA ConfiguredIsMeant ==
  ASSUME CredentialsAssumption, WeightsFit(entries, weights), NEW storage, NEW n, Fits(storage)
  PROVE  /\ MeantWeight(storage, n) = IF "weight" \in DOMAIN storage THEN storage["weight"]
                                      ELSE Configured(storage, n)
         /\ Configured(storage, n) \in Int \cup {None}
         /\ "weight" \in DOMAIN storage => MeantWeight(storage, n) # None
<1> DEFINE three == <<TextAt(storage, "email"), n, Stem[n]>>
           four == <<TextAt(storage, "label"), TextAt(storage, "email"), n, Stem[n]>>
           called == IF plugin = "cursor" THEN three ELSE four
<1>1. DOMAIN three = 1..3 /\ DOMAIN four = 1..4
  OBVIOUS
<1>2. /\ Cursor!configuredWeight(weights, storage, n) = FirstWeight(weights, three)
      /\ CommandCode!configuredWeight(weights, storage, n) = FirstWeight(weights, four)
  BY DEF Cursor!configuredWeight, CommandCode!configuredWeight, Cursor!weightLookupKeys,
         CommandCode!weightLookupKeys, Cursor!FirstWeight, CommandCode!FirstWeight, FirstWeight,
         Cursor!TextAt, CommandCode!TextAt, TextAt, Cursor!Blank, CommandCode!Blank, Blank,
         Cursor!Min, CommandCode!Min, Min
<1>3. Configured(storage, n) = FirstWeight(weights, called)
  BY <1>2 DEF Configured
<1>4. PICK N \in 3..4 : DOMAIN called = 1..N
  BY <1>1
<1>5. /\ FirstWeight(weights, called) = MeantByWords(called)
      /\ MeantByWords(called) \in Int \cup {None}
  <2> HIDE DEF called
  <2> QED BY <1>4, WordsAreMeant
<1>6. MeantWeight(storage, n) = IF "weight" \in DOMAIN storage THEN storage["weight"]
                                ELSE MeantByWords(called)
  BY DEF MeantWeight, MeantByWords, EntriesFor
<1> QED BY <1>3, <1>5, <1>6 DEF Fits, CredentialsAssumption

-----------------------------------------------------------------------------
(* The inductive invariant.                                                *)

Weighted(attributes, storage, n) ==
  LET meant == MeantWeight(storage, n)
  IN  IF meant = None THEN "weight" \notin DOMAIN attributes
      ELSE "weight" \in DOMAIN attributes /\ attributes["weight"] = meant

HostedFits(n) ==
  hosted[n] # None =>
    /\ {"auth", "current"} \subseteq DOMAIN hosted[n]
    /\ hosted[n].current \in BOOLEAN
    /\ {"storage", "attributes", "due"} \subseteq DOMAIN hosted[n].auth
    /\ "path" \in DOMAIN hosted[n].auth.attributes
    /\ Fits(hosted[n].auth.storage)
    /\ hosted[n].current => Weighted(hosted[n].auth.attributes, hosted[n].auth.storage, n)

HostInv ==
  /\ plugin \in {"cursor", "commandcode"}
  /\ now \in 0..MaxTime
  /\ DOMAIN files = Names /\ \A n \in Names : Fits(files[n])
  /\ entries \in Configs \cup {{}} /\ WeightsFit(entries, weights)
  /\ DOMAIN hosted = Names /\ \A n \in Names : HostedFits(n)

\* Contents with this key, that are accepted at any time.
Expiries == {"expires_at", "expiresAt", "expires_at_ms", "apiKeyExpiresAtMs"}

Works(content, key) ==
  /\ TextAt(content, "type") = plugin
  /\ TextAt(content, "api_key") = key
  /\ plugin = "cursor" => DOMAIN content \cap Expiries = {}

\* What the host makes of what the login hands it.
Saved(auth) == Over([disabled |-> auth.disabled], auth.storage)

LoginFits ==
  /\ DOMAIN login = DOMAIN NoLogin
  /\ login.pc \in {"none", "validating", "reading", "listing", "getting", "listing again",
                   "searching", "saving"}
  /\ login.pc # "none" => login.key \in Keys
  /\ login.pc = "reading" => plugin = "cursor" /\ login.email = EmailOf[login.key]
  /\ login.pc \in {"listing", "getting", "listing again", "searching"} =>
       plugin = "commandcode" /\ login.name = CommandCode!credentialFileName(login.key)
  /\ login.pc \in {"validating", "listing", "getting"} => login.base = << >>
  /\ Fits(login.base)
  /\ login.pc = "saving" =>
       /\ {"storage", "disabled"} \subseteq DOMAIN login.auth
       /\ login.name \in Names
       /\ Fits(login.auth.storage)
       /\ Works(login.auth.storage, login.key)

ImportedInv ==
  /\ imported \in [Names -> Keys \cup {None}]
  /\ \A n \in Names : imported[n] # None => Works(files[n], imported[n])

\* Files of this plugin with the key.
KeyFiles(key) ==
  {n \in Names : CommandCode!isCommandCodeAuth(files[n])
                 /\ CommandCode!apiKeyFromStorage(files[n]) = key}

\* Nothing was missed, and nobody wrote meanwhile.
Undisturbed == login.read /\ login.touched = {}

\* What the login has of the file that it will replace.
HasItsFile ==
  \/ login.base = files[login.name]
  \/ login.base = << >> /\ ~CommandCode!isCommandCodeAuth(files[login.name])

ReplaceInv ==
  Undisturbed =>
    /\ login.pc \in {"listing again", "searching"} => HasItsFile
    /\ login.pc = "searching" => /\ KeyFiles(login.key) \subseteq login.left
                                 /\ login.left \subseteq CommandCodeFiles
    /\ login.pc = "saving" =>
         /\ IsItsOwn(files[login.name]) => SameSettings(files[login.name], Saved(login.auth))
         /\ plugin = "commandcode" /\ KeyFiles(login.key) # {} => login.name \in KeyFiles(login.key)

CredentialsInv == HostInv /\ LoginFits /\ ImportedInv /\ ReplaceInv

-----------------------------------------------------------------------------
(* What a parse and a refresh tell the host.                               *)

\* The attributes with the weight of now, if there is one.
Applied(attributes, storage, n) ==
  IF Configured(storage, n) = None THEN attributes
  ELSE Over([weight |-> Configured(storage, n)], attributes)

LEMMA AppliedBoth ==
  ASSUME NEW attributes, NEW storage, NEW n
  PROVE  /\ plugin = "cursor" =>
              Cursor!applyConfiguredWeight(attributes, weights, storage, n)
                = Applied(attributes, storage, n)
         /\ plugin # "cursor" =>
              CommandCode!applyConfiguredWeight(attributes, weights, storage, n)
                = Applied(attributes, storage, n)
BY DEF Applied, Configured, Cursor!applyConfiguredWeight, CommandCode!applyConfiguredWeight,
       Cursor!Over, CommandCode!Over, Over

LEMMA ParsedGives ==
  ASSUME NEW storage, NEW n, Parsed(storage, n).told = "accepted"
  PROVE  LET auth == Parsed(storage, n).auth
         IN  /\ {"storage", "attributes", "due"} \subseteq DOMAIN auth
             /\ auth.storage = storage
             /\ auth.attributes = Applied(<< >>, storage, n)
<1>1. CASE plugin = "cursor"
  <2>1. Parsed(storage, n) = Cursor!parseAuth(storage, n, weights, now)
    BY <1>1 DEF Parsed
  <2>2. Parsed(storage, n) =
          [told |-> "accepted", auth |->
            [storage    |-> storage,
             label      |-> Cursor!authLabel(storage, n),
             proxy      |-> Cursor!TextAt(storage, "proxy_url"),
             disabled   |-> Cursor!FlagAt(storage, "disabled"),
             attributes |-> Cursor!applyConfiguredWeight(<< >>, weights, storage, n),
             due        |-> Cursor!refreshDeadline(Cursor!expiryFromStorage(storage), now)]]
    BY <2>1 DEF Cursor!parseAuth, Cursor!Declined, Cursor!Refused, Cursor!Accepted
  <2> QED BY <1>1, <2>2, AppliedBoth
<1>2. CASE plugin # "cursor"
  <2>1. Parsed(storage, n) = CommandCode!parseAuth(storage, n, weights, now)
    BY <1>2 DEF Parsed
  <2>2. Parsed(storage, n) =
          [told |-> "accepted", auth |->
            [storage    |-> storage,
             label      |-> CommandCode!authLabel(storage, n),
             proxy      |-> CommandCode!TextAt(storage, "proxy_url"),
             disabled   |-> CommandCode!FlagAt(storage, "disabled"),
             attributes |-> CommandCode!applyConfiguredWeight(<< >>, weights, storage, n),
             due        |-> now + Renewal]]
    BY <2>1 DEF CommandCode!parseAuth, CommandCode!Declined, CommandCode!Refused,
                CommandCode!Accepted
  <2> QED BY <1>2, <2>2, AppliedBoth
<1> QED BY <1>1, <1>2

LEMMA RefreshedGives ==
  ASSUME NEW storage, NEW attributes, NEW n, NEW told, told.told = "accepted",
         told = IF plugin = "cursor"
                THEN Cursor!refreshAuth(storage, attributes, n, weights, now)
                ELSE CommandCode!refreshAuth(storage, attributes, n, weights, now)
  PROVE  told.auth.attributes = Applied(Without(attributes, {"weight"}), storage, n)
<1>1. CASE plugin = "cursor"
  <2>1. told =
          [told |-> "accepted", auth |->
            [storage    |-> storage,
             attributes |-> Cursor!applyConfiguredWeight(Cursor!attributesWithoutWeight(attributes),
                                                         weights, storage, n),
             due        |-> Cursor!refreshDeadline(Cursor!expiryFromStorage(storage), now)]]
    BY <1>1 DEF Cursor!refreshAuth, Cursor!Refused, Cursor!Accepted
  <2>2. Cursor!attributesWithoutWeight(attributes) = Without(attributes, {"weight"})
    BY LeftOut DEF Cursor!attributesWithoutWeight
  <2> QED BY <1>1, <2>1, <2>2, AppliedBoth
<1>2. CASE plugin # "cursor"
  <2>1. told =
          [told |-> "accepted", auth |->
            [storage    |-> storage,
             attributes |-> CommandCode!applyConfiguredWeight(
                              CommandCode!attributesWithoutWeight(attributes), weights, storage, n),
             due        |-> now + Renewal]]
    BY <1>2 DEF CommandCode!refreshAuth, CommandCode!Refused, CommandCode!Accepted
  <2>2. CommandCode!attributesWithoutWeight(attributes) = Without(attributes, {"weight"})
    BY LeftOut DEF CommandCode!attributesWithoutWeight
  <2> QED BY <1>2, <2>1, <2>2, AppliedBoth
<1> QED BY <1>1, <1>2

\* With them, and what the host adds, the record has the weight that is meant.
LEMMA TakenIsWeighted ==
  ASSUME CredentialsAssumption, WeightsFit(entries, weights),
         NEW storage, NEW n, Fits(storage), NEW base, "weight" \notin DOMAIN base
  PROVE  LET attributes == HostTakes(Applied(base, storage, n), storage, n)
         IN  "path" \in DOMAIN attributes /\ Weighted(attributes, storage, n)
<1> DEFINE applied == Applied(base, storage, n)
           own == Over([path |-> n], applied)
           taken == HostTakes(applied, storage, n)
<1>1. /\ "path" \in DOMAIN own
      /\ "weight" \in DOMAIN own <=> "weight" \in DOMAIN applied
      /\ "weight" \in DOMAIN applied => own["weight"] = applied["weight"]
  <2> HIDE DEF applied, own
  <2>1. own = Over([path |-> n], applied)
    BY DEF own
  <2> QED BY <2>1 DEF Over
<1>2. /\ "weight" \in DOMAIN applied <=> Configured(storage, n) # None
      /\ "weight" \in DOMAIN applied => applied["weight"] = Configured(storage, n)
  <2> DEFINE weight == Configured(storage, n)
  <2>1. applied = IF weight = None THEN base ELSE Over([weight |-> weight], base)
    BY DEF Applied
  <2> HIDE DEF applied, weight
  <2>2. /\ "weight" \in DOMAIN applied <=> weight # None
        /\ "weight" \in DOMAIN applied => applied["weight"] = weight
    BY <2>1 DEF Over
  <2> QED BY <2>2 DEF weight
<1>3. CASE "weight" \in DOMAIN storage
  <2>1. taken = Over([weight |-> storage["weight"]], own)
    BY <1>3 DEF HostTakes
  <2>2. /\ "path" \in DOMAIN taken /\ "weight" \in DOMAIN taken
        /\ taken["weight"] = storage["weight"]
    <3> HIDE DEF own, taken
    <3> QED BY <1>1, <2>1 DEF Over
  <2> HIDE DEF taken
  <2>3. MeantWeight(storage, n) = storage["weight"] /\ MeantWeight(storage, n) # None
    BY <1>3, ConfiguredIsMeant
  <2>4. "path" \in DOMAIN taken /\ Weighted(taken, storage, n)
    BY <2>2, <2>3 DEF Weighted
  <2> QED BY <2>4 DEF taken
<1>4. CASE "weight" \notin DOMAIN storage
  <2>1. taken = own
    BY <1>4 DEF HostTakes
  <2>2. MeantWeight(storage, n) = Configured(storage, n)
    BY <1>4, ConfiguredIsMeant
  <2> HIDE DEF taken, own, applied
  <2>3. "path" \in DOMAIN taken /\ Weighted(taken, storage, n)
    BY <1>1, <1>2, <2>1, <2>2 DEF Weighted
  <2> QED BY <2>3 DEF taken, applied
<1> QED BY <1>3, <1>4

-----------------------------------------------------------------------------
(* What a login makes of a file.                                           *)

\* Contents with a key and without an expiry are accepted.
LEMMA WorkingIsAccepted ==
  ASSUME CredentialsAssumption, plugin \in {"cursor", "commandcode"},
         NEW content, NEW key \in Keys, NEW n, Works(content, key)
  PROVE  Parsed(content, n).told = "accepted" /\ KeyIn(content) = key
<1>1. key # Blank
  BY DEF CredentialsAssumption
<1>2. FirstText(content, <<"api_key", "apiKey">>, Blank) = key
  BY <1>1, FirstField DEF Works
<1>3. KeyIn(content) = key
  BY <1>2, SameKey DEF KeyIn
<1>4. CASE plugin = "cursor"
  <2>1. \A f \in Expiries : f \notin DOMAIN content
    BY <1>4 DEF Works
  <2>2. /\ \A f \in Expiries : Cursor!TextAt(content, f) = Blank
        /\ \A f \in Expiries : Cursor!NumberAt(content, f) = 0
    BY <2>1 DEF Cursor!TextAt, Cursor!NumberAt, Cursor!Blank, Blank
  <2>3. Cursor!expiryFromStorage(content) = None
    <3> DEFINE texts == <<"expires_at", "expiresAt">>
               numbers == <<"expires_at_ms", "apiKeyExpiresAtMs">>
    <3>1. \A i \in DOMAIN texts : Cursor!TextAt(content, texts[i]) = Blank
      BY <2>2 DEF Expiries
    <3>2. \A i \in DOMAIN numbers : Cursor!NumberAt(content, numbers[i]) = 0
      BY <2>2 DEF Expiries
    <3>3. /\ {i \in DOMAIN texts : Cursor!TextAt(content, texts[i]) \in DOMAIN Dates} = {}
          /\ {i \in DOMAIN numbers : Cursor!NumberAt(content, numbers[i]) > 0} = {}
      <4> HIDE DEF texts, numbers
      <4> QED BY <3>1, <3>2 DEF CredentialsAssumption
    <3> QED BY <3>3 DEF Cursor!expiryFromStorage
  <2>4. ~Cursor!HasExpired(Cursor!expiryFromStorage(content), now)
    BY <2>3 DEF Cursor!HasExpired
  <2>5. /\ Cursor!TextAt(content, "type") = "cursor"
        /\ Cursor!apiKeyFromStorage(content) # Cursor!Blank
    BY <1>1, <1>2, <1>4, SameReadings, SameKey DEF Works, Cursor!Blank, Blank
  <2>6. Cursor!parseAuth(content, n, weights, now).told = "accepted"
    BY <2>4, <2>5 DEF Cursor!parseAuth, Cursor!Accepted
  <2> QED BY <1>3, <1>4, <2>6 DEF Parsed
<1>5. CASE plugin = "commandcode"
  <2>1. /\ CommandCode!TextAt(content, "type") = "commandcode"
        /\ CommandCode!apiKeyFromStorage(content) # CommandCode!Blank
    BY <1>1, <1>2, <1>5, SameReadings, SameKey DEF Works, CommandCode!Blank, Blank
  <2>2. CommandCode!parseAuth(content, n, weights, now).told = "accepted"
    BY <2>1 DEF CommandCode!parseAuth, CommandCode!Accepted
  <2> QED BY <1>3, <1>5, <2>2 DEF Parsed
<1> QED BY <1>4, <1>5

LEMMA AbsentIsNot == ~CommandCode!isCommandCodeAuth(Absent)
<1>1. "type" \notin DOMAIN Absent
  BY DEF Absent
<1>2. TextAt(Absent, "type") = ""
  BY <1>1 DEF TextAt, Blank
<1> QED BY <1>2, SameReadings DEF CommandCode!isCommandCodeAuth

LEMMA HoldersAre ==
  ASSUME plugin = "commandcode", NEW key
  PROVE  Holders(key) \subseteq KeyFiles(key) /\ KeyFiles(key) \subseteq Holders(key)
<1>1. ASSUME NEW n \in Names
      PROVE  /\ Parsed(files[n], n).told # "declined" <=> CommandCode!isCommandCodeAuth(files[n])
             /\ KeyIn(files[n]) = CommandCode!apiKeyFromStorage(files[n])
  BY DEF Parsed, KeyIn, CommandCode!parseAuth, CommandCode!isCommandCodeAuth,
         CommandCode!Accepted, CommandCode!Declined, CommandCode!Refused
<1> QED BY <1>1, AbsentIsNot DEF Holders, KeyFiles, Present

\* The operator's fields of a file.
Settings == {"label", "proxy_url", "weight", "disabled"}
              \cup (IF plugin = "cursor" THEN {} ELSE {"email"})

Keeps(content, storage) ==
  \A f \in Settings : /\ f \in DOMAIN storage <=> f \in DOMAIN content
                      /\ f \in DOMAIN content => storage[f] = content[f]

LEMMA KeepsSettings ==
  ASSUME NEW content, NEW auth, Keeps(content, auth.storage),
         auth.disabled = FlagAt(auth.storage, "disabled")
  PROVE  SameSettings(content, Saved(auth))
<1> DEFINE storage == auth.storage
           saved == Saved(auth)
<1>1. /\ \A f \in Settings \ {"disabled"} : f \in DOMAIN saved <=> f \in DOMAIN storage
      /\ \A f \in Settings \ {"disabled"} : f \in DOMAIN storage => saved[f] = storage[f]
      /\ "disabled" \in DOMAIN saved /\ saved["disabled"] = auth.disabled
  <2> DEFINE disabled == auth.disabled
  <2>1. saved = Over([disabled |-> disabled], storage)
    BY DEF Saved
  <2> HIDE DEF saved, storage, disabled
  <2>2. /\ \A f \in Settings \ {"disabled"} : f \in DOMAIN saved <=> f \in DOMAIN storage
        /\ \A f \in Settings \ {"disabled"} : f \in DOMAIN storage => saved[f] = storage[f]
        /\ "disabled" \in DOMAIN saved /\ saved["disabled"] = disabled
    BY <2>1 DEF Over
  <2> QED BY <2>2 DEF disabled
<1>2. ASSUME NEW f \in Settings \ {"disabled"}
      PROVE  TextAt(saved, f) = TextAt(content, f) /\ NumberAt(saved, f) = NumberAt(content, f)
  <2> HIDE DEF saved
  <2> QED BY <1>1 DEF Keeps, TextAt, NumberAt
<1>3. FlagAt(saved, "disabled") = FlagAt(content, "disabled")
  <2>1. "disabled" \in Settings
    BY DEF Settings
  <2>2. FlagAt(storage, "disabled") = FlagAt(content, "disabled")
    BY <2>1 DEF Keeps, FlagAt
  <2>3. auth.disabled = FlagAt(storage, "disabled")
    OBVIOUS
  <2> HIDE DEF saved, storage
  <2>4. FlagAt(saved, "disabled") = auth.disabled
    BY <1>1, <2>3 DEF FlagAt
  <2> QED BY <2>2, <2>3, <2>4
<1>4. {"label", "proxy_url"} \cup (IF plugin = "cursor" THEN {} ELSE {"email"})
        \subseteq Settings \ {"disabled"} /\ "weight" \in Settings \ {"disabled"}
  BY DEF Settings
<1> HIDE DEF saved
<1>5. SameSettings(content, saved)
  BY <1>2, <1>3, <1>4 DEF SameSettings
<1> QED BY <1>5 DEF saved

\* What is laid over what is kept of a file.
LEMMA LaidOverKept ==
  ASSUME NEW content, NEW base, base = content \/ (base = << >> /\ content \in {Absent, Torn}),
         NEW fields, fields \cap Settings = {},
         NEW written, DOMAIN written \subseteq fields,
         NEW storage, storage = Over(written, Without(base, fields))
  PROVE  Keeps(content, storage)
<1>1. content \in {Absent, Torn} /\ base = << >> =>
        \A f \in Settings : f \notin DOMAIN content /\ f \notin DOMAIN base
  BY DEF Settings, Absent, Torn
<1>2. ASSUME NEW f \in Settings
      PROVE  /\ f \in DOMAIN storage <=> f \in DOMAIN base
             /\ f \in DOMAIN base => storage[f] = base[f]
  BY DEF Over, Without
<1> QED BY <1>1, <1>2 DEF Keeps

LEMMA CursorImport ==
  ASSUME plugin = "cursor", NEW base, Fits(base), NEW n, NEW key, NEW email,
         NEW auth, auth = Cursor!authData(base, n, key, email, now)
  PROVE  /\ {"storage", "disabled"} \subseteq DOMAIN auth
         /\ Fits(auth.storage) /\ Works(auth.storage, key)
         /\ \A content : base = content \/ (base = << >> /\ content = Absent) =>
              SameSettings(content, Saved(auth))
<1> DEFINE existing == IF base = Torn THEN << >> ELSE base
           written == [type |-> Plain("cursor"), api_key |-> Plain(key)]
           laid == IF email = Blank THEN written ELSE Over([email |-> Plain(email)], written)
           fields == {"type", "email", "api_key", "apiKey",
                      "expires_at", "expiresAt", "expires_at_ms", "apiKeyExpiresAtMs"}
           storage == Over(laid, Without(existing, fields))
<1>1. Cursor!ImportedStorage(base, key, email) = storage
  BY DEF Cursor!ImportedStorage, Cursor!existingAuthStorage, Cursor!Without, Without, Cursor!Over,
         Over, Cursor!credentialFields, Cursor!Plain, Plain, Cursor!Text, Text, Cursor!Blank, Blank,
         Cursor!Torn, Torn
<1>2. /\ {"storage", "disabled"} \subseteq DOMAIN auth
      /\ auth.storage = storage /\ auth.disabled = FlagAt(storage, "disabled")
  <2>1. auth = [storage    |-> Cursor!ImportedStorage(base, key, email),
                label      |-> Cursor!authLabel(Cursor!ImportedStorage(base, key, email), n),
                proxy      |-> Cursor!TextAt(Cursor!ImportedStorage(base, key, email), "proxy_url"),
                disabled   |-> Cursor!FlagAt(Cursor!ImportedStorage(base, key, email), "disabled"),
                attributes |-> << >>,
                due        |-> Cursor!refreshDeadline(None, now)]
    BY DEF Cursor!authData
  <2> HIDE DEF storage
  <2> QED BY <1>1, <2>1, SameReadings
<1>3. /\ DOMAIN laid \subseteq fields \cap {"type", "api_key", "email"}
      /\ {"type", "api_key"} \subseteq DOMAIN laid
      /\ laid["type"].word = "cursor" /\ laid["api_key"].word = key
  <2>1. /\ DOMAIN written = {"type", "api_key"}
        /\ written["type"].word = "cursor" /\ written["api_key"].word = key
    BY DEF Plain, Text
  <2>2. DOMAIN [email |-> Plain(email)] = {"email"}
    OBVIOUS
  <2> HIDE DEF written
  <2> QED BY <2>1, <2>2 DEF Over
<1>4. /\ DOMAIN storage = DOMAIN laid \cup (DOMAIN existing \ fields)
      /\ \A f \in DOMAIN laid : storage[f] = laid[f]
      /\ \A f \in DOMAIN existing \ fields : f \notin DOMAIN laid => storage[f] = existing[f]
  <2> HIDE DEF laid, existing, fields
  <2> QED BY DEF Over, Without
<1>5. Fits(storage)
  <2>1. Fits(existing)
    BY DEF Fits
  <2>2. "weight" \notin DOMAIN laid
    BY <1>3
  <2> HIDE DEF storage, laid, existing, fields
  <2> QED BY <1>4, <2>1, <2>2 DEF Fits
<1>6. Works(storage, key)
  <2>1. DOMAIN storage \cap Expiries = {}
    <3>1. Expiries \subseteq fields /\ Expiries \cap {"type", "api_key", "email"} = {}
      BY DEF Expiries
    <3> HIDE DEF storage, laid, existing, fields
    <3> QED BY <1>3, <1>4, <3>1
  <2> HIDE DEF storage, laid, existing, fields
  <2> QED BY <1>3, <1>4, <2>1 DEF Works, TextAt
<1>7. ASSUME NEW content, base = content \/ (base = << >> /\ content = Absent)
      PROVE  Keeps(content, storage)
  <2>1. existing = content \/ (existing = << >> /\ content \in {Absent, Torn})
    <3>1. CASE base = Torn /\ base = content
      BY <3>1
    <3>2. CASE base = Torn /\ base = << >>
      BY <1>7, <3>2
    <3>3. CASE base # Torn
      BY <1>7, <3>3
    <3> QED BY <1>7, <3>1, <3>2, <3>3
  <2>2. fields \cap Settings = {}
    BY DEF Settings
  <2>3. DOMAIN laid \subseteq fields
    BY <1>3
  <2> HIDE DEF laid, existing, fields
  <2> QED BY <2>1, <2>2, <2>3, LaidOverKept
<1>8. \A content : base = content \/ (base = << >> /\ content = Absent) =>
        SameSettings(content, Saved(auth))
  <2> HIDE DEF storage
  <2> QED BY <1>2, <1>7, KeepsSettings
<1> HIDE DEF storage
<1> QED BY <1>2, <1>5, <1>6, <1>8

LEMMA CommandCodeImport ==
  ASSUME plugin = "commandcode", NEW base, Fits(base), NEW n, NEW key,
         NEW auth, auth = CommandCode!importedAuthData(base, n, key, now)
  PROVE  /\ {"storage", "disabled"} \subseteq DOMAIN auth
         /\ Fits(auth.storage) /\ Works(auth.storage, key)
         /\ \A content : base = content \/ (base = << >> /\ content = Absent) =>
              SameSettings(content, Saved(auth))
<1> DEFINE existing == IF base = Torn THEN << >> ELSE base
           laid == [type |-> Plain("commandcode"), api_key |-> Plain(key)]
           fields == {"type", "api_key", "apiKey"}
           storage == Over(laid, Without(existing, fields))
<1>1. /\ {"storage", "disabled"} \subseteq DOMAIN auth
      /\ auth.storage = storage /\ auth.disabled = FlagAt(storage, "disabled")
  <2> DEFINE stored == CommandCode!Over([type |-> CommandCode!Plain("commandcode"),
                                         api_key |-> CommandCode!Plain(key)],
                         CommandCode!Without(IF base = CommandCode!Torn THEN << >> ELSE base,
                                             CommandCode!credentialFields))
  <2>1. stored = storage
    BY DEF CommandCode!Without, Without, CommandCode!Over, Over, CommandCode!credentialFields,
           CommandCode!Plain, Plain, CommandCode!Text, Text, CommandCode!Torn, Torn
  <2>2. auth = [storage    |-> stored,
                label      |-> CommandCode!authLabel(stored, n),
                proxy      |-> CommandCode!TextAt(stored, "proxy_url"),
                disabled   |-> CommandCode!FlagAt(stored, "disabled"),
                attributes |-> << >>,
                due        |-> now + Renewal]
    BY DEF CommandCode!importedAuthData
  <2> HIDE DEF storage, stored
  <2> QED BY <2>1, <2>2, SameReadings
<1>2. /\ DOMAIN laid = {"type", "api_key"}
      /\ laid["type"].word = "commandcode" /\ laid["api_key"].word = key
  BY DEF Plain, Text
<1>3. /\ DOMAIN storage = DOMAIN laid \cup (DOMAIN existing \ fields)
      /\ \A f \in DOMAIN laid : storage[f] = laid[f]
      /\ \A f \in DOMAIN existing \ fields : f \notin DOMAIN laid => storage[f] = existing[f]
  <2> HIDE DEF laid, existing, fields
  <2> QED BY DEF Over, Without
<1>4. Fits(storage)
  <2>1. Fits(existing)
    BY DEF Fits
  <2>2. "weight" \notin DOMAIN laid
    BY <1>2
  <2> HIDE DEF storage, laid, existing, fields
  <2> QED BY <1>3, <2>1, <2>2 DEF Fits
<1>5. Works(storage, key)
  <2> HIDE DEF storage, laid, existing, fields
  <2> QED BY <1>2, <1>3 DEF Works, TextAt
<1>6. ASSUME NEW content, base = content \/ (base = << >> /\ content = Absent)
      PROVE  Keeps(content, storage)
  <2>1. existing = content \/ (existing = << >> /\ content \in {Absent, Torn})
    BY <1>6
  <2>2. fields \cap Settings = {}
    BY DEF Settings
  <2>3. DOMAIN laid \subseteq fields
    BY <1>2
  <2> HIDE DEF laid, existing, fields
  <2> QED BY <2>1, <2>2, <2>3, LaidOverKept
<1>7. \A content : base = content \/ (base = << >> /\ content = Absent) =>
        SameSettings(content, Saved(auth))
  <2> HIDE DEF storage
  <2> QED BY <1>1, <1>6, KeepsSettings
<1> HIDE DEF storage
<1> QED BY <1>1, <1>4, <1>5, <1>7

\* The host's file is as good as what the login handed it.
LEMMA SavedWorks ==
  ASSUME NEW auth, NEW key, Fits(auth.storage), Works(auth.storage, key)
  PROVE  Fits(Saved(auth)) /\ Works(Saved(auth), key)
<1> DEFINE storage == auth.storage
           disabled == auth.disabled
           saved == Saved(auth)
<1>1. saved = Over([disabled |-> disabled], storage)
  BY DEF Saved
<1>2. Fits(storage) /\ Works(storage, key)
  OBVIOUS
<1> HIDE DEF saved, storage, disabled
<1>3. /\ DOMAIN saved = {"disabled"} \cup DOMAIN storage
      /\ \A f \in DOMAIN storage \ {"disabled"} : saved[f] = storage[f]
  BY <1>1 DEF Over
<1>4. Fits(saved)
  BY <1>2, <1>3 DEF Fits
<1>5. \A f \in {"type", "api_key"} : TextAt(saved, f) = TextAt(storage, f)
  BY <1>3 DEF TextAt
<1>6. Works(saved, key)
  BY <1>2, <1>3, <1>5 DEF Works, Expiries
<1> QED BY <1>4, <1>6 DEF saved

-----------------------------------------------------------------------------
(* The steps.                                                              *)

LEMMA InitHolds ==
  ASSUME CredentialsAssumption, Init
  PROVE  CredentialsInv
<1>1. HostInv
  <2>1. Fits(Absent)
    BY DEF Fits, Absent
  <2>2. WeightsFit({}, << >>)
    <3>1. DOMAIN << >> = {e.key.word : e \in {}}
      OBVIOUS
    <3> QED BY <3>1 DEF WeightsFit
  <2>3. now \in 0..MaxTime
    BY DEF Init, CredentialsAssumption
  <2> QED BY <2>1, <2>2, <2>3 DEF Init, HostInv, HostedFits
<1>2. LoginFits
  BY DEF Init, LoginFits, NoLogin, Fits
<1>3. ImportedInv
  BY DEF Init, ImportedInv
<1>4. ReplaceInv
  BY DEF Init, ReplaceInv, NoLogin
<1> QED BY <1>1, <1>2, <1>3, <1>4 DEF CredentialsInv

LEMMA HostedStays ==
  ASSUME UNCHANGED <<plugin, entries, hosted>>, NEW n
  PROVE  HostedFits(n)' = HostedFits(n)
BY DEF MeantWeight, HostedFits, Weighted

LEMMA ReplaceStays ==
  ASSUME UNCHANGED <<plugin, files, login>>
  PROVE  ReplaceInv' = ReplaceInv
BY DEF ReplaceInv, Undisturbed, HasItsFile, KeyFiles, CommandCodeFiles, IsItsOwn, SameSettings,
       Present

LEMMA LoginStays ==
  ASSUME LoginFits, UNCHANGED <<plugin, login>>
  PROVE  LoginFits'
BY DEF LoginFits, Works, NoLogin

LEMMA ImportedStays ==
  ASSUME ImportedInv, UNCHANGED <<plugin, files, imported>>
  PROVE  ImportedInv'
BY DEF ImportedInv, Works

LEMMA TickHolds ==
  ASSUME CredentialsAssumption, CredentialsInv, Tick
  PROVE  CredentialsInv'
<1>1. HostInv'
  <2>1. (now \in 0..MaxTime)'
    BY DEF Tick, CredentialsInv, HostInv, CredentialsAssumption
  <2>2. \A n \in Names : HostedFits(n)'
    BY HostedStays DEF Tick, CredentialsInv, HostInv
  <2> QED BY <2>1, <2>2 DEF Tick, CredentialsInv, HostInv
<1> QED BY <1>1, LoginStays, ImportedStays, ReplaceStays DEF Tick, CredentialsInv

LEMMA OperatorHolds ==
  ASSUME CredentialsAssumption, CredentialsInv, NEW n \in Names, OperatorWrites(n)
  PROVE  CredentialsInv'
<1>1. PICK c \in Written[plugin] \cup {Absent} : files' = [files EXCEPT ![n] = c]
  BY DEF OperatorWrites
<1>2. Fits(c)
  <2>1. Fits(Absent)
    BY DEF Fits, Absent
  <2> QED BY <2>1 DEF Fits, CredentialsAssumption, CredentialsInv, HostInv
<1>3. HostInv'
  <2>1. \A m \in Names : HostedFits(m)'
    BY HostedStays DEF OperatorWrites, CredentialsInv, HostInv
  <2>2. DOMAIN files' = Names /\ \A m \in Names : Fits(files'[m])
    BY <1>1, <1>2 DEF CredentialsInv, HostInv
  <2> QED BY <2>1, <2>2 DEF OperatorWrites, CredentialsInv, HostInv
<1>4. ImportedInv'
  <2>1. imported' = [imported EXCEPT ![n] = None] /\ plugin' = plugin
    BY DEF OperatorWrites
  <2>2. \A m \in Names : imported'[m] # None => m # n /\ imported'[m] = imported[m]
    BY <2>1 DEF CredentialsInv, ImportedInv
  <2>3. \A m \in Names : m # n => files'[m] = files[m]
    BY <1>1 DEF CredentialsInv, HostInv
  <2>4. \A m \in Names : imported'[m] # None => Works(files[m], imported[m])
    BY <2>2 DEF CredentialsInv, ImportedInv
  <2>5. \A m \in Names : imported'[m] # None => Works(files[m], imported[m])'
    BY <2>1, <2>2, <2>3, <2>4 DEF Works
  <2>6. imported' \in [Names -> Keys \cup {None}]
    BY <2>1 DEF CredentialsInv, ImportedInv
  <2> QED BY <2>5, <2>6 DEF ImportedInv
<1>5. CASE login.pc = "none"
  <2>1. login' = login /\ plugin' = plugin
    BY <1>5 DEF OperatorWrites
  <2>2. LoginFits'
    BY <2>1, LoginStays DEF CredentialsInv
  <2>3. ReplaceInv'
    BY <1>5, <2>1 DEF ReplaceInv
  <2> QED BY <1>3, <1>4, <2>2, <2>3 DEF CredentialsInv
<1>6. CASE login.pc # "none"
  <2>1. login' = [login EXCEPT !.touched = @ \cup {n}] /\ plugin' = plugin
    BY <1>6 DEF OperatorWrites
  <2>2. DOMAIN login = DOMAIN NoLogin /\ "touched" \in DOMAIN login
    BY DEF CredentialsInv, LoginFits, NoLogin
  <2>3. /\ DOMAIN login' = DOMAIN login
        /\ login'.pc = login.pc /\ login'.key = login.key /\ login'.email = login.email
        /\ login'.name = login.name /\ login'.base = login.base /\ login'.auth = login.auth
        /\ n \in login'.touched
    BY <2>1, <2>2 DEF NoLogin
  <2>4. LoginFits'
    BY <2>1, <2>3 DEF CredentialsInv, LoginFits, Works, NoLogin
  <2>5. ReplaceInv'
    BY <2>3 DEF ReplaceInv, Undisturbed
  <2> QED BY <1>3, <1>4, <2>4, <2>5 DEF CredentialsInv
<1> QED BY <1>5, <1>6

\* What the host takes of a parse or a refresh.
LEMMA HostTakesHolds ==
  ASSUME CredentialsAssumption, CredentialsInv, NEW n \in Names,
         NEW record, hosted' = [hosted EXCEPT ![n] = record],
         UNCHANGED <<plugin, files, entries, weights, login, imported, now>>,
         record # None =>
           /\ {"auth", "current"} \subseteq DOMAIN record
           /\ record.current \in BOOLEAN
           /\ {"storage", "attributes", "due"} \subseteq DOMAIN record.auth
           /\ "path" \in DOMAIN record.auth.attributes
           /\ Fits(record.auth.storage)
           /\ Weighted(record.auth.attributes, record.auth.storage, n)
  PROVE  CredentialsInv'
<1>1. DOMAIN hosted' = Names /\ hosted'[n] = record /\ \A m \in Names \ {n} : hosted'[m] = hosted[m]
  BY DEF CredentialsInv, HostInv
<1>2. ASSUME NEW attributes, NEW storage, NEW m
      PROVE  Weighted(attributes, storage, m)' <=> Weighted(attributes, storage, m)
  <2>1. MeantWeight(storage, m)' = MeantWeight(storage, m)
    BY DEF MeantWeight
  <2> QED BY <2>1 DEF Weighted
<1>3. ASSUME NEW m \in Names \ {n} PROVE HostedFits(m)'
  <2>1. HostedFits(m)
    BY DEF CredentialsInv, HostInv
  <2>2. hosted'[m] = hosted[m]
    BY <1>1
  <2> QED BY <2>1, <2>2, <1>2 DEF HostedFits
<1>4. HostedFits(n)'
  BY <1>1, <1>2 DEF HostedFits
<1>5. HostInv'
  BY <1>1, <1>3, <1>4 DEF CredentialsInv, HostInv
<1> QED BY <1>5, LoginStays, ImportedStays, ReplaceStays DEF CredentialsInv

LEMMA LoadHolds ==
  ASSUME CredentialsAssumption, CredentialsInv, NEW n \in Names, HostLoads(n)
  PROVE  CredentialsInv'
<1> DEFINE told == IF files[n] = Absent THEN Declined ELSE Parsed(files[n], n)
           attributes == HostTakes(told.auth.attributes, files[n], n)
           taken == [told.auth EXCEPT !.attributes = HostTakes(@, files[n], n)]
           record == IF told.told # "accepted" THEN None
                     ELSE [auth |-> taken, current |-> TRUE]
<1>1. hosted' = [hosted EXCEPT ![n] = record]
      /\ UNCHANGED <<plugin, files, entries, weights, login, imported, now>>
  BY DEF HostLoads
<1>2. ASSUME record # None
      PROVE  /\ {"auth", "current"} \subseteq DOMAIN record
             /\ record.current \in BOOLEAN
             /\ {"storage", "attributes", "due"} \subseteq DOMAIN record.auth
             /\ "path" \in DOMAIN record.auth.attributes
             /\ Fits(record.auth.storage)
             /\ Weighted(record.auth.attributes, record.auth.storage, n)
  <2>1. told.told = "accepted" /\ record = [auth |-> taken, current |-> TRUE]
    BY <1>2
  <2>2. told = Parsed(files[n], n)
    BY <2>1 DEF Declined
  <2>3. /\ {"storage", "attributes", "due"} \subseteq DOMAIN told.auth
        /\ told.auth.storage = files[n]
        /\ told.auth.attributes = Applied(<< >>, files[n], n)
    <3> HIDE DEF told
    <3> QED BY <2>1, <2>2, ParsedGives
  <2>4. /\ {"storage", "attributes", "due"} \subseteq DOMAIN taken
        /\ taken.storage = files[n] /\ taken.attributes = attributes
    <3> HIDE DEF told
    <3> QED BY <2>3
  <2>5. "path" \in DOMAIN attributes /\ Weighted(attributes, files[n], n) /\ Fits(files[n])
    <3>1. Fits(files[n]) /\ WeightsFit(entries, weights)
      BY DEF CredentialsInv, HostInv
    <3>2. "weight" \notin DOMAIN << >>
      OBVIOUS
    <3> HIDE DEF told
    <3> QED BY <2>3, <3>1, <3>2, TakenIsWeighted
  <2> HIDE DEF taken, attributes, told, record
  <2> QED BY <2>1, <2>4, <2>5
<1> HIDE DEF record
<1> QED BY <1>1, <1>2, HostTakesHolds

LEMMA RefreshHolds ==
  ASSUME CredentialsAssumption, CredentialsInv, NEW n \in Names, HostRefreshes(n)
  PROVE  CredentialsInv'
<1> DEFINE auth == hosted[n].auth
           told == IF plugin = "cursor"
                   THEN Cursor!refreshAuth(auth.storage, auth.attributes, n, weights, now)
                   ELSE CommandCode!refreshAuth(auth.storage, auth.attributes, n, weights, now)
           attributes == HostTakes(told.auth.attributes, auth.storage, n)
           taken == [auth EXCEPT !.attributes = attributes, !.due = told.auth.due]
           record == [auth |-> taken, current |-> TRUE]
<1>1. /\ hosted' = [hosted EXCEPT ![n] = record]
      /\ UNCHANGED <<plugin, files, entries, weights, login, imported, now>>
      /\ hosted[n] # None /\ told.told = "accepted"
  BY DEF HostRefreshes
<1>2. {"storage", "attributes", "due"} \subseteq DOMAIN auth /\ Fits(auth.storage)
  BY <1>1 DEF CredentialsInv, HostInv, HostedFits
<1>3. told.auth.attributes = Applied(Without(auth.attributes, {"weight"}), auth.storage, n)
  <2> HIDE DEF auth
  <2>1. told.told = "accepted"
    BY <1>1
  <2>2. told = IF plugin = "cursor"
               THEN Cursor!refreshAuth(auth.storage, auth.attributes, n, weights, now)
               ELSE CommandCode!refreshAuth(auth.storage, auth.attributes, n, weights, now)
    OBVIOUS
  <2> HIDE DEF told
  <2> QED BY <2>1, <2>2, RefreshedGives
<1>4. "path" \in DOMAIN attributes /\ Weighted(attributes, auth.storage, n)
  <2>1. WeightsFit(entries, weights)
    BY DEF CredentialsInv, HostInv
  <2>2. "weight" \notin DOMAIN Without(auth.attributes, {"weight"})
    BY DEF Without
  <2> HIDE DEF auth, told
  <2> QED BY <1>2, <1>3, <2>1, <2>2, TakenIsWeighted
<1>5. /\ {"storage", "attributes", "due"} \subseteq DOMAIN taken
      /\ taken.storage = auth.storage /\ taken.attributes = attributes
  <2> HIDE DEF auth, told, attributes
  <2> QED BY <1>2
<1>6. /\ {"auth", "current"} \subseteq DOMAIN record
      /\ record.current \in BOOLEAN
      /\ {"storage", "attributes", "due"} \subseteq DOMAIN record.auth
      /\ "path" \in DOMAIN record.auth.attributes
      /\ Fits(record.auth.storage)
      /\ Weighted(record.auth.attributes, record.auth.storage, n)
  <2> HIDE DEF auth, told, attributes, taken
  <2> QED BY <1>2, <1>4, <1>5
<1> HIDE DEF record
<1> QED BY <1>1, <1>6, HostTakesHolds

LEMMA ConfigureHolds ==
  ASSUME CredentialsAssumption, CredentialsInv, Configure
  PROVE  CredentialsInv'
<1> DEFINE Decoded(e) == IF plugin = "cursor" THEN Cursor!decodeWeights(e)
                         ELSE CommandCode!decodeWeights(e)
<1>1. PICK e \in Configs :
        IF Decoded(e) = None THEN UNCHANGED <<entries, weights, hosted>>
        ELSE /\ entries' = e
             /\ weights' = Decoded(e)
             /\ hosted' = [n \in Names |->
                  IF hosted[n] = None THEN None ELSE [hosted[n] EXCEPT !.current = FALSE]]
  BY DEF Configure
<1>2. UNCHANGED <<plugin, files, login, imported, now>>
  BY DEF Configure
<1>3. CASE Decoded(e) = None
  <2>1. UNCHANGED <<entries, weights, hosted>>
    BY <1>1, <1>3
  <2>2. \A n \in Names : HostedFits(n)'
    BY <1>2, <2>1, HostedStays DEF CredentialsInv, HostInv
  <2>3. HostInv'
    BY <1>2, <2>1, <2>2 DEF CredentialsInv, HostInv
  <2> QED BY <1>2, <2>3, LoginStays, ImportedStays, ReplaceStays DEF CredentialsInv
<1>4. CASE Decoded(e) # None
  <2>1. /\ entries' = e /\ weights' = Decoded(e)
        /\ hosted' = [n \in Names |->
                  IF hosted[n] = None THEN None ELSE [hosted[n] EXCEPT !.current = FALSE]]
    BY <1>1, <1>4
  <2>2. WeightsFit(entries', weights')
    <3>1. \A d \in e : d.weight \in Int
      BY DEF CredentialsAssumption
    <3>2. WeightsFit(e, Decoded(e))
      <4>1. Decoded(e) = Cursor!decodeWeights(e) \/ Decoded(e) = CommandCode!decodeWeights(e)
        OBVIOUS
      <4> HIDE DEF Decoded
      <4> QED BY <1>4, <3>1, <4>1, DecodedFits
    <3> QED BY <2>1, <3>2
  <2>3. ASSUME NEW n \in Names PROVE HostedFits(n)'
    <3>1. CASE hosted[n] = None
      <4>1. hosted'[n] = None
        BY <2>1, <3>1
      <4> QED BY <4>1 DEF HostedFits
    <3>2. CASE hosted[n] # None
      <4>1. HostedFits(n)
        BY DEF CredentialsInv, HostInv
      <4>2. hosted'[n] = [hosted[n] EXCEPT !.current = FALSE]
        BY <2>1, <3>2
      <4>3. /\ {"auth", "current"} \subseteq DOMAIN hosted'[n]
            /\ hosted'[n].current = FALSE /\ hosted'[n].auth = hosted[n].auth
        BY <3>2, <4>1, <4>2 DEF HostedFits
      <4> QED BY <3>2, <4>1, <4>3 DEF HostedFits
    <3> QED BY <3>1, <3>2
  <2>4. DOMAIN hosted' = Names /\ entries' \in Configs \cup {{}}
    BY <2>1
  <2>5. HostInv'
    BY <1>2, <2>2, <2>3, <2>4 DEF CredentialsInv, HostInv
  <2> QED BY <1>2, <2>5, LoginStays, ImportedStays, ReplaceStays DEF CredentialsInv
<1> QED BY <1>3, <1>4

-----------------------------------------------------------------------------
(* The steps of a login.                                                   *)

\* Those before the host saves leave what the host and the files have.
LEMMA LoginOnlyHolds ==
  ASSUME CredentialsInv, LoginOnly, LoginFits', ReplaceInv'
  PROVE  CredentialsInv'
<1>1. UNCHANGED <<plugin, files, entries, weights, hosted, imported, now>>
  BY DEF LoginOnly
<1>2. \A n \in Names : HostedFits(n)'
  BY <1>1, HostedStays DEF CredentialsInv, HostInv
<1>3. HostInv'
  BY <1>1, <1>2 DEF CredentialsInv, HostInv
<1> QED BY <1>1, <1>3, ImportedStays DEF CredentialsInv

LEMMA StartHolds ==
  ASSUME CredentialsAssumption, CredentialsInv, StartLogin
  PROVE  CredentialsInv'
<1>1. PICK k \in Keys : login' = [NoLogin EXCEPT !.pc = "validating", !.key = k]
  BY DEF StartLogin
<1>2. /\ DOMAIN login' = DOMAIN NoLogin
      /\ login'.pc = "validating" /\ login'.key = k /\ login'.base = << >>
  BY <1>1 DEF NoLogin
<1>3. LoginFits'
  BY <1>2 DEF LoginFits, Fits, NoLogin
<1>4. ReplaceInv'
  BY <1>2 DEF ReplaceInv
<1> QED BY <1>3, <1>4, LoginOnlyHolds DEF StartLogin

LEMMA ValidatedHolds ==
  ASSUME CredentialsAssumption, CredentialsInv, Validated
  PROVE  CredentialsInv'
<1>1. /\ DOMAIN login = DOMAIN NoLogin /\ login.key \in Keys /\ Fits(login.base)
      /\ plugin \in {"cursor", "commandcode"} /\ plugin' = plugin
  BY DEF Validated, CredentialsInv, LoginFits, HostInv, LoginOnly
<1>2. CASE plugin = "cursor"
  <2>1. login' = [login EXCEPT !.pc = "reading", !.email = EmailOf[login.key]]
    BY <1>2 DEF Validated
  <2>2. /\ DOMAIN login' = DOMAIN NoLogin
        /\ login'.pc = "reading" /\ login'.email = EmailOf[login.key]
        /\ login'.key = login.key /\ login'.base = login.base
    BY <1>1, <2>1 DEF NoLogin
  <2>3. LoginFits'
    BY <1>1, <1>2, <2>2 DEF LoginFits, NoLogin
  <2>4. ReplaceInv'
    BY <2>2 DEF ReplaceInv
  <2> QED BY <2>3, <2>4, LoginOnlyHolds DEF Validated
<1>3. CASE plugin = "commandcode"
  <2>0. login.base = << >>
    BY DEF CredentialsInv, LoginFits, Validated
  <2>1. login' = [login EXCEPT !.pc = "listing",
                               !.name = CommandCode!credentialFileName(login.key)]
    BY <1>3 DEF Validated
  <2>2. /\ DOMAIN login' = DOMAIN NoLogin
        /\ login'.pc = "listing" /\ login'.name = CommandCode!credentialFileName(login.key)
        /\ login'.key = login.key /\ login'.base = login.base
    BY <1>1, <2>1 DEF NoLogin
  <2>3. LoginFits'
    BY <1>1, <1>3, <2>0, <2>2 DEF LoginFits, NoLogin
  <2>4. ReplaceInv'
    BY <2>2 DEF ReplaceInv
  <2> QED BY <2>3, <2>4, LoginOnlyHolds DEF Validated
<1> QED BY <1>1, <1>2, <1>3

LEMMA InvalidHolds ==
  ASSUME CredentialsInv, Invalid
  PROVE  CredentialsInv'
<1>1. login' = NoLogin
  BY DEF Invalid
<1>2. LoginFits' /\ ReplaceInv'
  BY <1>1 DEF LoginFits, ReplaceInv, NoLogin, Fits
<1> QED BY <1>2, LoginOnlyHolds DEF Invalid

LEMMA CursorReadsHolds ==
  ASSUME CredentialsAssumption, CredentialsInv, CursorReads
  PROVE  CredentialsInv'
<1> DEFINE n == Cursor!fileName(login.email, now)
<1>1. PICK readable \in BOOLEAN :
        login' = [login EXCEPT !.pc = "saving", !.name = n, !.read = readable,
                    !.auth = Cursor!authData(
                      IF readable /\ files[n] # Absent THEN files[n] ELSE << >>,
                      n, login.key, login.email, now)]
  BY DEF CursorReads
<1> DEFINE base == IF readable /\ files[n] # Absent THEN files[n] ELSE << >>
           auth == Cursor!authData(base, n, login.key, login.email, now)
<1>2. /\ plugin = "cursor" /\ UNCHANGED <<plugin, files>>
      /\ DOMAIN login = DOMAIN NoLogin /\ login.key \in Keys /\ Fits(login.base)
      /\ login.email = EmailOf[login.key]
  BY DEF CursorReads, LoginOnly, CredentialsInv, LoginFits
<1>3. n \in Names
  BY <1>2 DEF CredentialsAssumption, CredentialsInv, HostInv
<1>4. Fits(base)
  <2>1. Fits(<< >>)
    BY DEF Fits
  <2>2. Fits(files[n])
    BY <1>3 DEF CredentialsInv, HostInv
  <2> QED BY <2>1, <2>2
<1>5. /\ {"storage", "disabled"} \subseteq DOMAIN auth
      /\ Fits(auth.storage) /\ Works(auth.storage, login.key)
      /\ \A content : base = content \/ (base = << >> /\ content = Absent) =>
           SameSettings(content, Saved(auth))
  <2> HIDE DEF base, n
  <2> QED BY <1>2, <1>4, CursorImport
<1>6. /\ DOMAIN login' = DOMAIN NoLogin
      /\ login'.pc = "saving" /\ login'.name = n /\ login'.read = readable
      /\ login'.auth = auth /\ login'.key = login.key /\ login'.base = login.base
  <2>1. login' = [login EXCEPT !.pc = "saving", !.name = n, !.read = readable, !.auth = auth]
    BY <1>1
  <2> HIDE DEF auth, n
  <2> QED BY <1>2, <2>1 DEF NoLogin
<1> HIDE DEF auth, n
<1>7. LoginFits'
  <2>1. Works(login.auth.storage, login.key)'
    BY <1>2, <1>5, <1>6 DEF Works
  <2> QED BY <1>2, <1>3, <1>5, <1>6, <2>1 DEF LoginFits, NoLogin
<1>8. ReplaceInv'
  <2>1. ASSUME readable PROVE SameSettings(files[n], Saved(auth))
    BY <1>5, <2>1
  <2> QED BY <1>2, <1>6, <2>1 DEF ReplaceInv, Undisturbed, SameSettings
<1> QED BY <1>7, <1>8, LoginOnlyHolds DEF CursorReads

LEMMA ListForNameHolds ==
  ASSUME CredentialsAssumption, CredentialsInv, ListForName
  PROVE  CredentialsInv'
<1>1. /\ plugin = "commandcode" /\ UNCHANGED <<plugin, files>>
      /\ DOMAIN login = DOMAIN NoLogin /\ login.key \in Keys
      /\ login.base = << >> /\ Fits(login.base)
      /\ login.name = CommandCode!credentialFileName(login.key) /\ login.name \in Names
  BY DEF ListForName, LoginOnly, CredentialsInv, LoginFits, CredentialsAssumption
<1>2. PICK read \in {login.read, FALSE}, pc \in {"getting", "listing again"} :
        /\ login' = [login EXCEPT !.pc = pc, !.read = read]
        /\ pc = "listing again" /\ read # FALSE => login.name \notin CommandCodeFiles
  <2>1. CASE login' = [login EXCEPT !.pc = "listing again", !.read = FALSE]
    BY <2>1
  <2>2. CASE login' = [login EXCEPT !.pc = IF login.name \in CommandCodeFiles THEN "getting"
                                           ELSE "listing again"]
    <3> DEFINE pc == IF login.name \in CommandCodeFiles THEN "getting" ELSE "listing again"
    <3>1. login' = [login EXCEPT !.pc = pc, !.read = login.read]
      BY <1>1, <2>2 DEF NoLogin
    <3> QED BY <3>1
  <2> QED BY <2>1, <2>2 DEF ListForName
<1>3. /\ DOMAIN login' = DOMAIN NoLogin
      /\ login'.pc = pc /\ login'.read = read /\ login'.key = login.key
      /\ login'.name = login.name /\ login'.base = login.base
  BY <1>1, <1>2 DEF NoLogin
<1>4. LoginFits'
  BY <1>1, <1>3 DEF LoginFits, NoLogin
<1>5. ReplaceInv'
  <2>1. CASE pc = "listing again" /\ read
    <3>1. login.name \notin CommandCodeFiles
      BY <1>2, <2>1
    <3>2. ~CommandCode!isCommandCodeAuth(files[login.name])
      BY <1>1, <3>1, AbsentIsNot DEF CommandCodeFiles, Present
    <3> QED BY <1>1, <1>3, <3>2 DEF ReplaceInv, HasItsFile
  <2>2. CASE ~(pc = "listing again" /\ read)
    BY <1>3, <2>2 DEF ReplaceInv, Undisturbed
  <2> QED BY <2>1, <2>2
<1> QED BY <1>4, <1>5, LoginOnlyHolds DEF ListForName

LEMMA GetByNameHolds ==
  ASSUME CredentialsAssumption, CredentialsInv, GetByName
  PROVE  CredentialsInv'
<1>1. /\ plugin = "commandcode" /\ UNCHANGED <<plugin, files>>
      /\ DOMAIN login = DOMAIN NoLogin /\ login.key \in Keys
      /\ login.base = << >> /\ Fits(login.base)
      /\ login.name = CommandCode!credentialFileName(login.key) /\ login.name \in Names
  BY DEF GetByName, LoginOnly, CredentialsInv, LoginFits, CredentialsAssumption
<1>2. CASE login' = [login EXCEPT !.pc = "listing again", !.read = FALSE]
  <2>1. /\ DOMAIN login' = DOMAIN NoLogin
        /\ login'.pc = "listing again" /\ login'.read = FALSE /\ login'.key = login.key
        /\ login'.name = login.name /\ login'.base = login.base
    BY <1>1, <1>2 DEF NoLogin
  <2>2. LoginFits'
    BY <1>1, <2>1 DEF LoginFits, NoLogin
  <2>3. ReplaceInv'
    BY <2>1 DEF ReplaceInv, Undisturbed
  <2> QED BY <2>2, <2>3, LoginOnlyHolds DEF GetByName
<1>3. CASE login' = [login EXCEPT !.pc = "listing again", !.base = files[login.name]]
  <2>1. /\ DOMAIN login' = DOMAIN NoLogin
        /\ login'.pc = "listing again" /\ login'.key = login.key
        /\ login'.name = login.name /\ login'.base = files[login.name]
    BY <1>1, <1>3 DEF NoLogin
  <2>2. Fits(files[login.name])
    BY <1>1 DEF CredentialsInv, HostInv
  <2>3. LoginFits'
    BY <1>1, <2>1, <2>2 DEF LoginFits, NoLogin
  <2>4. ReplaceInv'
    BY <1>1, <2>1 DEF ReplaceInv, HasItsFile
  <2> QED BY <2>3, <2>4, LoginOnlyHolds DEF GetByName
<1> QED BY <1>2, <1>3 DEF GetByName

LEMMA ListForKeyHolds ==
  ASSUME CredentialsAssumption, CredentialsInv, ListForKey
  PROVE  CredentialsInv'
<1>1. /\ plugin = "commandcode" /\ UNCHANGED <<plugin, files>>
      /\ DOMAIN login = DOMAIN NoLogin /\ login.key \in Keys /\ Fits(login.base)
      /\ login.name = CommandCode!credentialFileName(login.key)
      /\ Undisturbed => HasItsFile
  BY DEF ListForKey, LoginOnly, CredentialsInv, LoginFits, ReplaceInv
<1>2. CASE login' = [login EXCEPT !.pc = "searching", !.read = FALSE]
  <2>1. /\ DOMAIN login' = DOMAIN NoLogin
        /\ login'.pc = "searching" /\ login'.read = FALSE /\ login'.key = login.key
        /\ login'.name = login.name /\ login'.base = login.base
    BY <1>1, <1>2 DEF NoLogin
  <2>2. LoginFits'
    BY <1>1, <2>1 DEF LoginFits, NoLogin
  <2>3. ReplaceInv'
    BY <2>1 DEF ReplaceInv, Undisturbed
  <2> QED BY <2>2, <2>3, LoginOnlyHolds DEF ListForKey
<1>3. CASE login' = [login EXCEPT !.pc = "searching", !.left = CommandCodeFiles]
  <2>1. /\ DOMAIN login' = DOMAIN NoLogin
        /\ login'.pc = "searching" /\ login'.left = CommandCodeFiles
        /\ login'.read = login.read /\ login'.touched = login.touched
        /\ login'.key = login.key /\ login'.name = login.name /\ login'.base = login.base
    BY <1>1, <1>3 DEF NoLogin
  <2>2. LoginFits'
    BY <1>1, <2>1 DEF LoginFits, NoLogin
  <2>3. KeyFiles(login.key) \subseteq CommandCodeFiles
    BY AbsentIsNot DEF KeyFiles, CommandCodeFiles, Present
  <2>4. KeyFiles(login.key)' = KeyFiles(login.key) /\ CommandCodeFiles' = CommandCodeFiles
    BY <1>1, <2>1 DEF KeyFiles, CommandCodeFiles, Present
  <2>5. ReplaceInv'
    BY <1>1, <2>1, <2>3, <2>4 DEF ReplaceInv, Undisturbed, HasItsFile
  <2> QED BY <2>2, <2>5, LoginOnlyHolds DEF ListForKey
<1> QED BY <1>2, <1>3 DEF ListForKey

\* The record is what is imported into the contents, under the file's name.
LEMMA PreparedHolds ==
  ASSUME CredentialsAssumption, CredentialsInv, plugin = "commandcode", LoginOnly,
         login.pc = "searching",
         NEW n \in Names, NEW base, Fits(base),
         NEW found, DOMAIN found = DOMAIN NoLogin, found.name = n, found.base = base,
         found.key = login.key, found.read = login.read, found.touched = login.touched,
         login' = Prepared(found),
         Undisturbed =>
           /\ base = files[n] \/ (base = << >> /\ ~CommandCode!isCommandCodeAuth(files[n]))
           /\ KeyFiles(login.key) # {} => n \in KeyFiles(login.key)
  PROVE  CredentialsInv'
<1> DEFINE auth == CommandCode!importedAuthData(base, n, login.key, now)
<1>1. UNCHANGED <<plugin, files>> /\ login.key \in Keys
  BY DEF LoginOnly, CredentialsInv, LoginFits
<1>2. /\ {"storage", "disabled"} \subseteq DOMAIN auth
      /\ Fits(auth.storage) /\ Works(auth.storage, login.key)
      /\ \A content : base = content \/ (base = << >> /\ content = Absent) =>
           SameSettings(content, Saved(auth))
  BY CommandCodeImport
<1>3. /\ DOMAIN login' = DOMAIN NoLogin
      /\ login'.pc = "saving" /\ login'.name = n /\ login'.read = login.read
      /\ login'.touched = login.touched
      /\ login'.auth = auth /\ login'.key = login.key /\ login'.base = base
  <2>1. login' = [found EXCEPT !.pc = "saving", !.left = {}, !.auth = auth]
    BY DEF Prepared
  <2> HIDE DEF auth
  <2> QED BY <2>1 DEF NoLogin
<1> HIDE DEF auth
<1>4. LoginFits'
  <2>1. Works(login.auth.storage, login.key)'
    BY <1>1, <1>2, <1>3 DEF Works
  <2> QED BY <1>1, <1>2, <1>3, <2>1 DEF LoginFits, NoLogin
<1>5. ReplaceInv'
  <2> SUFFICES ASSUME Undisturbed'
               PROVE  /\ (IsItsOwn(files[login.name]))' =>
                           SameSettings(files[login.name], Saved(login.auth))'
                      /\ (KeyFiles(login.key))' # {} => (login.name \in KeyFiles(login.key))'
    BY <1>3 DEF ReplaceInv
  <2>1. Undisturbed
    BY <1>3 DEF Undisturbed
  <2>2. KeyFiles(login.key)' = KeyFiles(login.key)
    BY <1>1, <1>3 DEF KeyFiles
  <2>3. ASSUME IsItsOwn(files[n]) PROVE SameSettings(files[n], Saved(auth))
    BY <1>2, <2>1, <2>3 DEF IsItsOwn
  <2>4. (IsItsOwn(files[login.name]))' => SameSettings(files[login.name], Saved(login.auth))'
    BY <1>1, <1>3, <2>3 DEF IsItsOwn, SameSettings
  <2> QED BY <1>3, <2>1, <2>2, <2>4
<1> QED BY <1>4, <1>5, LoginOnlyHolds

LEMMA TryFileHolds ==
  ASSUME CredentialsAssumption, CredentialsInv, NEW n \in Names, TryFile(n)
  PROVE  CredentialsInv'
<1>1. /\ plugin = "commandcode" /\ UNCHANGED <<plugin, files>> /\ login.pc = "searching"
      /\ DOMAIN login = DOMAIN NoLogin /\ login.key \in Keys /\ Fits(login.base)
      /\ login.name = CommandCode!credentialFileName(login.key)
      /\ n \in login.left /\ Fits(files[n])
      /\ Undisturbed => /\ HasItsFile /\ login.left \subseteq CommandCodeFiles
                        /\ KeyFiles(login.key) \subseteq login.left
  BY DEF TryFile, LoginOnly, CredentialsInv, HostInv, LoginFits, ReplaceInv
<1>2. CASE login' = [login EXCEPT !.left = @ \ {n}, !.read = FALSE]
  <2>1. /\ DOMAIN login' = DOMAIN NoLogin
        /\ login'.pc = login.pc /\ login'.read = FALSE /\ login'.key = login.key
        /\ login'.name = login.name /\ login'.base = login.base
    BY <1>1, <1>2 DEF NoLogin
  <2>2. LoginFits'
    BY <1>1, <2>1 DEF LoginFits, NoLogin
  <2>3. ReplaceInv'
    BY <2>1 DEF ReplaceInv, Undisturbed
  <2> QED BY <2>2, <2>3, LoginOnlyHolds DEF TryFile
<1>3. CASE /\ CommandCode!apiKeyFromStorage(files[n]) = login.key
           /\ login' = Prepared(Found(login, n))
  <2>1. /\ DOMAIN Found(login, n) = DOMAIN NoLogin
        /\ Found(login, n).name = n /\ Found(login, n).base = files[n]
        /\ Found(login, n).key = login.key /\ Found(login, n).read = login.read
        /\ Found(login, n).touched = login.touched
    BY <1>1 DEF Found, NoLogin
  <2>2. Undisturbed => n \in KeyFiles(login.key)
    BY <1>1, <1>3 DEF KeyFiles, CommandCodeFiles
  <2>3. LoginOnly
    BY DEF TryFile
  <2> QED BY <1>1, <1>3, <2>1, <2>2, <2>3, PreparedHolds
<1>4. CASE /\ CommandCode!apiKeyFromStorage(files[n]) # login.key
           /\ login' = [login EXCEPT !.left = @ \ {n}]
  <2>1. /\ DOMAIN login' = DOMAIN NoLogin
        /\ login'.pc = login.pc /\ login'.read = login.read /\ login'.key = login.key
        /\ login'.name = login.name /\ login'.base = login.base
        /\ login'.touched = login.touched /\ login'.left = login.left \ {n}
    BY <1>1, <1>4 DEF NoLogin
  <2>2. LoginFits'
    BY <1>1, <2>1 DEF LoginFits, NoLogin
  <2>3. KeyFiles(login.key)' = KeyFiles(login.key) /\ CommandCodeFiles' = CommandCodeFiles
    BY <1>1, <2>1 DEF KeyFiles, CommandCodeFiles, Present
  <2>4. n \notin KeyFiles(login.key)
    BY <1>4 DEF KeyFiles
  <2>5. ReplaceInv'
    BY <1>1, <2>1, <2>3, <2>4 DEF ReplaceInv, Undisturbed, HasItsFile
  <2> QED BY <2>2, <2>5, LoginOnlyHolds DEF TryFile
<1> QED BY <1>2, <1>3, <1>4 DEF TryFile

LEMMA NoFileHolds ==
  ASSUME CredentialsAssumption, CredentialsInv, NoFileHasKey
  PROVE  CredentialsInv'
<1>1. /\ plugin = "commandcode" /\ login.pc = "searching" /\ login.left = {} /\ LoginOnly
      /\ DOMAIN login = DOMAIN NoLogin /\ Fits(login.base)
      /\ login.name \in Names /\ login' = Prepared(login)
      /\ Undisturbed => HasItsFile /\ KeyFiles(login.key) \subseteq {}
  BY DEF NoFileHasKey, LoginOnly, CredentialsInv, LoginFits, ReplaceInv, CredentialsAssumption
<1> QED BY <1>1, PreparedHolds DEF HasItsFile

LEMMA SavesHolds ==
  ASSUME CredentialsAssumption, CredentialsInv, HostSaves
  PROVE  CredentialsInv'
<1> DEFINE n == login.name
<1>1. /\ n \in Names /\ login.key \in Keys
      /\ Fits(Saved(login.auth)) /\ Works(Saved(login.auth), login.key)
      /\ DOMAIN files = Names /\ imported \in [Names -> Keys \cup {None}]
  <2>1. /\ n \in Names /\ login.key \in Keys
        /\ Fits(login.auth.storage) /\ Works(login.auth.storage, login.key)
    BY DEF HostSaves, CredentialsInv, LoginFits
  <2> QED BY <2>1, SavedWorks DEF CredentialsInv, HostInv, ImportedInv
<1>2. /\ files' = [files EXCEPT ![n] = Saved(login.auth)]
      /\ imported' = [imported EXCEPT ![n] = login.key] /\ login' = NoLogin
      /\ UNCHANGED <<plugin, entries, weights, hosted, now>>
  BY DEF HostSaves, Saved
<1>3. /\ DOMAIN files' = Names /\ files'[n] = Saved(login.auth)
      /\ \A m \in Names \ {n} : files'[m] = files[m]
      /\ imported' \in [Names -> Keys \cup {None}] /\ imported'[n] = login.key
      /\ \A m \in Names \ {n} : imported'[m] = imported[m]
  BY <1>1, <1>2
<1>4. HostInv'
  <2>1. \A m \in Names : HostedFits(m)'
    BY <1>2, HostedStays DEF CredentialsInv, HostInv
  <2>2. \A m \in Names : Fits(files'[m])
    BY <1>1, <1>3 DEF CredentialsInv, HostInv
  <2> QED BY <1>2, <1>3, <2>1, <2>2 DEF CredentialsInv, HostInv
<1>5. ImportedInv'
  <2>1. ASSUME NEW m \in Names, imported'[m] # None PROVE Works(files[m], imported[m])'
    <3>1. CASE m = n
      BY <1>1, <1>2, <1>3, <3>1 DEF Works
    <3>2. CASE m # n
      <4>1. Works(files[m], imported[m])
        BY <1>3, <2>1, <3>2 DEF CredentialsInv, ImportedInv
      <4> QED BY <1>2, <1>3, <3>2, <4>1 DEF Works
    <3> QED BY <3>1, <3>2
  <2> QED BY <1>3, <2>1 DEF ImportedInv
<1>6. LoginFits' /\ ReplaceInv'
  BY <1>2 DEF LoginFits, ReplaceInv, NoLogin, Fits
<1> QED BY <1>4, <1>5, <1>6 DEF CredentialsInv

LEMMA StepHolds ==
  ASSUME CredentialsAssumption, CredentialsInv, [Next]_vars
  PROVE  CredentialsInv'
<1>1. CASE LoginStep
  BY <1>1, StartHolds, ValidatedHolds, InvalidHolds, CursorReadsHolds, ListForNameHolds,
     GetByNameHolds, ListForKeyHolds, NoFileHolds, SavesHolds, TryFileHolds DEF LoginStep
<1>2. CASE Configure
  BY <1>2, ConfigureHolds
<1>3. CASE Tick
  BY <1>3, TickHolds
<1>4. CASE \E n \in Edited : OperatorWrites(n)
  BY <1>4, OperatorHolds DEF CredentialsAssumption
<1>5. CASE \E n \in Names : HostLoads(n) \/ HostRefreshes(n)
  BY <1>5, LoadHolds, RefreshHolds
<1>6. CASE UNCHANGED vars
  <2>1. \A n \in Names : HostedFits(n)'
    BY <1>6, HostedStays DEF vars, CredentialsInv, HostInv
  <2>2. HostInv'
    BY <1>6, <2>1 DEF vars, CredentialsInv, HostInv
  <2> QED BY <1>6, <2>2, LoginStays, ImportedStays, ReplaceStays DEF vars, CredentialsInv
<1> QED BY <1>1, <1>2, <1>3, <1>4, <1>5, <1>6 DEF Next

-----------------------------------------------------------------------------
(* The theorems.                                                           *)

THEOREM CredentialsInvariant == CredentialsSpec => []CredentialsInv
<1>1. Init => CredentialsInv
  BY InitHolds, CredentialsAssumption
<1>2. CredentialsInv /\ [Next]_vars => CredentialsInv'
  BY StepHolds, CredentialsAssumption
<1> QED BY <1>1, <1>2, PTL DEF CredentialsSpec

\* Type correctness, and: a record that was parsed or refreshed under the weights of now has
\* the weight that is meant (auth.go:96, 152).
THEOREM WeightsAreFollowed == CredentialsSpec => []WeightsFollow
<1>1. CredentialsInv => WeightsFollow
  <2> SUFFICES ASSUME CredentialsInv PROVE WeightsFollow
    OBVIOUS
  <2>1. \A k \in DOMAIN weights : weights[k] \in 0..MaxWeight
    BY CredentialsAssumption, WeightsAreNumbers DEF CredentialsInv, HostInv
  <2>2. CredentialsTypeOK
    BY <2>1 DEF CredentialsTypeOK, CredentialsInv, HostInv, HostedFits, LoginFits, ImportedInv
  <2>3. ASSUME NEW n \in Names, hosted[n] # None /\ hosted[n].current
        PROVE  Weighted(hosted[n].auth.attributes, hosted[n].auth.storage, n)
    BY <2>3 DEF CredentialsInv, HostInv, HostedFits
  <2> QED BY <2>2, <2>3 DEF WeightsFollow, Weighted
<1> QED BY <1>1, CredentialsInvariant, PTL

\* What a login leaves is a credential that works, whatever happens next, with what the operator
\* set in its file; and in auth-commandcode it leaves one file for a key, if there was one
\* (commandline.go:168, 238).  That it leaves other accounts alone is not claimed
\* (OtherAccountsStay).
THEOREM ImportsAreSound == CredentialsSpec => ImportIsSound
<1>1. CredentialsInv => ImportIsUsable
  <2> SUFFICES ASSUME CredentialsInv, NEW n \in Names, imported[n] # None
               PROVE  Parsed(files[n], n).told = "accepted" /\ KeyIn(files[n]) = imported[n]
    BY DEF ImportIsUsable
  <2>1. Works(files[n], imported[n]) /\ imported[n] \in Keys
    BY DEF CredentialsInv, ImportedInv
  <2> QED BY <2>1, CredentialsAssumption, WorkingIsAccepted DEF CredentialsInv, HostInv
<1>2. CredentialsInv /\ [Next]_vars =>
        [HostSaves /\ login.read /\ login.touched = {} =>
           /\ IsItsOwn(files[login.name]) => SameSettings(files[login.name], files'[login.name])
           /\ plugin = "commandcode" /\ Holders(login.key) # {} =>
                login.name \in Holders(login.key)]_vars
  <2> SUFFICES ASSUME CredentialsInv, HostSaves, login.read, login.touched = {}
               PROVE  /\ IsItsOwn(files[login.name]) =>
                           SameSettings(files[login.name], files'[login.name])
                      /\ plugin = "commandcode" /\ Holders(login.key) # {} =>
                           login.name \in Holders(login.key)
    OBVIOUS
  <2>1. files'[login.name] = Saved(login.auth)
    BY DEF HostSaves, Saved, CredentialsInv, HostInv, LoginFits
  <2>2. /\ IsItsOwn(files[login.name]) => SameSettings(files[login.name], Saved(login.auth))
        /\ plugin = "commandcode" /\ KeyFiles(login.key) # {} => login.name \in KeyFiles(login.key)
    BY DEF CredentialsInv, ReplaceInv, Undisturbed, HostSaves
  <2>3. plugin = "commandcode" => Holders(login.key) = KeyFiles(login.key)
    BY HoldersAre
  <2> QED BY <2>1, <2>2, <2>3
<1> QED BY <1>1, <1>2, CredentialsInvariant, PTL DEF ImportIsSound, ImportReplaces, CredentialsSpec
=============================================================================
