----------------------------- MODULE Credentials -----------------------------
(***************************************************************************)
(* Auth files of either plugin: an operator writes them, the host has them *)
(* parsed and refreshed, a reconfigure changes the weights, and a login    *)
(* imports a key, which replaces a file with what it read some steps ago.  *)
(*                                                                         *)
(* The host and the operator are the environment.  The host keeps an auth  *)
(* under its file's name, writes what a login hands it into a file, with   *)
(* the record's "disabled", and a weight in a file outranks the plugin's.  *)
(***************************************************************************)
EXTENDS AuthFile, FiniteSets

CONSTANTS
  Names,        \* the names of files
  Edited,       \* those an operator writes
  Written,      \* the contents an operator of either plugin writes
  Keys,         \* the API keys that are imported
  EmailOf,      \* the account of a Cursor key, Blank if it has none
  Configs,      \* the weights a configuration may have: sets of entries
  Letters, Digest, \* see CursorAuth and CommandCodeAuth
  MaxTime,      \* the last moment
  MaxActs       \* how often an operator writes, configures or logs in

Cursor == INSTANCE CursorAuth
CommandCode == INSTANCE CommandCodeAuth

\* Every file a login may write has a name here, and a weight is a number.
ASSUME CredentialsAssumption ==
  /\ None \notin Int /\ MaxTime \in Nat /\ MaxWeight \in Nat /\ Edited \subseteq Names
  /\ Blank \notin Keys /\ Blank \notin DOMAIN Dates
  /\ \A key \in Keys :
       /\ CommandCode!credentialFileName(key) \in Names
       /\ \A time \in 0..MaxTime : Cursor!fileName(EmailOf[key], time) \in Names
  /\ \A kind \in {"cursor", "commandcode"} : \A content \in Written[kind] :
       "weight" \in DOMAIN content => content["weight"] \in Int
  /\ \A config \in Configs : \A entry \in config : entry.weight \in Int

VARIABLES
  plugin,    \* whose files these are
  files,     \* the auth directory
  entries,   \* the weights as the accepted configuration has them
  weights,   \* loadedConfig().Weights
  hosted,    \* the host's record of a file; current: told under these weights
  login,     \* commandLineExecute, with the variables that outlive a step
  imported,  \* history: the key a login left in a file nobody touched since
  now,
  acts       \* what the operator has done so far, to bound the instance

vars == <<plugin, files, entries, weights, hosted, login, imported, now, acts>>

NoLogin ==
  [pc |-> "none", key |-> Blank, email |-> Blank, name |-> Blank, base |-> << >>,
   left |-> {}, auth |-> None, touched |-> {}, read |-> TRUE]

Init ==
  /\ plugin \in {"cursor", "commandcode"}
  /\ files = [n \in Names |-> Absent]
  /\ entries = {}
  /\ weights = << >>
  /\ hosted = [n \in Names |-> None]
  /\ login = NoLogin
  /\ imported = [n \in Names |-> None]
  /\ now = 0
  /\ acts = 0

Present == {n \in Names : files[n] # Absent}

Parsed(storage, n) ==
  IF plugin = "cursor" THEN Cursor!parseAuth(storage, n, weights, now)
  ELSE CommandCode!parseAuth(storage, n, weights, now)

KeyIn(storage) ==
  IF plugin = "cursor" THEN Cursor!apiKeyFromStorage(storage)
  ELSE CommandCode!apiKeyFromStorage(storage)

Holders(key) == {n \in Present : Parsed(files[n], n).told # "declined" /\ KeyIn(files[n]) = key}

-----------------------------------------------------------------------------
(* The environment.                                                        *)

OperatorWrites(n) ==
  /\ acts < MaxActs
  /\ \E c \in Written[plugin] \cup {Absent} : c # files[n] /\ files' = [files EXCEPT ![n] = c]
  /\ imported' = [imported EXCEPT ![n] = None]
  /\ login' = IF login.pc = "none" THEN login ELSE [login EXCEPT !.touched = @ \cup {n}]
  /\ acts' = acts + 1
  /\ UNCHANGED <<plugin, entries, weights, hosted, now>>

Tick ==
  /\ now < MaxTime
  /\ now' = now + 1
  /\ UNCHANGED <<plugin, files, entries, weights, hosted, login, imported, acts>>

\* The host adds attributes of its own; a weight in the file is its word.
HostTakes(attributes, storage, n) ==
  LET own == Over([path |-> n], attributes)
  IN  IF "weight" \in DOMAIN storage THEN Over([weight |-> storage["weight"]], own) ELSE own

HostLoads(n) ==
  LET told == IF files[n] = Absent THEN Declined ELSE Parsed(files[n], n)
  IN  /\ hosted' = [hosted EXCEPT ![n] =
           IF told.told # "accepted" THEN None
           ELSE [auth    |-> [told.auth EXCEPT !.attributes = HostTakes(@, files[n], n)],
                 current |-> TRUE]]
      /\ UNCHANGED <<plugin, files, entries, weights, login, imported, now, acts>>

\* When it is due, or when somebody asks; what a refresh does not tell, the
\* host keeps, and so it does when the refresh is refused.
HostRefreshes(n) ==
  LET auth == hosted[n].auth
      told == IF plugin = "cursor"
              THEN Cursor!refreshAuth(auth.storage, auth.attributes, n, weights, now)
              ELSE CommandCode!refreshAuth(auth.storage, auth.attributes, n, weights, now)
  IN  /\ hosted[n] # None
      /\ told.told = "accepted"
      /\ hosted' = [hosted EXCEPT ![n] =
           [auth    |-> [auth EXCEPT !.attributes = HostTakes(told.auth.attributes, auth.storage, n),
                                     !.due = told.auth.due],
            current |-> TRUE]]
      /\ UNCHANGED <<plugin, files, entries, weights, login, imported, now, acts>>

-----------------------------------------------------------------------------
(* configure, as far as it is about weights: a configuration that is       *)
(* refused leaves the one before.                                          *)

Configure ==
  /\ acts < MaxActs
  /\ acts' = acts + 1
  /\ \E e \in Configs :
       LET decoded == IF plugin = "cursor" THEN Cursor!decodeWeights(e)
                      ELSE CommandCode!decodeWeights(e)
       IN  IF decoded = None THEN UNCHANGED <<entries, weights, hosted>>
           ELSE /\ entries' = e
                /\ weights' = decoded
                /\ hosted' = [n \in Names |->
                     IF hosted[n] = None THEN None ELSE [hosted[n] EXCEPT !.current = FALSE]]
  /\ UNCHANGED <<plugin, files, login, imported, now>>

-----------------------------------------------------------------------------
(* commandLineExecute.                                                     *)

LoginOnly == UNCHANGED <<plugin, files, entries, weights, hosted, imported, now>>

\* readLoginAPIKey; without a key the command ends.
StartLogin ==
  /\ login.pc = "none" /\ acts < MaxActs
  /\ \E k \in Keys : login' = [NoLogin EXCEPT !.pc = "validating", !.key = k]
  /\ acts' = acts + 1
  /\ LoginOnly

\* acquireBridge and Me; validateAPIKey, unless it is to be skipped.
Validated ==
  /\ login.pc = "validating"
  /\ login' = IF plugin = "cursor"
              THEN [login EXCEPT !.pc = "reading", !.email = EmailOf[login.key]]
              ELSE [login EXCEPT !.pc = "listing",
                                 !.name = CommandCode!credentialFileName(login.key)]
  /\ UNCHANGED acts
  /\ LoginOnly

Invalid ==
  /\ login.pc = "validating"
  /\ login' = NoLogin
  /\ UNCHANGED acts
  /\ LoginOnly

\* authData: a file that is missing, or cannot be read, has nothing to keep.
CursorReads ==
  /\ plugin = "cursor" /\ login.pc = "reading"
  /\ \E readable \in BOOLEAN :
       LET n == Cursor!fileName(login.email, now)
           base == IF readable /\ files[n] # Absent THEN files[n] ELSE << >>
       IN  login' = [login EXCEPT !.pc = "saving", !.name = n, !.read = readable,
                       !.auth = Cursor!authData(base, n, login.key, login.email, now)]
  /\ UNCHANGED acts
  /\ LoginOnly

CommandCodeFiles == {n \in Present : CommandCode!isCommandCodeAuth(files[n])}

\* existingAuthStorage: the file of the key's digest, if it is in the list.
ListForName ==
  /\ plugin = "commandcode" /\ login.pc = "listing"
  /\ \/ login' = [login EXCEPT !.pc = "listing again", !.read = FALSE]
     \/ login' = [login EXCEPT !.pc = IF login.name \in CommandCodeFiles THEN "getting"
                                      ELSE "listing again"]
  /\ UNCHANGED acts
  /\ LoginOnly

GetByName ==
  /\ login.pc = "getting"
  /\ \/ login' = [login EXCEPT !.pc = "listing again", !.read = FALSE]
     \/ /\ files[login.name] # Absent
        /\ login' = [login EXCEPT !.pc = "listing again", !.base = files[login.name]]
  /\ UNCHANGED acts
  /\ LoginOnly

\* existingAuthStorageForKey: the files of the list, in the host's order.
ListForKey ==
  /\ login.pc = "listing again"
  /\ \/ login' = [login EXCEPT !.pc = "searching", !.read = FALSE]
     \/ login' = [login EXCEPT !.pc = "searching", !.left = CommandCodeFiles]
  /\ UNCHANGED acts
  /\ LoginOnly

Prepared(l) ==
  [l EXCEPT !.pc = "saving", !.left = {},
            !.auth = CommandCode!importedAuthData(l.base, l.name, l.key, now)]

\* The variant keeps what it found and gives it the digest's name.
Found_KeepsName(l, n) == [l EXCEPT !.base = files[n]]

\* The file that has the key is the one to replace.
Found(l, n) == [l EXCEPT !.base = files[n], !.name = n]

\* A file that cannot be read is passed over, with a warning.
TryFile(n) ==
  /\ login.pc = "searching" /\ n \in login.left
  /\ \/ login' = [login EXCEPT !.left = @ \ {n}, !.read = FALSE]
     \/ /\ files[n] # Absent
        /\ login' = IF CommandCode!apiKeyFromStorage(files[n]) = login.key
                    THEN Prepared(Found(login, n))
                    ELSE [login EXCEPT !.left = @ \ {n}]
  /\ UNCHANGED acts
  /\ LoginOnly

NoFileHasKey ==
  /\ login.pc = "searching" /\ login.left = {}
  /\ login' = Prepared(login)
  /\ UNCHANGED acts
  /\ LoginOnly

\* The command has returned its credential, and the host saves it.
HostSaves ==
  /\ login.pc = "saving"
  /\ files' = [files EXCEPT ![login.name] =
       Over([disabled |-> login.auth.disabled], login.auth.storage)]
  /\ imported' = [imported EXCEPT ![login.name] = login.key]
  /\ login' = NoLogin
  /\ UNCHANGED <<plugin, entries, weights, hosted, now, acts>>

LoginStep ==
  \/ StartLogin \/ Validated \/ Invalid \/ CursorReads
  \/ ListForName \/ GetByName \/ ListForKey \/ NoFileHasKey \/ HostSaves
  \/ \E n \in Names : TryFile(n)

Next ==
  \/ LoginStep \/ Configure \/ Tick
  \/ \E n \in Edited : OperatorWrites(n)
  \/ \E n \in Names : HostLoads(n) \/ HostRefreshes(n)

CredentialsSpec == Init /\ [][Next]_vars

-----------------------------------------------------------------------------
(* Properties.                                                             *)

\* The type invariant.
CredentialsTypeOK ==
  /\ plugin \in {"cursor", "commandcode"}
  /\ DOMAIN files = Names
  /\ entries \in Configs \cup {{}}
  /\ \A k \in DOMAIN weights : weights[k] \in 0..MaxWeight
  /\ \A n \in Names : hosted[n] # None =>
       /\ hosted[n].current \in BOOLEAN
       /\ "path" \in DOMAIN hosted[n].auth.attributes
  /\ login.pc \in {"none", "validating", "reading", "listing", "getting", "listing again",
                   "searching", "saving"}
  /\ login.pc = "saving" =>
       {"storage", "disabled"} \subseteq DOMAIN login.auth /\ login.name \in Names
  /\ imported \in [Names -> Keys \cup {None}]

\* The weight the operator means a credential to have: the one of its file,
\* or the one its configuration gives to what names it most closely.  A
\* weight below zero is none of the traffic.
MeantWeight(storage, n) ==
  LET called == IF plugin = "cursor" THEN <<TextAt(storage, "email"), n, Stem[n]>>
                ELSE <<TextAt(storage, "label"), TextAt(storage, "email"), n, Stem[n]>>
      For(word) == {e \in entries : word # Blank /\ e.key.word = word}
      first == {i \in DOMAIN called : /\ For(called[i]) # {}
                                      /\ \A j \in 1..(i - 1) : For(called[j]) = {}}
  IN  IF "weight" \in DOMAIN storage THEN storage["weight"]
      ELSE IF first = {} THEN None
      ELSE LET w == (CHOOSE e \in UNION {For(called[i]) : i \in first} : TRUE).weight
           IN  IF w < 0 THEN 0 ELSE w

\* Whatever was configured before, and however a key is written in the
\* configuration: once a record was parsed or refreshed under the weights of
\* now, it has the weight that is meant, and none if none is (auth.go:96, 152).
WeightsFollow ==
  /\ CredentialsTypeOK
  /\ \A n \in Names : hosted[n] # None /\ hosted[n].current =>
       LET auth == hosted[n].auth
           meant == MeantWeight(auth.storage, n)
       IN  IF meant = None THEN "weight" \notin DOMAIN auth.attributes
           ELSE "weight" \in DOMAIN auth.attributes /\ auth.attributes["weight"] = meant

\* A file a login wrote, and nobody changed, is accepted at any time after,
\* and read as the key that was imported: nothing the file had before outranks
\* it (commandline.go:168, its credentialFields).
ImportIsUsable ==
  \A n \in Names : imported[n] # None =>
    /\ Parsed(files[n], n).told = "accepted"
    /\ KeyIn(files[n]) = imported[n]

\* What is the operator's in a file.
SameSettings(was, is) ==
  LET texts == {"label", "proxy_url"} \cup (IF plugin = "cursor" THEN {} ELSE {"email"})
  IN  /\ \A f \in texts : TextAt(is, f) = TextAt(was, f)
      /\ NumberAt(is, "weight") = NumberAt(was, "weight")
      /\ FlagAt(is, "disabled") = FlagAt(was, "disabled")

\* auth-commandcode has nothing to read in a file of another provider.
IsItsOwn(content) ==
  plugin = "cursor" \/ content = Absent \/ CommandCode!isCommandCodeAuth(content)

\* A login replaces: it keeps what the operator set in the file, also whether
\* the credential is disabled (commandline.go:177, 231); and in auth-commandcode,
\* which looks for it, a key that some file has gets no second one (238); unless
\* something could not be read, or the operator wrote meanwhile.
ImportReplaces ==
  [][HostSaves /\ login.read /\ login.touched = {} =>
       /\ IsItsOwn(files[login.name]) => SameSettings(files[login.name], files'[login.name])
       /\ plugin = "commandcode" /\ Holders(login.key) # {} => login.name \in Holders(login.key)]_vars

\* What a login leaves is a credential that works, whatever happens next, with what the operator
\* set in its file (commandline.go:168); that it leaves other accounts alone is not claimed
\* (OtherAccountsStay).
ImportIsSound == [][ImportIsUsable']_vars /\ ImportReplaces

-----------------------------------------------------------------------------
(* Statements that do not hold; see the README.                            *)

\* A login leaves the credentials of other accounts alone: not those whose
\* emails differ in a character that file names do not keep.
OtherAccountsStay ==
  [][HostSaves /\ plugin = "cursor" /\ imported[login.name] # None =>
       EmailOf[imported[login.name]] = login.email]_vars

\* What the operator writes into a file while a login is under way is kept.
EditsSurviveLogin ==
  [][HostSaves /\ IsItsOwn(files[login.name]) =>
       SameSettings(files[login.name], files'[login.name])]_vars

\* The name the command prints (summary computes it once more) is the file's:
\* not for an account without an email, whose name is the time.
SummaryNamesFile ==
  login.pc = "saving" /\ plugin = "cursor" => login.name = Cursor!fileName(login.email, now)
=============================================================================
