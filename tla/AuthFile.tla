------------------------------ MODULE AuthFile ------------------------------
(***************************************************************************)
(* An auth file, the plugin's weights, and what both plugins do with them. *)
(*                                                                         *)
(* The contents of a file are a function from the fields it has to their   *)
(* values. A text is what somebody wrote: the word, and whether blanks,    *)
(* and for a name capitals, are around it that the code takes away.  The   *)
(* wording of keys, names and labels is left out.                          *)
(***************************************************************************)
EXTENDS Integers, Sequences, SequencesExt, TLC

CONSTANTS
  None,         \* no value
  Dates,        \* the words that read as a date, and the times they name
  Stem,         \* a file's name without ".json"
  MaxWeight,    \* maxCredentialWeight
  Renewal       \* apiKeyRefreshInterval

\* No file, and contents that are not JSON: neither has a field that is read.
Absent == [absent |-> TRUE]
Torn == [torn |-> TRUE]

Blank == ""

Text(word, odd) == [word |-> word, odd |-> odd]
Plain(word) == Text(word, FALSE)

\* A field's text without the blanks; no field, and no JSON, read as a blank.
TextAt(storage, field) ==
  IF field \in DOMAIN storage THEN storage[field].word ELSE Blank

FlagAt(storage, field) == field \in DOMAIN storage /\ storage[field]

NumberAt(storage, field) == IF field \in DOMAIN storage THEN storage[field] ELSE 0

FirstOf(values, default) ==
  LET given == {i \in DOMAIN values : values[i] # Blank}
  IN  IF given = {} THEN default ELSE values[Min(given)]

\* The first of the fields that is not blank.
FirstText(storage, fields, default) ==
  FirstOf([i \in DOMAIN fields |-> TextAt(storage, fields[i])], default)

\* The weight of the first key that has one.
FirstWeight(weights, keys) ==
  LET named == {i \in DOMAIN keys : keys[i] # Blank /\ keys[i] \in DOMAIN weights}
  IN  IF named = {} THEN None ELSE weights[keys[Min(named)]]

Without(f, fields) == [x \in DOMAIN f \ fields |-> f[x]]

\* The fields of f, and those of g it has not.
Over(f, g) ==
  [x \in DOMAIN f \cup DOMAIN g |-> IF x \in DOMAIN f THEN f[x] ELSE g[x]]

-----------------------------------------------------------------------------
\* What a plugin answers to the host.
Declined == [told |-> "declined"]
Refused == [told |-> "refused"]
Accepted(auth) == [told |-> "accepted", auth |-> auth]
=============================================================================
