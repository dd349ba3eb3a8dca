----------------------------- MODULE JsonValues -----------------------------
(***************************************************************************)
(* What a field of a request's body may hold, as gjson tells it: a record  *)
(* of one field, named for the kind of value.  A text is a sequence of     *)
(* letters, a number is counted in halves, so that not all are integers.   *)
(***************************************************************************)
EXTENDS Lists

Missing == [missing |-> TRUE]
Null == [null |-> TRUE]
Number(halves) == [number |-> halves]
Text(letters) == [text |-> letters]
List(items) == [array |-> items]
Object(members) == [object |-> members]

Kinds == {"missing", "null", "number", "text", "array", "object"}

Is(kind, value) == kind \in DOMAIN value

\* A value is of one kind; a text and a number are what their names say.
IsValue(value) ==
  /\ \E kind \in Kinds : DOMAIN value = {kind}
  /\ Is("text", value) => value.text \in Seq(STRING)
  /\ Is("number", value) => value.number \in Int

\* strings.TrimSpace.
Trimmed(letters) ==
  LET at == {i \in DOMAIN letters : letters[i] # " "} IN
  IF at = {} THEN <<>> ELSE SubSeq(letters, Min(at), Max(at))

\* The blank text stands for a value that is not a text.
TextOf(value) == IF Is("text", value) THEN value.text ELSE <<>>
=============================================================================
