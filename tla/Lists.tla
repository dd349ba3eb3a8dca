------------------------------- MODULE Lists -------------------------------
(***************************************************************************)
(* What the code does in its loops over a list: some members are dropped,  *)
(* or what is made of each is joined.  ListTheorems has what is proved of  *)
(* such loops.                                                             *)
(***************************************************************************)
EXTENDS Integers, SequencesExt

\* The sequence without the members of a set.
Without(s, dropped) ==
  LET kept[i \in 0 .. Len(s)] ==
        IF i = 0 THEN <<>>
        ELSE IF s[i] \in dropped THEN kept[i - 1] ELSE Append(kept[i - 1], s[i])
  IN kept[Len(s)]

\* A sequence's members, which are sequences, one after the other.
Flat(ss) ==
  LET flat[i \in 0 .. Len(ss)] == IF i = 0 THEN <<>> ELSE flat[i - 1] \o ss[i]
  IN flat[Len(ss)]
=============================================================================
