--------------------------- MODULE MCSessionCache ---------------------------
(* The session store on small instances. *)
EXTENDS SessionCache

\* Every exchange has a text of its own.
OwnText == [x \in Exchanges |-> x]

\* All exchanges have one text, and differ in their images.
OneText == [x \in Exchanges |-> CHOOSE y \in Exchanges : TRUE]

\* Turns and processes are interchangeable; exchanges are not (OneText picks one).
SessionSymmetry == Permutations(Turns) \cup Permutations(Processes)
=============================================================================
