----------------------------- MODULE MCToolRun -----------------------------
(* The tool relay on small instances. *)
EXTENDS ToolRun, TLC

\* As many runs as processes: one run on each of them.
OnePerProcess ==
  CHOOSE f \in [Runs -> Processes] : \A p \in Processes : \E r \in Runs : f[r] = p

\* Turns, and calls, are interchangeable (safety runs with a single run only).
Symmetry == Permutations(Turns) \cup Permutations(Calls)
=============================================================================
