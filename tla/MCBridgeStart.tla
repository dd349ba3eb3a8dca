--------------------------- MODULE MCBridgeStart ---------------------------
(***************************************************************************)
(* The start of a bridge on small instances, with what it says of itself   *)
(* and the ways its traffic takes.                                         *)
(***************************************************************************)
EXTENDS BridgeStart, BridgeEnvironment

\* Every start is made under one process id: at once, or by the process that came after.
OneProcess == [s \in Starters |-> CHOOSE p \in Pids : TRUE]

\* A bridge that runs sends nothing past the proxy it was started for, and nothing through one
\* that the host exempts (bridge.go:530, bridge_egress.go:53); and it is called where it says
\* and with its token, while what it writes is kept (bridge.go:65, 355).
BridgeIsReached ==
  \A s \in Starters : launch[s].child = "running" =>
    EveryWayIsProxied /\ BridgeIsUnderstood /\ LastWordsAreKept
=============================================================================
