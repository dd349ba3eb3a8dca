----------------------------- MODULE CallRelay -----------------------------
(***************************************************************************)
(* What the tool relay promises for a CallCustomTool, without runs, turns, *)
(* timers or locks: a call gets a result only if a client was told of it,  *)
(* it is told once, in one batch, and the results of a batch arrive        *)
(* together or not at all.  A call may fail at any time.                   *)
(***************************************************************************)
CONSTANT Calls

VARIABLES
  state,      \* [Calls -> where the callback stands]
  told,       \* the batches clients were told of
  delivered   \* the calls a client has brought a result for

relayVars == <<state, told, delivered>>

RelayTypeOK ==
  /\ state \in [Calls -> {"idle", "open", "answered", "failed"}]
  /\ told \subseteq SUBSET Calls
  /\ delivered \subseteq Calls

RelayInit ==
  /\ state = [c \in Calls |-> "idle"]
  /\ told = {}
  /\ delivered = {}

Open(c) ==
  /\ state[c] = "idle"
  /\ state' = [state EXCEPT ![c] = "open"]
  /\ UNCHANGED <<told, delivered>>

Fail(c) ==
  /\ state[c] \in {"idle", "open"}
  /\ state' = [state EXCEPT ![c] = "failed"]
  /\ UNCHANGED <<told, delivered>>

Tell(batch) ==
  /\ batch # {}
  /\ \A c \in batch : state[c] \in {"open", "failed"}
  /\ batch \cap UNION told = {}
  /\ told' = told \cup {batch}
  /\ UNCHANGED <<state, delivered>>

Bring(batch) ==
  /\ batch \in told
  /\ batch \cap delivered = {}
  /\ delivered' = delivered \cup batch
  /\ UNCHANGED <<state, told>>

AnswerCall(c) ==
  /\ state[c] = "open"
  /\ c \in delivered
  /\ state' = [state EXCEPT ![c] = "answered"]
  /\ UNCHANGED <<told, delivered>>

RelayNext ==
  \/ \E c \in Calls : Open(c) \/ Fail(c) \/ AnswerCall(c)
  \/ \E batch \in SUBSET Calls : Tell(batch) \/ Bring(batch)

RelaySpec == RelayInit /\ [][RelayNext]_relayVars
=============================================================================
