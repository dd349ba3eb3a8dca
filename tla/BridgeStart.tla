---------------------------- MODULE BridgeStart ----------------------------
(***************************************************************************)
(* Starting a bridge (auth-cursor/go/bridge.go: startBridge, readStderr,   *)
(* handshake, bindClients, ping, stop; bridge_egress.go and                *)
(* toolcallback.go: the servers a bridge has), from the binary that        *)
(* BridgeInstall found to a bridge that answers or nothing at all.         *)
(*                                                                         *)
(* Beside the starting goroutine there are the child process, the          *)
(* goroutine that reads its stderr, and the one that waits for it.  A step *)
(* is a system call, an RPC, a line of stderr or a channel operation.      *)
(***************************************************************************)
EXTENDS BridgeInstall

CONSTANT Followed  \* the starts that are followed past the installation

ASSUME StartAssumption == Followed \subseteq Starters

VARIABLE launch  \* [Starters -> the start, the child and what is held for it]

startVars == <<root, aside, starter, launch>>

LaunchPcs == {"none", "workspace", "egress", "spawning", "handshake", "binding", "pinging",
              "callback", "registering", "ready", "shutdown", "waiting", "clearing", "failed"}

\* "egress" and "server" are the listening servers, "child" the process and "binary" what it
\* runs.  "reader" is readStderr: "gone" once it has closed drained.  "discovered" and
\* "unread" are what the channels discovered and failed hold; "exited" is closed by the waiter.
Launch == [pc : LaunchPcs, workspace : BOOLEAN, egress : BOOLEAN, server : BOOLEAN,
           child : {"none", "running", "dead"}, binary : Contents \cup {"none"},
           reader : {"none", "reading", "gone"}, announced : BOOLEAN, discovered : 0..1,
           unread : BOOLEAN, exited : BOOLEAN, control : BOOLEAN]

StartTypeOK == InstallTypeOK /\ launch \in [Starters -> Launch]

LaunchBecomes(s, value) == launch' = [launch EXCEPT ![s] = value]

LaunchAt(s, pc) == LaunchBecomes(s, [launch[s] EXCEPT !.pc = pc])

OnlyLaunch == UNCHANGED installVars

\* The goroutine of a process that died runs no further.
May(s, pc) == s \in Followed /\ starter[s].pc = "resolved" /\ launch[s].pc = pc

-----------------------------------------------------------------------------
(* startBridge *)

\* The workspace is made; or the state directory or the workspace cannot be.
MakeWorkspace(s) ==
  /\ May(s, "none")
  /\ \/ LaunchBecomes(s, [launch[s] EXCEPT !.pc = "egress", !.workspace = TRUE])
     \/ LaunchAt(s, "failed")
  /\ OnlyLaunch

\* startBridgeEgress: no proxy and no egress, or a server, or an error.
StartEgress(s) ==
  /\ May(s, "egress")
  /\ \/ \E egress \in BOOLEAN :
          LaunchBecomes(s, [launch[s] EXCEPT !.pc = "spawning", !.egress = egress])
     \/ LaunchBecomes(s, [launch[s] EXCEPT !.pc = "failed", !.workspace = FALSE])
  /\ OnlyLaunch

\* Variant: the egress stays when the process does not start.
Undone_KeepsEgress(s) == [launch[s] EXCEPT !.pc = "failed", !.workspace = FALSE]

Undone(s) == [launch[s] EXCEPT !.pc = "failed", !.workspace = FALSE, !.egress = FALSE]

\* cmd.Start; a binary that is gone does not start.
Spawn(s) ==
  /\ May(s, "spawning")
  /\ \/ /\ root # NoTree
        /\ LaunchBecomes(s, [launch[s] EXCEPT !.pc = "handshake", !.child = "running",
                                              !.binary = root.content, !.reader = "reading"])
     \/ LaunchBecomes(s, Undone(s))
  /\ OnlyLaunch

\* The select of handshake: the first of discovered, failed, exited and the timer.
Handshake(s) ==
  /\ May(s, "handshake")
  /\ \/ /\ launch[s].discovered = 1
        /\ LaunchBecomes(s, [launch[s] EXCEPT !.pc = "binding", !.discovered = 0])
     \/ /\ launch[s].unread
        /\ LaunchBecomes(s, [launch[s] EXCEPT !.pc = "shutdown", !.unread = FALSE])
     \/ launch[s].exited /\ LaunchAt(s, "shutdown")
     \/ LaunchAt(s, "shutdown")
  /\ OnlyLaunch

\* bindClients: a token, or none that may be used.
BindClients(s) ==
  /\ May(s, "binding")
  /\ \/ LaunchBecomes(s, [launch[s] EXCEPT !.pc = "pinging", !.control = TRUE])
     \/ LaunchAt(s, "shutdown")
  /\ OnlyLaunch

\* An RPC is answered by a child that is alive and not stuck, or fails (it has a timeout).
Ping(s) ==
  /\ May(s, "pinging")
  /\ \/ launch[s].child = "running" /\ LaunchAt(s, "callback")
     \/ LaunchAt(s, "shutdown")
  /\ OnlyLaunch

\* Variant: a bridge without a callback server will do.
StartCallback_Optional(s) ==
  /\ May(s, "callback")
  /\ \/ LaunchBecomes(s, [launch[s] EXCEPT !.pc = "registering", !.server = TRUE])
     \/ LaunchAt(s, "ready")
  /\ OnlyLaunch

\* startToolCallback listens,
StartCallback(s) ==
  /\ May(s, "callback")
  /\ \/ LaunchBecomes(s, [launch[s] EXCEPT !.pc = "registering", !.server = TRUE])
     \/ LaunchAt(s, "shutdown")
  /\ OnlyLaunch

\* and tells the bridge where.
SetToolCallback(s) ==
  /\ May(s, "registering")
  /\ \/ launch[s].child = "running" /\ LaunchAt(s, "ready")
     \/ LaunchBecomes(s, [launch[s] EXCEPT !.pc = "shutdown", !.server = FALSE])
  /\ OnlyLaunch

(* stop *)

\* The Shutdown RPC asks the child to exit; the child may not listen.
AskShutdown(s) ==
  /\ May(s, "shutdown")
  /\ \/ LaunchAt(s, "waiting")
     \/ /\ launch[s].control
        /\ LaunchBecomes(s, [launch[s] EXCEPT !.pc = "waiting", !.child = "dead"])
  /\ OnlyLaunch

\* It did not exit in time.
Kill(s) ==
  /\ May(s, "waiting")
  /\ ~launch[s].exited /\ launch[s].child = "running"
  /\ LaunchBecomes(s, [launch[s] EXCEPT !.child = "dead"])
  /\ OnlyLaunch

Exited(s) ==
  /\ May(s, "waiting")
  /\ launch[s].exited
  /\ LaunchAt(s, "clearing")
  /\ OnlyLaunch

\* The workspace, the egress, the callback server.
Clear(s) ==
  /\ May(s, "clearing")
  /\ LaunchBecomes(s, [launch[s] EXCEPT !.pc = "failed", !.workspace = FALSE,
                                        !.egress = FALSE, !.server = FALSE])
  /\ OnlyLaunch

-----------------------------------------------------------------------------
(* The child and its stderr *)

\* Variant: every discovery line is handed over.
Discovery_Each(s) ==
  /\ launch[s].child = "running" /\ launch[s].reader = "reading"
  /\ LaunchBecomes(s, [launch[s] EXCEPT !.announced = TRUE, !.discovered = launch[s].discovered + 1])
  /\ OnlyLaunch

\* A discovery line that validates; the first is handed to the handshake.
Discovery(s) ==
  /\ launch[s].child = "running" /\ launch[s].reader = "reading"
  /\ ~launch[s].announced
  /\ LaunchBecomes(s, [launch[s] EXCEPT !.announced = TRUE, !.discovered = launch[s].discovered + 1])
  /\ OnlyLaunch

\* A line longer than bridgeStderrLineMax ends the scan: nobody reads stderr any more.
LongLine(s) ==
  /\ launch[s].child = "running" /\ launch[s].reader = "reading"
  /\ LaunchBecomes(s, [launch[s] EXCEPT !.reader = "gone", !.unread = ~launch[s].announced])
  /\ OnlyLaunch

ChildExits(s) ==
  /\ launch[s].child = "running"
  /\ LaunchBecomes(s, [launch[s] EXCEPT !.child = "dead"])
  /\ OnlyLaunch

\* stderr is at its end.
Drained(s) ==
  /\ launch[s].child = "dead" /\ launch[s].reader = "reading"
  /\ LaunchBecomes(s, [launch[s] EXCEPT !.reader = "gone"])
  /\ OnlyLaunch

\* Variant: Wait is called when the process was seen to be ready only.
WaitReturns_WhenReady(s) ==
  /\ launch[s].child = "dead" /\ launch[s].reader = "gone" /\ launch[s].announced
  /\ ~launch[s].exited
  /\ LaunchBecomes(s, [launch[s] EXCEPT !.exited = TRUE])
  /\ OnlyLaunch

\* cmd.Wait, after drained; then exited is closed.
WaitReturns(s) ==
  /\ launch[s].child = "dead" /\ launch[s].reader = "gone"
  /\ ~launch[s].exited
  /\ LaunchBecomes(s, [launch[s] EXCEPT !.exited = TRUE])
  /\ OnlyLaunch

-----------------------------------------------------------------------------
StartInit ==
  /\ InstallInit
  /\ launch = [s \in Starters |->
       [pc |-> "none", workspace |-> FALSE, egress |-> FALSE, server |-> FALSE,
        child |-> "none", binary |-> "none", reader |-> "none", announced |-> FALSE,
        discovered |-> 0, unread |-> FALSE, exited |-> FALSE, control |-> FALSE]]

StartStep(s) ==
  \/ InstallStep(s) /\ UNCHANGED launch
  \/ MakeWorkspace(s) \/ StartEgress(s) \/ Spawn(s) \/ Handshake(s) \/ BindClients(s)
  \/ Ping(s) \/ StartCallback(s) \/ SetToolCallback(s)
  \/ AskShutdown(s) \/ Kill(s) \/ Exited(s) \/ Clear(s)

StderrStep(s) == Drained(s) \/ WaitReturns(s)

StartNext ==
  \/ \E s \in Starters :
       \/ Begin(s) /\ UNCHANGED launch
       \/ StartStep(s) \/ StderrStep(s) \/ Discovery(s) \/ LongLine(s) \/ ChildExits(s)
  \/ \E p \in Pids : Crash(p) /\ UNCHANGED launch

StartSpec == StartInit /\ [][StartNext]_startVars

\* Goroutines run, what is on a timeout ends, and a killed process dies.
StartFairSpec ==
  StartSpec /\ \A s \in Starters : WF_startVars(StartStep(s)) /\ WF_startVars(StderrStep(s))

-----------------------------------------------------------------------------
(* Properties *)

\* Wherever a start fails, it leaves no process, no directory and no server behind.
FailedStartLeavesNothing ==
  \A s \in Starters : launch[s].pc = "failed" =>
    /\ ~launch[s].workspace /\ ~launch[s].egress /\ ~launch[s].server
    /\ launch[s].child # "running"

\* A bridge that is handed out has announced itself, can be told to stop, and can call back.
ReadyIsComplete ==
  \A s \in Starters : launch[s].pc = "ready" =>
    launch[s].announced /\ launch[s].control /\ launch[s].server /\ launch[s].workspace

\* A start is all or nothing: complete when it succeeds, undone when it fails.
StartIsWhole == StartTypeOK /\ FailedStartLeavesNothing /\ ReadyIsComplete

\* Without a warning in the log, the process runs the pinned release.
RunsWhatItTrusts ==
  \A s \in Starters : launch[s].binary = "other" => starter[s].trust = "unverified"

\* What runs without a warning is the pinned release; and a start that is not disturbed, by others
\* or by what a crash of its own process left aside, installs it.
InstallIsSound == RunsWhatItTrusts /\ RecoversAlone

\* Every start of a process that lives ends, one way or the other.
StartEnds ==
  \A s \in Followed : starter[s].pc = "looking" ~>
    \/ starter[s].pc \in {"failed", "crashed"} \/ launch[s].pc \in {"ready", "failed"}

\* bridge.go:322: while the process lives its stderr is drained.
StderrDrained ==
  \A s \in Starters : launch[s].child = "running" => launch[s].reader = "reading"
=============================================================================
