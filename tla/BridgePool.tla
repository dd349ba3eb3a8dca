----------------------------- MODULE BridgePool -----------------------------
(***************************************************************************)
(* The bridge pool of the cursor plugin (auth-cursor/go/bridge.go).        *)
(*                                                                         *)
(* acquireBridge hands out the bridge process that serves a proxy and      *)
(* starts one if there is none; a start happens outside the pool's lock,   *)
(* and callers that come meanwhile join it.  stopBridges, called by a      *)
(* reconfigure (register.go) and by a shutdown (main.go), empties the pool *)
(* and bumps its generation, so that a start it overtook is not            *)
(* registered.  A bridge may die at any time.                              *)
(*                                                                         *)
(* A step is one critical section of bridgePool.mu, one read or write of   *)
(* currentConfig, or one call made outside the lock.                       *)
(***************************************************************************)
EXTENDS Integers

CONSTANTS
  Callers,    \* calls of acquireBridge
  Stoppers,   \* calls of configure and of shutdown
  Proxies,    \* resolved proxy URLs
  Processes,  \* bridge processes, each started once
  Configs,    \* values of the settings a bridge is bound to (bridge_path, proxy_url)
  FirstConfig,
  None        \* Go's nil

ASSUME PoolAssumption ==
  /\ None \notin Callers \cup Processes
  /\ FirstConfig \in Configs

VARIABLES
  procs,    \* bridgePool.procs
  gen,      \* bridgePool.gen
  starts,   \* bridgePool.starts; a bridgeStart goes by the name of the caller that leads it
  start,    \* [Callers -> the bridgeStart it leads]
  caller,   \* [Callers -> acquireBridge, and its local variables]
  process,  \* [Processes -> bridgeProcess]
  stopper,  \* [Stoppers -> configure or stopBridges, and its local variables]
  config    \* currentConfig

pool == <<procs, gen, starts>>

poolVars == <<pool, start, caller, process, stopper, config>>

-----------------------------------------------------------------------------
Start == [done : BOOLEAN, failed : BOOLEAN, process : Processes \cup {None}]

CallerPcs == {"idle", "looking", "joined", "leading", "starting", "started", "stopping",
              "returned", "refused"}

Caller == [pc : CallerPcs, proxy : Proxies \cup {None}, leader : Callers \cup {None},
           gen : Nat, config : Configs, process : Processes \cup {None},
           asked : Nat, overtaken : BOOLEAN]

Process == [life : {"unborn", "alive", "exited"}, stop : {"no", "begun", "done"},
            proxy : Proxies \cup {None}, config : Configs]

StopperPcs == {"idle", "loaded", "stored", "stopping", "done"}

Stopper == [pc : StopperPcs, previous : Configs, next : Configs, todo : SUBSET Processes]

PoolTypeOK ==
  /\ procs \in [Proxies -> Processes \cup {None}]
  /\ gen \in Nat
  /\ starts \in [Proxies -> Callers \cup {None}]
  /\ start \in [Callers -> Start]
  /\ caller \in [Callers -> Caller]
  /\ process \in [Processes -> Process]
  /\ stopper \in [Stoppers -> Stopper]
  /\ config \in Configs

-----------------------------------------------------------------------------
Alive(p) == process[p].life = "alive"

CallerBecomes(a, c) == caller' = [caller EXCEPT ![a] = c]
CallerAt(a, pc) == CallerBecomes(a, [caller[a] EXCEPT !.pc = pc])
StartBecomes(a, s) == start' = [start EXCEPT ![a] = s]
StopperBecomes(s, v) == stopper' = [stopper EXCEPT ![s] = v]

Returns(a, p) == CallerBecomes(a, [caller[a] EXCEPT !.pc = "returned", !.process = p])

-----------------------------------------------------------------------------
(* acquireBridge *)

Ask(a, x) ==
  /\ caller[a].pc = "idle"
  /\ CallerBecomes(a, [caller[a] EXCEPT !.pc = "looking", !.proxy = x, !.asked = gen])
  /\ UNCHANGED <<pool, start, process, stopper, config>>

\* The first critical section: a bridge that is alive is returned, a dead one is dropped,
\* a start under way is joined, and otherwise the caller leads a start of its own.
Reuse(a) ==
  LET p == procs[caller[a].proxy] IN
  /\ caller[a].pc = "looking"
  /\ p # None /\ Alive(p)
  /\ Returns(a, p)
  /\ UNCHANGED <<pool, start, process, stopper, config>>

NoneAlive(x) == procs[x] # None => ~Alive(procs[x])

Join(a) ==
  LET x == caller[a].proxy IN
  /\ caller[a].pc = "looking"
  /\ NoneAlive(x)
  /\ starts[x] # None
  /\ procs' = [procs EXCEPT ![x] = None]
  /\ CallerBecomes(a, [caller[a] EXCEPT !.pc = "joined", !.leader = starts[x]])
  /\ UNCHANGED <<gen, starts, start, process, stopper, config>>

\* Variant: a start under way is not looked for.
Lead_Always(a) ==
  LET x == caller[a].proxy IN
  /\ caller[a].pc = "looking"
  /\ NoneAlive(x)
  /\ procs' = [procs EXCEPT ![x] = None]
  /\ starts' = [starts EXCEPT ![x] = a]
  /\ StartBecomes(a, [done |-> FALSE, failed |-> FALSE, process |-> None])
  /\ CallerBecomes(a, [caller[a] EXCEPT !.pc = "leading", !.gen = gen])
  /\ UNCHANGED <<gen, process, stopper, config>>

Lead(a) ==
  LET x == caller[a].proxy IN
  /\ caller[a].pc = "looking"
  /\ NoneAlive(x)
  /\ starts[x] = None
  /\ procs' = [procs EXCEPT ![x] = None]
  /\ starts' = [starts EXCEPT ![x] = a]
  /\ StartBecomes(a, [done |-> FALSE, failed |-> FALSE, process |-> None])
  /\ CallerBecomes(a, [caller[a] EXCEPT !.pc = "leading", !.gen = gen])
  /\ UNCHANGED <<gen, process, stopper, config>>

\* The receive from inFlight.done.
Joined(a) ==
  LET s == start[caller[a].leader] IN
  /\ caller[a].pc = "joined"
  /\ s.done
  /\ \/ /\ s.failed
        /\ CallerBecomes(a, [caller[a] EXCEPT !.pc = "refused",
                                !.overtaken = caller[caller[a].leader].overtaken])
     \/ /\ ~s.failed /\ s.process # None /\ Alive(s.process)
        /\ Returns(a, s.process)
     \/ /\ ~s.failed /\ (s.process # None => ~Alive(s.process))
        /\ CallerAt(a, "looking")
  /\ UNCHANGED <<pool, start, process, stopper, config>>

\* loadedConfig(), evaluated after the lock is gone.
LoadConfig(a) ==
  /\ caller[a].pc = "leading"
  /\ CallerBecomes(a, [caller[a] EXCEPT !.pc = "starting", !.config = config])
  /\ UNCHANGED <<pool, start, process, stopper, config>>

\* startBridge, with the configuration it was given.
StartBridge(a, p) ==
  /\ caller[a].pc = "starting"
  /\ process[p].life = "unborn"
  /\ process' = [process EXCEPT ![p] = [life |-> "alive", stop |-> "no",
                                        proxy |-> caller[a].proxy, config |-> caller[a].config]]
  /\ CallerBecomes(a, [caller[a] EXCEPT !.pc = "started", !.process = p])
  /\ UNCHANGED <<pool, start, stopper, config>>

\* startBridge fails, having stopped whatever it had spawned; the second critical section.
StartFails(a) ==
  /\ caller[a].pc = "starting"
  /\ starts' = [starts EXCEPT ![caller[a].proxy] = None]
  /\ StartBecomes(a, [start[a] EXCEPT !.done = TRUE, !.failed = TRUE])
  /\ CallerAt(a, "refused")
  /\ UNCHANGED <<procs, gen, process, stopper, config>>

\* Variant: the generation is not compared.
Register_AnyGen(a) ==
  /\ caller[a].pc = "started"
  /\ starts' = [starts EXCEPT ![caller[a].proxy] = None]
  /\ procs' = [procs EXCEPT ![caller[a].proxy] = caller[a].process]
  /\ StartBecomes(a, [start[a] EXCEPT !.done = TRUE, !.process = caller[a].process])
  /\ CallerAt(a, "returned")
  /\ UNCHANGED <<gen, process, stopper, config>>

\* The second critical section of a start that came up.
Register(a) ==
  /\ caller[a].pc = "started"
  /\ caller[a].gen = gen
  /\ starts' = [starts EXCEPT ![caller[a].proxy] = None]
  /\ procs' = [procs EXCEPT ![caller[a].proxy] = caller[a].process]
  /\ StartBecomes(a, [start[a] EXCEPT !.done = TRUE, !.process = caller[a].process])
  /\ CallerAt(a, "returned")
  /\ UNCHANGED <<gen, process, stopper, config>>

\* Variant: a start that was overtaken forgets its process.
Overtaken_Dropped(a) ==
  /\ caller[a].pc = "started"
  /\ caller[a].gen # gen
  /\ starts' = [starts EXCEPT ![caller[a].proxy] = None]
  /\ StartBecomes(a, [start[a] EXCEPT !.done = TRUE, !.failed = TRUE])
  /\ CallerBecomes(a, [caller[a] EXCEPT !.pc = "refused", !.overtaken = TRUE])
  /\ UNCHANGED <<procs, gen, process, stopper, config>>

Overtaken(a) ==
  /\ caller[a].pc = "started"
  /\ caller[a].gen # gen
  /\ starts' = [starts EXCEPT ![caller[a].proxy] = None]
  /\ CallerAt(a, "stopping")
  /\ UNCHANGED <<procs, gen, start, process, stopper, config>>

\* Variant: the error is not passed on to those who joined.
RefuseOvertaken_Silent(a) ==
  /\ caller[a].pc = "stopping"
  /\ process[caller[a].process].stop = "done"
  /\ CallerBecomes(a, [caller[a] EXCEPT !.pc = "refused", !.overtaken = TRUE])
  /\ UNCHANGED <<pool, start, process, stopper, config>>

\* process.stop() has returned: the caller, and all who joined, get an error.
RefuseOvertaken(a) ==
  /\ caller[a].pc = "stopping"
  /\ process[caller[a].process].stop = "done"
  /\ StartBecomes(a, [start[a] EXCEPT !.done = TRUE, !.failed = TRUE])
  /\ CallerBecomes(a, [caller[a] EXCEPT !.pc = "refused", !.overtaken = TRUE])
  /\ UNCHANGED <<pool, process, stopper, config>>

-----------------------------------------------------------------------------
(* configure and stopBridges *)

\* configure reads the configuration it replaces.  The host reconfigures a plugin from one
\* place, one call after the other.
Configure(s, next) ==
  /\ stopper[s].pc = "idle"
  /\ \A o \in Stoppers : stopper[o].pc \notin {"loaded", "stored"}
  /\ StopperBecomes(s, [stopper[s] EXCEPT !.pc = "loaded", !.previous = config, !.next = next])
  /\ UNCHANGED <<pool, start, caller, process, config>>

StoreConfig(s) ==
  /\ stopper[s].pc = "loaded"
  /\ config' = stopper[s].next
  /\ StopperBecomes(s, [stopper[s] EXCEPT
       !.pc = IF stopper[s].previous # stopper[s].next THEN "stored" ELSE "done"])
  /\ UNCHANGED <<pool, start, caller, process>>

Registered == {procs[x] : x \in Proxies} \ {None}

\* The critical section of stopBridges, called by configure or, from "idle", by a shutdown.
StopBridges(s) ==
  /\ stopper[s].pc \in {"idle", "stored"}
  /\ gen' = gen + 1
  /\ procs' = [x \in Proxies |-> None]
  /\ StopperBecomes(s, [stopper[s] EXCEPT !.pc = "stopping", !.todo = Registered])
  /\ UNCHANGED <<starts, start, caller, process, config>>

StopBridgesReturns(s) ==
  /\ stopper[s].pc = "stopping"
  /\ \A p \in stopper[s].todo : process[p].stop = "done"
  /\ StopperBecomes(s, [stopper[s] EXCEPT !.pc = "done"])
  /\ UNCHANGED <<pool, start, caller, process, config>>

-----------------------------------------------------------------------------
(* bridgeProcess *)

\* Who calls stop on a process: stopBridges, one process at a time, and a caller that was
\* overtaken.
ToStop(p) ==
  \/ \E s \in Stoppers : /\ stopper[s].pc = "stopping"
                         /\ p \in stopper[s].todo
                         /\ \A o \in stopper[s].todo : process[o].stop # "begun"
  \/ \E a \in Callers : caller[a].pc = "stopping" /\ caller[a].process = p

\* stopOnce lets one caller in: tool runs are failed, sessions evicted, Shutdown is sent.
StopBegins(p) ==
  /\ ToStop(p)
  /\ process[p].stop = "no"
  /\ process' = [process EXCEPT ![p].stop = "begun"]
  /\ UNCHANGED <<pool, start, caller, stopper, config>>

\* Variant: a bridge that ignores Shutdown is not killed.
Exits_NoKill(p) ==
  /\ Alive(p)
  /\ process[p].stop = "no"
  /\ process' = [process EXCEPT ![p].life = "exited"]
  /\ UNCHANGED <<pool, start, caller, stopper, config>>

\* A bridge exits by itself, on the Shutdown or on the Kill that follows it.
Exits(p) ==
  /\ Alive(p)
  /\ process' = [process EXCEPT ![p].life = "exited"]
  /\ UNCHANGED <<pool, start, caller, stopper, config>>

\* The workspace, the egress and the callback server are gone.
StopEnds(p) ==
  /\ process[p].stop = "begun"
  /\ process[p].life = "exited"
  /\ process' = [process EXCEPT ![p].stop = "done"]
  /\ UNCHANGED <<pool, start, caller, stopper, config>>

-----------------------------------------------------------------------------
PoolInit ==
  /\ procs = [x \in Proxies |-> None]
  /\ gen = 0
  /\ starts = [x \in Proxies |-> None]
  /\ start = [a \in Callers |-> [done |-> FALSE, failed |-> FALSE, process |-> None]]
  /\ caller = [a \in Callers |->
       [pc |-> "idle", proxy |-> None, leader |-> None, gen |-> 0, config |-> FirstConfig,
        process |-> None, asked |-> 0, overtaken |-> FALSE]]
  /\ process = [p \in Processes |->
       [life |-> "unborn", stop |-> "no", proxy |-> None, config |-> FirstConfig]]
  /\ stopper = [s \in Stoppers |->
       [pc |-> "idle", previous |-> FirstConfig, next |-> FirstConfig, todo |-> {}]]
  /\ config = FirstConfig

Starting(a) == (\E p \in Processes : StartBridge(a, p)) \/ StartFails(a)

CallerStep(a) ==
  \/ Reuse(a) \/ Join(a) \/ Lead(a) \/ Joined(a) \/ LoadConfig(a) \/ Starting(a)
  \/ Register(a) \/ Overtaken(a) \/ RefuseOvertaken(a)

StopperStep(s) ==
  \/ StoreConfig(s)
  \/ stopper[s].pc = "stored" /\ StopBridges(s)
  \/ StopBridgesReturns(s)

Shutdown(s) == stopper[s].pc = "idle" /\ StopBridges(s)

ProcessStep(p) == StopBegins(p) \/ StopEnds(p)

PoolNext ==
  \/ \E a \in Callers : CallerStep(a) \/ \E x \in Proxies : Ask(a, x)
  \/ \E s \in Stoppers :
       StopperStep(s) \/ Shutdown(s) \/ \E next \in Configs : Configure(s, next)
  \/ \E p \in Processes : ProcessStep(p) \/ Exits(p)

PoolSpec == PoolInit /\ [][PoolNext]_poolVars

\* Go schedules the calls, startBridge comes to an end (its handshake and its RPCs are on
\* timeouts) and a bridge that is stopped exits, killed if need be.
PoolFairness ==
  /\ \A a \in Callers : WF_poolVars(CallerStep(a))
  /\ \A s \in Stoppers : WF_poolVars(StopperStep(s))
  /\ \A p \in Processes :
       WF_poolVars(ProcessStep(p)) /\ WF_poolVars(process[p].stop = "begun" /\ Exits(p))

PoolFairSpec == PoolSpec /\ PoolFairness

-----------------------------------------------------------------------------
(* Safety. *)

\* Processes stopBridges has taken out of the pool and not yet stopped.
Draining == UNION {stopper[s].todo : s \in {t \in Stoppers : stopper[t].pc = "stopping"}}

\* A running bridge is always somebody's: it is registered for its proxy, its start is under
\* way, or it is about to be stopped.  No order of starts, joins and stops loses a process.
NoBridgeIsLost ==
  \A p \in Processes : (Alive(p) /\ process[p].stop = "no") =>
    \/ procs[process[p].proxy] = p
    \/ \E a \in Callers : caller[a].pc \in {"started", "stopping"} /\ caller[a].process = p
    \/ p \in Draining

\* One bridge per proxy (README.md:95): of the running bridges nobody is stopping, two never
\* serve the same proxy, however many callers ask for it at once.
OneBridgePerProxy ==
  \A p, o \in Processes :
    LET Kept(b) == /\ Alive(b) /\ process[b].stop = "no" /\ b \notin Draining
                   /\ ~ \E a \in Callers : caller[a].pc = "stopping" /\ caller[a].process = b
    IN (p # o /\ Kept(p) /\ Kept(o)) => process[p].proxy # process[o].proxy

\* After a reconfigure the pool serves no bridge of an older configuration, not even one whose
\* start the reconfigure overtook.
PoolHasCurrentConfig ==
  (\A s \in Stoppers : stopper[s].pc # "stored") =>
    \A x \in Proxies : procs[x] # None => process[procs[x]].config = config

\* The running bridges are the pool's: none escapes it, and it keeps one for each proxy, of the
\* settings in force.
BridgesAreKnown == NoBridgeIsLost /\ OneBridgePerProxy /\ PoolHasCurrentConfig

\* A caller gets a bridge of the proxy it asked for, also from a start it joined.
ReturnedForItsProxy ==
  \A a \in Callers : caller[a].pc = "returned" =>
    /\ caller[a].process # None
    /\ process[caller[a].process].proxy = caller[a].proxy

(* Liveness. *)

\* Every acquireBridge returns, joined or leading, overtaken or not.
AcquireReturns ==
  \A a \in Callers : caller[a].pc = "looking" ~> caller[a].pc \in {"returned", "refused"}

\* stopBridges returns, and has then stopped all it took out of the pool.
StopReturns ==
  \A s \in Stoppers : stopper[s].pc = "stored" ~>
    (stopper[s].pc = "done" /\ \A p \in stopper[s].todo : process[p].stop = "done")

\* Nobody waits for ever in the pool: neither who asks for a bridge nor who stops them.
PoolCallsReturn == AcquireReturns /\ StopReturns

(* What the code's comments say, and some interleaving refutes. *)

\* register.go:81: the next request after a reconfigure picks up the new settings.  As long as
\* there was no shutdown, a request is refused as overtaken only if a stop came after it.
RefusedOnlyByLaterStop ==
  (\A s \in Stoppers : stopper[s].pc \in {"stopping", "done"} =>
                       stopper[s].previous # stopper[s].next) =>
    \A a \in Callers : (caller[a].pc = "refused" /\ caller[a].overtaken) =>
      gen > caller[a].asked

\* bridge.go:145: stop removes the scratch workspace of a bridge: a bridge the pool has let go
\* of and nobody is starting or stopping has been stopped.
DroppedBridgeIsStopped ==
  \A p \in Processes :
    process[p].life # "unborn" =>
      \/ p \in Registered \/ p \in Draining \/ process[p].stop # "no"
      \/ \E a \in Callers : caller[a].pc \in {"started", "stopping"} /\ caller[a].process = p
=============================================================================
