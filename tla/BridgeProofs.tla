---------------------------- MODULE BridgeProofs ----------------------------
(***************************************************************************)
(* Theorems about the bridges of the Cursor plugin: first the pool, for    *)
(* any number of callers, stops, proxies and processes; then how one is    *)
(* installed and started, for any number of starts and processes; and at   *)
(* the end how it is reached, for any environment and machine.             *)
(***************************************************************************)
EXTENDS BridgePool, MCBridgeStart, ListTheorems, TLAPS

(* The inductive invariant: what callers, starts, slots of the pool,       *)
(* processes and reconfigures know of each other.                          *)

Leading == {"leading", "starting", "started"}

\* A reconfigure has stored its settings and not yet emptied the pool.
Stored == \E s \in Stoppers : stopper[s].pc = "stored"

\* A process that came up, for a proxy.
Born(p, x) == p \in Processes /\ process[p].life # "unborn" /\ process[p].proxy = x

CallersFit ==
  \A a \in Callers :
    /\ caller[a].pc # "idle" => caller[a].proxy \in Proxies
    /\ caller[a].pc = "joined" =>
         /\ caller[a].leader \in Callers
         /\ caller[caller[a].leader].proxy = caller[a].proxy
         /\ caller[caller[a].leader].pc # "idle"
    /\ caller[a].pc \in {"started", "stopping", "returned"} =>
         Born(caller[a].process, caller[a].proxy)
    /\ caller[a].pc \in Leading => starts[caller[a].proxy] = a
    /\ start[a].process # None =>
         caller[a].pc # "idle" /\ Born(start[a].process, caller[a].proxy)

SlotsFit ==
  \A x \in Proxies :
    /\ starts[x] # None =>
         /\ procs[x] = None
         /\ caller[starts[x]].pc \in Leading /\ caller[starts[x]].proxy = x
    /\ procs[x] # None => Born(procs[x], x)

BornForProxy == \A p \in Processes : process[p].life # "unborn" => process[p].proxy \in Proxies

\* Of the settings: who has old ones knows it by its generation, or a stop is due.
SettingsFit ==
  /\ \A s, o \in Stoppers :
       (stopper[s].pc \in {"loaded", "stored"} /\ stopper[o].pc \in {"loaded", "stored"}) => s = o
  /\ \A s \in Stoppers : stopper[s].pc = "loaded" => stopper[s].previous = config
  /\ \A a \in Callers :
       /\ caller[a].gen <= gen
       /\ caller[a].pc = "started" => process[caller[a].process].config = caller[a].config
       /\ caller[a].pc \in {"starting", "started"} =>
            caller[a].gen # gen \/ caller[a].config = config \/ Stored
  /\ \A x \in Proxies : procs[x] # None => process[procs[x]].config = config \/ Stored

PoolInv ==
  PoolTypeOK /\ CallersFit /\ SlotsFit /\ BornForProxy /\ SettingsFit /\ NoBridgeIsLost

(***************************************************************************)
(* Types.                                                                  *)
(***************************************************************************)
\* A value of the type may take the place of a caller, of a start, of a stopper.
LEMMA CallerTypes ==
  ASSUME PoolTypeOK, NEW a \in Callers
  PROVE  /\ caller[a] \in Caller
         /\ \A c \in Caller : CallerBecomes(a, c) => caller' \in [Callers -> Caller]
         /\ \A pc \in CallerPcs : CallerAt(a, pc) => caller' \in [Callers -> Caller]
         /\ \A p \in Processes : Returns(a, p) => caller' \in [Callers -> Caller]
<1>1. caller[a] \in Caller
  BY DEF PoolTypeOK
<1>2. \A pc \in CallerPcs : [caller[a] EXCEPT !.pc = pc] \in Caller
  BY <1>1 DEF Caller
<1>3. \A p \in Processes : [caller[a] EXCEPT !.pc = "returned", !.process = p] \in Caller
  BY <1>1 DEF Caller, CallerPcs
<1>4. \A c \in Caller : CallerBecomes(a, c) => caller' \in [Callers -> Caller]
  BY DEF PoolTypeOK, CallerBecomes
<1> QED
  BY <1>1, <1>2, <1>3, <1>4, Zenon DEF CallerAt, Returns

LEMMA StartTypes ==
  ASSUME PoolTypeOK, NEW a \in Callers
  PROVE  /\ start[a] \in Start
         /\ \A s \in Start : StartBecomes(a, s) => start' \in [Callers -> Start]
BY DEF PoolTypeOK, StartBecomes

LEMMA StopperTypes ==
  ASSUME PoolTypeOK, NEW s \in Stoppers
  PROVE  /\ stopper[s] \in Stopper
         /\ \A v \in Stopper : StopperBecomes(s, v) => stopper' \in [Stoppers -> Stopper]
BY DEF PoolTypeOK, StopperBecomes

\* Every step but those of a process and of a stop keeps the types.
LEMMA CallerStepTypes ==
  ASSUME PoolTypeOK, CallersFit, NEW a \in Callers,
         CallerStep(a) \/ \E x \in Proxies : Ask(a, x)
  PROVE  PoolTypeOK'
<1> USE CallerTypes, StartTypes, PoolAssumption
<1>1. ASSUME NEW x \in Proxies, Ask(a, x) PROVE PoolTypeOK'
  <2>1. [caller[a] EXCEPT !.pc = "looking", !.proxy = x, !.asked = gen] \in Caller
    BY DEF Caller, CallerPcs, PoolTypeOK
  <2> QED
    BY <1>1, <2>1 DEF Ask, PoolTypeOK, pool
<1>2. ASSUME Reuse(a) PROVE PoolTypeOK'
  <2>1. caller[a].proxy \in Proxies
    BY <1>2 DEF Reuse, CallersFit
  <2>2. procs[caller[a].proxy] \in Processes
    BY <1>2, <2>1 DEF Reuse, PoolTypeOK
  <2> QED
    BY <1>2, <2>2 DEF Reuse, PoolTypeOK, pool
<1>3. ASSUME Join(a) PROVE PoolTypeOK'
  <2>1. starts[caller[a].proxy] \in Callers
    BY <1>3 DEF Join, CallersFit, PoolTypeOK
  <2>2. [caller[a] EXCEPT !.pc = "joined", !.leader = starts[caller[a].proxy]] \in Caller
    BY <2>1 DEF Caller, CallerPcs
  <2> QED
    BY <1>3, <2>2 DEF Join, PoolTypeOK
<1>4. ASSUME Lead(a) PROVE PoolTypeOK'
  <2>1. [caller[a] EXCEPT !.pc = "leading", !.gen = gen] \in Caller
    BY DEF Caller, CallerPcs, PoolTypeOK
  <2>2. [done |-> FALSE, failed |-> FALSE, process |-> None] \in Start
    BY DEF Start
  <2> QED
    BY <1>4, <2>1, <2>2 DEF Lead, PoolTypeOK
<1>5. ASSUME Joined(a) PROVE PoolTypeOK'
  <2>1. caller[a].leader \in Callers
    BY <1>5 DEF Joined, CallersFit
  <2>2. start[caller[a].leader] \in Start /\ caller[caller[a].leader] \in Caller
    BY <2>1 DEF PoolTypeOK
  <2>3. [caller[a] EXCEPT !.pc = "refused", !.overtaken = caller[caller[a].leader].overtaken]
          \in Caller
    BY <2>2 DEF Caller, CallerPcs
  <2>4. start[caller[a].leader].process # None => start[caller[a].leader].process \in Processes
    BY <2>2 DEF Start
  <2>5. "looking" \in CallerPcs
    BY DEF CallerPcs
  <2>6. caller' \in [Callers -> Caller]
    BY <1>5, <2>3, <2>4, <2>5, Zenon DEF Joined
  <2> QED
    BY <1>5, <2>6 DEF Joined, PoolTypeOK, pool
<1>6. ASSUME LoadConfig(a) PROVE PoolTypeOK'
  <2>1. [caller[a] EXCEPT !.pc = "starting", !.config = config] \in Caller
    BY DEF Caller, CallerPcs, PoolTypeOK
  <2> QED
    BY <1>6, <2>1 DEF LoadConfig, PoolTypeOK, pool
<1>7. ASSUME NEW p \in Processes, StartBridge(a, p) PROVE PoolTypeOK'
  <2>1. [caller[a] EXCEPT !.pc = "started", !.process = p] \in Caller
    BY DEF Caller, CallerPcs
  <2>2. [life |-> "alive", stop |-> "no", proxy |-> caller[a].proxy, config |-> caller[a].config]
          \in Process
    BY DEF Process, Caller
  <2> QED
    BY <1>7, <2>1, <2>2 DEF StartBridge, PoolTypeOK, pool
<1>8. ASSUME StartFails(a) PROVE PoolTypeOK'
  <2>1. "refused" \in CallerPcs /\ [start[a] EXCEPT !.done = TRUE, !.failed = TRUE] \in Start
    BY DEF CallerPcs, Start
  <2> QED
    BY <1>8, <2>1 DEF StartFails, PoolTypeOK
<1>9. ASSUME Register(a) PROVE PoolTypeOK'
  <2>1. caller[a].process \in Processes /\ "returned" \in CallerPcs
    BY <1>9 DEF Register, CallersFit, Born, CallerPcs
  <2>2. [start[a] EXCEPT !.done = TRUE, !.process = caller[a].process] \in Start
    BY <2>1 DEF Start
  <2> QED
    BY <1>9, <2>1, <2>2 DEF Register, PoolTypeOK
<1>10. ASSUME Overtaken(a) PROVE PoolTypeOK'
  <2>1. "stopping" \in CallerPcs
    BY DEF CallerPcs
  <2> QED
    BY <1>10, <2>1 DEF Overtaken, PoolTypeOK
<1>11. ASSUME RefuseOvertaken(a) PROVE PoolTypeOK'
  <2>1. [start[a] EXCEPT !.done = TRUE, !.failed = TRUE] \in Start
    BY DEF Start
  <2>2. [caller[a] EXCEPT !.pc = "refused", !.overtaken = TRUE] \in Caller
    BY DEF Caller, CallerPcs
  <2> QED
    BY <1>11, <2>1, <2>2 DEF RefuseOvertaken, PoolTypeOK, pool
<1> QED
  BY <1>1, <1>2, <1>3, <1>4, <1>5, <1>6, <1>7, <1>8, <1>9, <1>10, <1>11 DEF CallerStep, Starting

LEMMA OtherStepTypes ==
  ASSUME PoolTypeOK,
         \/ \E s \in Stoppers : \/ StopperStep(s) \/ Shutdown(s)
                                \/ \E next \in Configs : Configure(s, next)
         \/ \E p \in Processes : ProcessStep(p) \/ Exits(p)
  PROVE  PoolTypeOK'
<1> USE StopperTypes
<1>1. ASSUME NEW s \in Stoppers, NEW next \in Configs, Configure(s, next) PROVE PoolTypeOK'
  <2>1. [stopper[s] EXCEPT !.pc = "loaded", !.previous = config, !.next = next] \in Stopper
    BY DEF Stopper, StopperPcs, PoolTypeOK
  <2> QED
    BY <1>1, <2>1 DEF Configure, PoolTypeOK, pool
<1>2. ASSUME NEW s \in Stoppers, StoreConfig(s) PROVE PoolTypeOK'
  <2>1. [stopper[s] EXCEPT !.pc = IF stopper[s].previous # stopper[s].next
                                   THEN "stored" ELSE "done"] \in Stopper
    BY DEF Stopper, StopperPcs
  <2>2. config' \in Configs
    BY <1>2 DEF StoreConfig, Stopper
  <2> QED
    BY <1>2, <2>1, <2>2 DEF StoreConfig, PoolTypeOK, pool
<1>3. ASSUME NEW s \in Stoppers, StopBridges(s) PROVE PoolTypeOK'
  <2>1. Registered \in SUBSET Processes
    BY DEF Registered, PoolTypeOK
  <2>2. [stopper[s] EXCEPT !.pc = "stopping", !.todo = Registered] \in Stopper
    BY <2>1 DEF Stopper, StopperPcs
  <2>3. stopper' \in [Stoppers -> Stopper]
    BY <1>3, <2>2 DEF StopBridges
  <2> QED
    BY <1>3, <2>3 DEF StopBridges, PoolTypeOK
<1>4. ASSUME NEW s \in Stoppers, StopBridgesReturns(s) PROVE PoolTypeOK'
  <2>1. [stopper[s] EXCEPT !.pc = "done"] \in Stopper
    BY DEF Stopper, StopperPcs
  <2> QED
    BY <1>4, <2>1 DEF StopBridgesReturns, PoolTypeOK, pool
<1>5. ASSUME NEW p \in Processes, ProcessStep(p) \/ Exits(p) PROVE PoolTypeOK'
  <2>1. process[p] \in Process
    BY DEF PoolTypeOK
  <2>2. process' \in [Processes -> Process]
    BY <1>5, <2>1 DEF ProcessStep, StopBegins, StopEnds, Exits, PoolTypeOK, Process
  <2> QED
    BY <1>5, <2>2 DEF ProcessStep, StopBegins, StopEnds, Exits, PoolTypeOK, pool
<1> QED
  BY <1>1, <1>2, <1>3, <1>4, <1>5 DEF StopperStep, Shutdown

(***************************************************************************)
(* Each step keeps the rest of the invariant.                              *)
(***************************************************************************)
Rest == CallersFit /\ SlotsFit /\ BornForProxy /\ SettingsFit /\ NoBridgeIsLost

\* What a step of one caller leaves alone of the others.
LEMMA OthersStay ==
  ASSUME PoolTypeOK, NEW a \in Callers, NEW c, CallerBecomes(a, c)
  PROVE  caller'[a] = c /\ \A b \in Callers : b # a => caller'[b] = caller[b]
BY DEF PoolTypeOK, CallerBecomes

\* A step that takes a caller nowhere near a start, and changes nothing else.
LEMMA QuietCallerStep ==
  ASSUME PoolInv, NEW a \in Callers, NEW c \in Caller, CallerBecomes(a, c),
         caller[a].pc \notin Leading \cup {"stopping"}, c.pc \notin Leading \cup {"idle", "stopping"},
         c.proxy \in Proxies, caller[a].pc # "idle" => c.proxy = caller[a].proxy,
         c.gen = caller[a].gen,
         c.pc = "joined" => /\ c.leader \in Callers /\ caller[c.leader].proxy = c.proxy
                            /\ caller[c.leader].pc # "idle",
         c.pc = "returned" => Born(c.process, c.proxy),
         UNCHANGED <<starts, start, process, stopper, config, gen>>,
         \A x \in Proxies : procs'[x] = procs[x] \/ (procs'[x] = None /\ ~Alive(procs[x]))
  PROVE  Rest'
<1>1. caller'[a] = c /\ \A b \in Callers : b # a => caller'[b] = caller[b]
  BY OthersStay DEF PoolInv
<1>2. PoolTypeOK /\ CallersFit /\ SlotsFit /\ BornForProxy /\ SettingsFit /\ NoBridgeIsLost
  BY DEF PoolInv
<1>3. BornForProxy'
  BY <1>2 DEF BornForProxy
<1>4. CallersFit'
  BY <1>1, <1>2 DEF CallersFit, Born, Leading
<1>5. SlotsFit'
  BY <1>1, <1>2 DEF SlotsFit, Born, Leading, PoolTypeOK
<1>6. SettingsFit'
  BY <1>1, <1>2, PoolAssumption DEF SettingsFit, Stored, Leading
<1>7. NoBridgeIsLost'
  BY <1>1, <1>2, PoolAssumption DEF NoBridgeIsLost, BornForProxy, Alive, Draining, Leading
<1> QED
  BY <1>3, <1>4, <1>5, <1>6, <1>7 DEF Rest

LEMMA QuietSteps ==
  ASSUME PoolInv, NEW a \in Callers,
         (\E x \in Proxies : Ask(a, x)) \/ Reuse(a) \/ Join(a) \/ Joined(a)
  PROVE  Rest'
<1> DEFINE b == caller[a]
<1>0. b \in Caller /\ PoolTypeOK /\ CallersFit /\ SlotsFit
  BY DEF PoolInv, PoolTypeOK
<1>1. ASSUME NEW x \in Proxies, Ask(a, x) PROVE Rest'
  <2> DEFINE c == [b EXCEPT !.pc = "looking", !.proxy = x, !.asked = gen]
  <2>1. c \in Caller /\ c.pc = "looking" /\ c.proxy = x /\ c.gen = b.gen
    BY <1>0 DEF Caller, CallerPcs, PoolTypeOK
  <2>2. CallerBecomes(a, c) /\ b.pc = "idle" /\ UNCHANGED <<pool, start, process, stopper, config>>
    BY <1>1, Zenon DEF Ask
  <2> HIDE DEF c
  <2> QED
    BY <2>1, <2>2, QuietCallerStep DEF pool, Leading
<1>2. ASSUME Reuse(a) PROVE Rest'
  <2> DEFINE p == procs[b.proxy]
             c == [b EXCEPT !.pc = "returned", !.process = p]
  <2>1. b.pc = "looking" /\ p # None /\ b.proxy \in Proxies
    BY <1>0, <1>2 DEF Reuse, CallersFit
  <2>2. Born(p, b.proxy)
    BY <1>0, <2>1 DEF SlotsFit
  <2>3. /\ c \in Caller /\ c.pc = "returned" /\ c.process = p /\ c.proxy = b.proxy
        /\ c.gen = b.gen
    BY <1>0, <2>2 DEF Caller, CallerPcs, Born
  <2>4. CallerBecomes(a, c) /\ UNCHANGED <<pool, start, process, stopper, config>>
    BY <1>2, Zenon DEF Reuse, Returns
  <2> HIDE DEF c
  <2> QED
    BY <2>1, <2>2, <2>3, <2>4, QuietCallerStep DEF pool, Leading
<1>3. ASSUME Join(a) PROVE Rest'
  <2> DEFINE l == starts[b.proxy]
             c == [b EXCEPT !.pc = "joined", !.leader = l]
  <2>1. b.pc = "looking" /\ l # None /\ b.proxy \in Proxies
    BY <1>0, <1>3 DEF Join, CallersFit
  <2>2. l \in Callers /\ caller[l].proxy = b.proxy /\ caller[l].pc # "idle"
    BY <1>0, <2>1 DEF SlotsFit, PoolTypeOK, Leading
  <2>3. /\ c \in Caller /\ c.pc = "joined" /\ c.leader = l /\ c.proxy = b.proxy
        /\ c.gen = b.gen
    BY <1>0, <2>2 DEF Caller, CallerPcs
  <2>4. /\ CallerBecomes(a, c) /\ UNCHANGED <<gen, starts, start, process, stopper, config>>
        /\ procs' = [procs EXCEPT ![b.proxy] = None] /\ NoneAlive(b.proxy)
    BY <1>3, Zenon DEF Join
  <2>5. \A x \in Proxies : procs'[x] = procs[x] \/ (procs'[x] = None /\ ~Alive(procs[x]))
    BY <1>0, <2>1, <2>4 DEF NoneAlive, PoolTypeOK, SlotsFit
  <2> HIDE DEF c, l
  <2> QED
    BY <2>1, <2>2, <2>3, <2>4, <2>5, QuietCallerStep DEF Leading
<1>4. ASSUME Joined(a) PROVE Rest'
  <2> DEFINE l == b.leader
  <2>1. b.pc = "joined" /\ l \in Callers /\ caller[l].proxy = b.proxy /\ b.proxy \in Proxies
    BY <1>0, <1>4 DEF Joined, CallersFit
  <2>2. start[l].process # None => Born(start[l].process, b.proxy)
    BY <1>0, <2>1 DEF CallersFit
  <2>3. caller[l] \in Caller
    BY <1>0, <2>1 DEF PoolTypeOK
  <2> DEFINE refused == [b EXCEPT !.pc = "refused", !.overtaken = caller[l].overtaken]
             looking == [b EXCEPT !.pc = "looking"]
             returned == [b EXCEPT !.pc = "returned", !.process = start[l].process]
  <2>4. \/ CallerBecomes(a, refused)
        \/ CallerBecomes(a, looking)
        \/ CallerBecomes(a, returned) /\ start[l].process # None
    BY <1>4, Zenon DEF Joined, Returns, CallerAt
  <2>5. UNCHANGED <<pool, start, process, stopper, config>>
    BY <1>4 DEF Joined
  <2>6. /\ refused \in Caller /\ refused.pc = "refused" /\ refused.proxy = b.proxy
        /\ refused.gen = b.gen
        /\ looking \in Caller /\ looking.pc = "looking" /\ looking.proxy = b.proxy
        /\ looking.gen = b.gen
    BY <1>0, <2>3 DEF Caller, CallerPcs
  <2>7. start[l].process # None =>
          /\ returned \in Caller /\ returned.pc = "returned" /\ returned.proxy = b.proxy
          /\ returned.gen = b.gen /\ returned.process = start[l].process
    BY <1>0, <2>2 DEF Caller, CallerPcs, Born
  <2> HIDE DEF refused, looking, returned
  <2>8. \A c \in Caller :
          (CallerBecomes(a, c) /\ c.pc \in {"refused", "looking", "returned"}
           /\ c.proxy = b.proxy /\ c.gen = b.gen
           /\ (c.pc = "returned" => Born(c.process, b.proxy))) => Rest'
    BY <2>1, <2>5, QuietCallerStep DEF pool, Leading
  <2> QED
    BY <2>2, <2>4, <2>6, <2>7, <2>8
<1> QED
  BY <1>1, <1>2, <1>3, <1>4

\* A step of a caller that leads: what becomes of it, and of its start.
LEMMA LeaderFields ==
  ASSUME PoolTypeOK, NEW a \in Callers
  PROVE  /\ \A pc \in CallerPcs : CallerAt(a, pc) =>
              /\ caller'[a].pc = pc /\ caller'[a].proxy = caller[a].proxy
              /\ caller'[a].leader = caller[a].leader /\ caller'[a].gen = caller[a].gen
              /\ caller'[a].config = caller[a].config /\ caller'[a].process = caller[a].process
         /\ \A pc \in CallerPcs : CallerAt(a, pc) => \A b \in Callers : b # a => caller'[b] = caller[b]
         /\ \A s \in Start : StartBecomes(a, s) =>
              start'[a] = s /\ \A b \in Callers : b # a => start'[b] = start[b]
<1>1. caller[a] \in Caller /\ caller \in [Callers -> Caller]
  BY DEF PoolTypeOK
<1>2. ASSUME NEW pc \in CallerPcs, CallerAt(a, pc)
      PROVE  /\ caller'[a] = [caller[a] EXCEPT !.pc = pc]
             /\ \A b \in Callers : b # a => caller'[b] = caller[b]
  BY <1>1, <1>2 DEF CallerAt, CallerBecomes
<1>3. ASSUME NEW pc \in CallerPcs, CallerAt(a, pc)
      PROVE  /\ caller'[a].pc = pc /\ caller'[a].proxy = caller[a].proxy
             /\ caller'[a].leader = caller[a].leader /\ caller'[a].gen = caller[a].gen
             /\ caller'[a].config = caller[a].config /\ caller'[a].process = caller[a].process
  BY <1>1, <1>2, <1>3 DEF Caller
<1>4. ASSUME NEW s \in Start, StartBecomes(a, s)
      PROVE  start'[a] = s /\ \A b \in Callers : b # a => start'[b] = start[b]
  BY <1>4 DEF StartBecomes, PoolTypeOK
<1> QED
  BY <1>2, <1>3, <1>4

LEMMA LeadStep ==
  ASSUME PoolInv, NEW a \in Callers, Lead(a)
  PROVE  Rest'
<1> DEFINE x == caller[a].proxy
<1>1. PoolTypeOK /\ CallersFit /\ SlotsFit /\ BornForProxy /\ SettingsFit /\ NoBridgeIsLost
  BY DEF PoolInv
<1>2. caller[a].pc = "looking" /\ x \in Proxies /\ starts[x] = None /\ NoneAlive(x)
  BY <1>1 DEF Lead, CallersFit
<1>3. /\ \A b \in Callers : b # a => caller'[b] = caller[b] /\ start'[b] = start[b]
      /\ caller'[a].pc = "leading" /\ caller'[a].proxy = x /\ caller'[a].gen = gen
      /\ start'[a].process = None
  <2>1. caller[a] \in Caller /\ caller \in [Callers -> Caller] /\ start \in [Callers -> Start]
    BY <1>1 DEF PoolTypeOK
  <2>2. /\ caller' = [caller EXCEPT ![a] = [caller[a] EXCEPT !.pc = "leading", !.gen = gen]]
        /\ start' = [start EXCEPT ![a] = [done |-> FALSE, failed |-> FALSE, process |-> None]]
    BY Zenon DEF Lead, CallerBecomes, StartBecomes
  <2> QED
    BY <2>1, <2>2 DEF Caller
<1>4. /\ procs'[x] = None /\ starts'[x] = a
      /\ \A y \in Proxies : y # x => procs'[y] = procs[y] /\ starts'[y] = starts[y]
      /\ UNCHANGED <<gen, process, stopper, config>>
  BY <1>1, <1>2 DEF Lead, PoolTypeOK
<1>5. BornForProxy'
  BY <1>1, <1>4 DEF BornForProxy
<1>6. CallersFit'
  <2>1. \A b \in Callers : caller[b].pc # "idle" => caller'[b].pc # "idle" /\ caller'[b].proxy = caller[b].proxy
    BY <1>2, <1>3
  <2>2. \A b \in Callers \ {a} : caller[b].pc \in Leading => starts'[caller[b].proxy] = b
    BY <1>1, <1>2, <1>4, PoolAssumption DEF CallersFit, Leading
  <2>3. \A p, y : Born(p, y) => Born(p, y)'
    BY <1>4 DEF Born
  <2> HIDE DEF x
  <2> QED
    BY <1>1, <1>2, <1>3, <1>4, <2>1, <2>2, <2>3 DEF CallersFit, Leading
<1>7. SlotsFit'
  BY <1>1, <1>2, <1>3, <1>4 DEF SlotsFit, Born, Leading, PoolTypeOK
<1>8. SettingsFit'
  <2>1. \A b \in Callers : caller'[b].gen <= gen
    BY <1>1, <1>3 DEF SettingsFit, PoolTypeOK
  <2>2. \A b \in Callers : caller'[b].pc \in {"starting", "started"} => caller'[b] = caller[b]
    BY <1>3
  <2> QED
    BY <1>1, <1>2, <1>4, <2>1, <2>2 DEF SettingsFit, Stored
<1>9. NoBridgeIsLost'
  BY <1>1, <1>2, <1>3, <1>4, PoolAssumption DEF NoBridgeIsLost, BornForProxy, Alive, NoneAlive, Draining
<1> QED
  BY <1>5, <1>6, <1>7, <1>8, <1>9 DEF Rest

LEMMA LoadConfigStep ==
  ASSUME PoolInv, NEW a \in Callers, LoadConfig(a)
  PROVE  Rest'
<1>1. PoolTypeOK /\ CallersFit /\ SlotsFit /\ BornForProxy /\ SettingsFit /\ NoBridgeIsLost
  BY DEF PoolInv
<1>2. /\ caller[a].pc = "leading"
      /\ \A b \in Callers : b # a => caller'[b] = caller[b]
      /\ caller'[a].pc = "starting" /\ caller'[a].proxy = caller[a].proxy
      /\ caller'[a].gen = caller[a].gen /\ caller'[a].config = config
  <2>1. caller[a] \in Caller /\ caller \in [Callers -> Caller]
    BY <1>1 DEF PoolTypeOK
  <2>2. caller' = [caller EXCEPT ![a] = [caller[a] EXCEPT !.pc = "starting", !.config = config]]
    BY Zenon DEF LoadConfig, CallerBecomes
  <2> QED
    BY <2>1, <2>2 DEF Caller, LoadConfig
<1>3. UNCHANGED <<procs, gen, starts, start, process, stopper, config>>
  BY DEF LoadConfig, pool
<1>5. BornForProxy'
  BY <1>1, <1>3 DEF BornForProxy
<1>6. CallersFit'
  BY <1>1, <1>2, <1>3 DEF CallersFit, Born, Leading
<1>7. SlotsFit'
  BY <1>1, <1>2, <1>3 DEF SlotsFit, Born, Leading, PoolTypeOK
<1>8. SettingsFit'
  BY <1>1, <1>2, <1>3 DEF SettingsFit, Stored, PoolTypeOK
<1>9. NoBridgeIsLost'
  BY <1>1, <1>2, <1>3 DEF NoBridgeIsLost, Alive, Draining
<1> QED
  BY <1>5, <1>6, <1>7, <1>8, <1>9 DEF Rest

LEMMA StartBridgeStep ==
  ASSUME PoolInv, NEW a \in Callers, NEW p \in Processes, StartBridge(a, p)
  PROVE  Rest'
<1> DEFINE x == caller[a].proxy
<1>1. PoolTypeOK /\ CallersFit /\ SlotsFit /\ BornForProxy /\ SettingsFit /\ NoBridgeIsLost
  BY DEF PoolInv
<1>2. /\ caller[a].pc = "starting" /\ x \in Proxies /\ process[p].life = "unborn"
      /\ \A b \in Callers : b # a => caller'[b] = caller[b]
      /\ caller'[a].pc = "started" /\ caller'[a].proxy = x /\ caller'[a].process = p
      /\ caller'[a].gen = caller[a].gen /\ caller'[a].config = caller[a].config
  <2>1. caller[a] \in Caller /\ caller \in [Callers -> Caller]
    BY <1>1 DEF PoolTypeOK
  <2>2. caller' = [caller EXCEPT ![a] = [caller[a] EXCEPT !.pc = "started", !.process = p]]
    BY Zenon DEF StartBridge, CallerBecomes
  <2> QED
    BY <1>1, <2>1, <2>2 DEF Caller, StartBridge, CallersFit
<1>3. /\ process'[p].life = "alive" /\ process'[p].stop = "no"
      /\ process'[p].proxy = x /\ process'[p].config = caller[a].config
      /\ \A o \in Processes : o # p => process'[o] = process[o]
      /\ UNCHANGED <<procs, gen, starts, start, stopper, config>>
  BY <1>1 DEF StartBridge, PoolTypeOK, pool
<1>4. \A o, y : Born(o, y) => Born(o, y)' /\ o # p
  BY <1>2, <1>3 DEF Born
<1>5. BornForProxy'
  BY <1>1, <1>2, <1>3 DEF BornForProxy
<1>6. CallersFit'
  <2>1. Born(p, caller[a].proxy)'
    BY <1>2, <1>3 DEF Born
  <2>2. \A b \in Callers : caller[b].pc # "idle" => caller'[b].pc # "idle" /\ caller'[b].proxy = caller[b].proxy
    BY <1>2
  <2>3. \A b \in Callers : start[b].process # None =>
          caller'[b].pc # "idle" /\ Born(start[b].process, caller[b].proxy)'
    BY <1>1, <1>2, <1>3, <2>2 DEF CallersFit, Born
  <2>4. \A b \in Callers : b # a /\ caller[b].pc \in {"started", "stopping", "returned"} =>
          Born(caller[b].process, caller[b].proxy)'
    BY <1>1, <1>2, <1>3 DEF CallersFit, Born
  <2> HIDE DEF x
  <2> QED
    BY <1>1, <1>2, <1>3, <2>1, <2>2, <2>3, <2>4 DEF CallersFit, Leading
<1>7. SlotsFit'
  BY <1>1, <1>2, <1>3, <1>4 DEF SlotsFit, Leading, PoolTypeOK
<1>8. SettingsFit'
  <2>1. \A y \in Proxies : procs[y] # None => procs[y] \in Processes /\ process'[procs[y]] = process[procs[y]]
    BY <1>1, <1>3, <1>4 DEF SlotsFit, Born
  <2>2. \A b \in Callers : b # a /\ caller[b].pc = "started" => process'[caller[b].process] = process[caller[b].process]
    BY <1>1, <1>3, <1>4 DEF CallersFit, Born
  <2> QED
    BY <1>1, <1>2, <1>3, <2>1, <2>2 DEF SettingsFit, Stored
<1>9. NoBridgeIsLost'
  BY <1>1, <1>2, <1>3 DEF NoBridgeIsLost, Alive, Draining
<1> QED
  BY <1>5, <1>6, <1>7, <1>8, <1>9 DEF Rest

\* The end of a start, whatever its outcome: the slot is free again.
LEMMA LeaderEnds ==
  ASSUME PoolInv, NEW a \in Callers, caller[a].pc \in {"starting", "started"},
         NEW pc \in {"refused", "returned", "stopping"}, CallerAt(a, pc),
         starts' = [starts EXCEPT ![caller[a].proxy] = None],
         UNCHANGED <<gen, process, stopper, config>>,
         \A b \in Callers : b # a => start'[b] = start[b],
         start'[a].process = start[a].process \/ (start'[a].process = caller[a].process /\ pc = "returned"),
         pc # "refused" => caller[a].pc = "started",
         IF pc = "returned"
         THEN /\ caller[a].gen = gen
              /\ procs' = [procs EXCEPT ![caller[a].proxy] = caller[a].process]
         ELSE procs' = procs,
         pc = "refused" => caller[a].pc = "starting"
  PROVE  Rest'
<1> DEFINE x == caller[a].proxy
<1>1. PoolTypeOK /\ CallersFit /\ SlotsFit /\ BornForProxy /\ SettingsFit /\ NoBridgeIsLost
  BY DEF PoolInv
<1>2. /\ \A b \in Callers : b # a => caller'[b] = caller[b]
      /\ caller'[a].pc = pc /\ caller'[a].proxy = x /\ caller'[a].process = caller[a].process
      /\ caller'[a].gen = caller[a].gen /\ caller'[a].leader = caller[a].leader
  BY <1>1, LeaderFields DEF CallerPcs
<1>3. x \in Proxies /\ starts[x] = a /\ procs[x] = None
      /\ (caller[a].pc = "started" => Born(caller[a].process, x))
  BY <1>1, PoolAssumption DEF CallersFit, SlotsFit, Leading
<1>4. /\ starts'[x] = None
      /\ \A y \in Proxies : y # x => starts'[y] = starts[y] /\ procs'[y] = procs[y]
      /\ procs'[x] = IF pc = "returned" THEN caller[a].process ELSE None
  BY <1>1, <1>3 DEF PoolTypeOK
<1>5. BornForProxy'
  BY <1>1 DEF BornForProxy
<1>6. CallersFit'
  <2>1. \A b \in Callers : caller[b].pc # "idle" => caller'[b].pc # "idle" /\ caller'[b].proxy = caller[b].proxy
    BY <1>2
  <2>2. \A b \in Callers \ {a} : caller[b].pc \in Leading => starts'[caller[b].proxy] = b
    BY <1>1, <1>3, <1>4 DEF CallersFit, Leading
  <2>3. \A p, y : Born(p, y) => Born(p, y)'
    BY DEF Born
  <2> HIDE DEF x
  <2>4. \A b \in Callers : start'[b].process # None =>
          caller'[b].pc # "idle" /\ Born(start[b].process, caller[b].proxy)'
    BY <1>1, <1>2, <1>3, <2>1 DEF CallersFit, Born
  <2> QED
    BY <1>1, <1>2, <1>3, <2>1, <2>2, <2>3, <2>4 DEF CallersFit, Leading
<1>7. SlotsFit'
  <2>1. \A y \in Proxies : starts'[y] # None => y # x /\ starts[y] \in Callers /\ starts[y] # a
    BY <1>1, <1>2, <1>3, <1>4 DEF PoolTypeOK, SlotsFit
  <2> QED
    BY <1>1, <1>2, <1>3, <1>4, <2>1 DEF SlotsFit, Born, Leading
<1>8. SettingsFit'
  <2>1. pc = "returned" => process[caller[a].process].config = config \/ Stored
    BY <1>1 DEF SettingsFit
  <2>2. \A b \in Callers : caller'[b].pc \in {"starting", "started"} => caller'[b] = caller[b]
    BY <1>2
  <2>3. Stored' <=> Stored
    BY DEF Stored
  <2>4. \A b \in Callers : caller'[b].gen = caller[b].gen
    BY <1>2
  <2>5. \A y \in Proxies : procs'[y] # None =>
          process[procs'[y]].config = config \/ Stored
    BY <1>1, <1>4, <2>1 DEF SettingsFit
  <2> QED
    BY <1>1, <2>2, <2>3, <2>4, <2>5 DEF SettingsFit
<1>9. NoBridgeIsLost'
  BY <1>1, <1>2, <1>3, <1>4, PoolAssumption DEF NoBridgeIsLost, Alive, Draining, Born, BornForProxy
<1> QED
  BY <1>5, <1>6, <1>7, <1>8, <1>9 DEF Rest

LEMMA LeaderSteps ==
  ASSUME PoolInv, NEW a \in Callers, StartFails(a) \/ Register(a) \/ Overtaken(a)
  PROVE  Rest'
<1>1. PoolTypeOK /\ start[a] \in Start /\ caller[a] \in Caller
  BY DEF PoolInv, PoolTypeOK
<1>2. ASSUME StartFails(a) PROVE Rest'
  <2>1. [start[a] EXCEPT !.done = TRUE, !.failed = TRUE] \in Start
    BY <1>1 DEF Start
  <2>2. /\ start'[a] = [start[a] EXCEPT !.done = TRUE, !.failed = TRUE]
        /\ \A b \in Callers : b # a => start'[b] = start[b]
    BY <1>1, <1>2, <2>1, LeaderFields DEF StartFails
  <2>3. start'[a].process = start[a].process
    BY <1>1, <2>2 DEF Start
  <2> QED
    BY <1>2, <2>2, <2>3, LeaderEnds DEF StartFails
<1>3. ASSUME Register(a) PROVE Rest'
  <2>1. caller[a].process \in Processes
    BY <1>3 DEF Register, PoolInv, CallersFit, Born
  <2>2. [start[a] EXCEPT !.done = TRUE, !.process = caller[a].process] \in Start
    BY <1>1, <2>1 DEF Start
  <2>3. /\ start'[a] = [start[a] EXCEPT !.done = TRUE, !.process = caller[a].process]
        /\ \A b \in Callers : b # a => start'[b] = start[b]
    BY <1>1, <1>3, <2>2, LeaderFields DEF Register
  <2>4. start'[a].process = caller[a].process
    BY <1>1, <2>3 DEF Start
  <2> QED
    BY <1>3, <2>3, <2>4, LeaderEnds DEF Register
<1>4. ASSUME Overtaken(a) PROVE Rest'
  BY <1>4, LeaderEnds DEF Overtaken
<1> QED
  BY <1>2, <1>3, <1>4

LEMMA RefuseStep ==
  ASSUME PoolInv, NEW a \in Callers, RefuseOvertaken(a)
  PROVE  Rest'
<1> DEFINE x == caller[a].proxy
<1>1. PoolTypeOK /\ CallersFit /\ SlotsFit /\ BornForProxy /\ SettingsFit /\ NoBridgeIsLost
  BY DEF PoolInv
<1>2. /\ caller[a].pc = "stopping" /\ process[caller[a].process].stop = "done"
      /\ caller[a].process \in Processes
      /\ \A b \in Callers : b # a => caller'[b] = caller[b]
      /\ caller'[a].pc = "refused" /\ caller'[a].proxy = caller[a].proxy
      /\ caller'[a].gen = caller[a].gen
  <2>1. caller[a] \in Caller /\ caller \in [Callers -> Caller]
    BY <1>1 DEF PoolTypeOK
  <2>2. caller' = [caller EXCEPT ![a] = [caller[a] EXCEPT !.pc = "refused", !.overtaken = TRUE]]
    BY Zenon DEF RefuseOvertaken, CallerBecomes
  <2> QED
    BY <1>1, <2>1, <2>2 DEF Caller, RefuseOvertaken, CallersFit, Born
<1>3. \A b \in Callers : start'[b].process = start[b].process
  <2>1. start[a] \in Start /\ start \in [Callers -> Start]
    BY <1>1 DEF PoolTypeOK
  <2>2. start' = [start EXCEPT ![a] = [start[a] EXCEPT !.done = TRUE, !.failed = TRUE]]
    BY Zenon DEF RefuseOvertaken, StartBecomes
  <2> QED
    BY <2>1, <2>2 DEF Start
<1>4. UNCHANGED <<procs, gen, starts, process, stopper, config>>
  BY DEF RefuseOvertaken, pool
<1>5. BornForProxy'
  BY <1>1, <1>4 DEF BornForProxy
<1>6. CallersFit'
  <2>1. \A b \in Callers : caller[b].pc # "idle" => caller'[b].pc # "idle" /\ caller'[b].proxy = caller[b].proxy
    BY <1>2
  <2>2. \A p, y : Born(p, y) <=> Born(p, y)'
    BY <1>4 DEF Born
  <2> QED
    BY <1>1, <1>2, <1>3, <1>4, <2>1, <2>2 DEF CallersFit, Leading
<1>7. SlotsFit'
  <2>1. \A y \in Proxies : starts[y] # None => starts[y] # a
    BY <1>1, <1>2 DEF SlotsFit, Leading
  <2> QED
    BY <1>1, <1>2, <1>4, <2>1 DEF SlotsFit, Born, Leading, PoolTypeOK
<1>8. SettingsFit'
  BY <1>1, <1>2, <1>4 DEF SettingsFit, Stored
<1>9. NoBridgeIsLost'
  BY <1>1, <1>2, <1>4 DEF NoBridgeIsLost, Alive, Draining
<1> QED
  BY <1>5, <1>6, <1>7, <1>8, <1>9 DEF Rest

\* A reconfigure begins, stores its settings, or its stopBridges returns.
LEMMA StopperFields ==
  ASSUME PoolTypeOK, NEW s \in Stoppers, NEW v, StopperBecomes(s, v)
  PROVE  stopper'[s] = v /\ \A o \in Stoppers : o # s => stopper'[o] = stopper[o]
BY DEF PoolTypeOK, StopperBecomes

\* Steps that leave everything but reconfigures and the settings alone.
LEMMA NotThePool ==
  ASSUME PoolInv, UNCHANGED <<pool, start, caller, process>>,
         \A p \in Processes : p \in Draining /\ process[p].stop = "no" => p \in Draining'
  PROVE  CallersFit' /\ SlotsFit' /\ BornForProxy' /\ NoBridgeIsLost'
<1>1. PoolTypeOK /\ CallersFit /\ SlotsFit /\ BornForProxy /\ NoBridgeIsLost
  BY DEF PoolInv
<1>2. CallersFit'
  BY <1>1 DEF CallersFit, Born, pool
<1>3. SlotsFit'
  BY <1>1 DEF SlotsFit, Born, pool
<1>4. BornForProxy'
  BY <1>1 DEF BornForProxy
<1>5. NoBridgeIsLost'
  BY <1>1 DEF NoBridgeIsLost, Alive, pool
<1> QED
  BY <1>2, <1>3, <1>4, <1>5

LEMMA ConfigureSteps ==
  ASSUME PoolInv, NEW s \in Stoppers,
         (\E next \in Configs : Configure(s, next)) \/ StoreConfig(s) \/ StopBridgesReturns(s)
  PROVE  Rest'
<1>1. PoolTypeOK /\ SettingsFit /\ stopper[s] \in Stopper
  BY DEF PoolInv, PoolTypeOK
<1>2. ASSUME NEW next \in Configs, Configure(s, next) PROVE Rest'
  <2>1. /\ stopper[s].pc = "idle" /\ stopper'[s].pc = "loaded" /\ stopper'[s].previous = config
        /\ \A o \in Stoppers : stopper[o].pc \notin {"loaded", "stored"}
        /\ \A o \in Stoppers : o # s => stopper'[o] = stopper[o]
    <3> DEFINE v == [stopper[s] EXCEPT !.pc = "loaded", !.previous = config, !.next = next]
    <3>1. v.pc = "loaded" /\ v.previous = config
      BY <1>1 DEF Stopper
    <3>2. StopperBecomes(s, v)
      BY <1>2, Zenon DEF Configure
    <3> HIDE DEF v
    <3> QED
      BY <1>1, <1>2, <3>1, <3>2, StopperFields DEF Configure
  <2>2. UNCHANGED <<pool, start, caller, process, config>>
    BY <1>2 DEF Configure
  <2>3. SettingsFit'
    BY <1>1, <2>1, <2>2 DEF SettingsFit, Stored, pool
  <2>4. \A p \in Processes : p \in Draining => p \in Draining'
    BY <2>1 DEF Draining
  <2> QED
    BY <2>2, <2>3, <2>4, NotThePool DEF Rest
<1>3. ASSUME StoreConfig(s) PROVE Rest'
  <2>1. /\ stopper[s].pc = "loaded" /\ config' = stopper[s].next
        /\ stopper'[s].pc = IF stopper[s].previous # stopper[s].next THEN "stored" ELSE "done"
        /\ \A o \in Stoppers : o # s => stopper'[o] = stopper[o]
    BY <1>1, <1>3, StopperFields DEF StoreConfig, Stopper
  <2>2. UNCHANGED <<pool, start, caller, process>>
    BY <1>3 DEF StoreConfig
  <2>3. \A o \in Stoppers : o # s => stopper[o].pc \notin {"loaded", "stored"}
    BY <1>1, <2>1 DEF SettingsFit
  <2>4. config' # config => stopper'[s].pc = "stored"
    BY <1>1, <2>1 DEF SettingsFit
  <2>5. SettingsFit'
    BY <1>1, <2>1, <2>2, <2>3, <2>4 DEF SettingsFit, Stored, pool
  <2>6. \A p \in Processes : p \in Draining => p \in Draining'
    BY <2>1 DEF Draining
  <2> QED
    BY <2>2, <2>5, <2>6, NotThePool DEF Rest
<1>4. ASSUME StopBridgesReturns(s) PROVE Rest'
  <2>1. /\ stopper[s].pc = "stopping" /\ stopper'[s].pc = "done"
        /\ \A p \in stopper[s].todo : process[p].stop = "done"
        /\ \A o \in Stoppers : o # s => stopper'[o] = stopper[o]
    BY <1>1, <1>4, StopperFields DEF StopBridgesReturns, Stopper
  <2>2. UNCHANGED <<pool, start, caller, process, config>>
    BY <1>4 DEF StopBridgesReturns
  <2>3. SettingsFit'
    BY <1>1, <2>1, <2>2 DEF SettingsFit, Stored, pool
  <2>4. \A p \in Processes : p \in Draining /\ process[p].stop = "no" => p \in Draining'
    BY <2>1 DEF Draining
  <2> QED
    BY <2>2, <2>3, <2>4, NotThePool DEF Rest
<1> QED
  BY <1>2, <1>3, <1>4

\* The pool is emptied: what was in it is to be stopped, and starts under way are overtaken.
LEMMA StopBridgesStep ==
  ASSUME PoolInv, NEW s \in Stoppers, StopBridges(s)
  PROVE  Rest'
<1>1. PoolTypeOK /\ CallersFit /\ SlotsFit /\ BornForProxy /\ SettingsFit /\ NoBridgeIsLost
      /\ stopper[s] \in Stopper
  BY DEF PoolInv, PoolTypeOK
<1>2. /\ stopper[s].pc \in {"idle", "stored"}
      /\ stopper'[s].pc = "stopping" /\ stopper'[s].todo = Registered
      /\ \A o \in Stoppers : o # s => stopper'[o] = stopper[o]
  <2> DEFINE v == [stopper[s] EXCEPT !.pc = "stopping", !.todo = Registered]
  <2>1. v.pc = "stopping" /\ v.todo = Registered
    BY <1>1 DEF Stopper
  <2>2. StopperBecomes(s, v)
    BY Zenon DEF StopBridges
  <2> HIDE DEF v
  <2> QED
    BY <1>1, <2>1, <2>2, StopperFields DEF StopBridges
<1>3. /\ gen' = gen + 1 /\ \A x \in Proxies : procs'[x] = None
      /\ UNCHANGED <<starts, start, caller, process, config>>
  BY DEF StopBridges
<1>4. BornForProxy'
  BY <1>1, <1>3 DEF BornForProxy
<1>5. CallersFit'
  BY <1>1, <1>3 DEF CallersFit, Born
<1>6. SlotsFit'
  BY <1>1, <1>3 DEF SlotsFit, Born
<1>7. SettingsFit'
  <2>1. \A a \in Callers : caller[a].gen \in Nat /\ gen \in Nat /\ caller[a].gen <= gen
    BY <1>1 DEF SettingsFit, PoolTypeOK, Caller
  <2>2. \A a \in Callers : caller[a].gen <= gen' /\ caller[a].gen # gen'
    BY <1>3, <2>1
  <2> QED
    BY <1>1, <1>2, <1>3, <2>2 DEF SettingsFit
<1>8. NoBridgeIsLost'
  <2>1. \A p \in Registered : p \in Draining'
    BY <1>2 DEF Draining
  <2>2. \A p \in Draining : p \in Draining'
    BY <1>2 DEF Draining
  <2>3. \A p \in Processes : Alive(p) /\ procs[process[p].proxy] = p => p \in Registered
    BY <1>1, PoolAssumption DEF Registered, BornForProxy, Alive
  <2> QED
    BY <1>1, <1>3, <2>1, <2>2, <2>3 DEF NoBridgeIsLost, Alive
<1> QED
  BY <1>4, <1>5, <1>6, <1>7, <1>8 DEF Rest

LEMMA ProcessSteps ==
  ASSUME PoolInv, NEW p \in Processes, ProcessStep(p) \/ Exits(p)
  PROVE  Rest'
<1>1. PoolTypeOK /\ CallersFit /\ SlotsFit /\ BornForProxy /\ SettingsFit /\ NoBridgeIsLost
  BY DEF PoolInv
<1>2. UNCHANGED <<pool, start, caller, stopper, config>>
  BY DEF ProcessStep, StopBegins, StopEnds, Exits
<1>3. /\ \A o \in Processes : process'[o].proxy = process[o].proxy
                              /\ process'[o].config = process[o].config
                              /\ (process'[o].life = "unborn" <=> process[o].life = "unborn")
                              /\ (Alive(o)' => Alive(o))
      /\ \A o \in Processes : process'[o].stop = "no" => process[o].stop = "no"
  <2>1. process \in [Processes -> Process]
    BY <1>1 DEF PoolTypeOK
  <2> QED
    BY <2>1 DEF ProcessStep, StopBegins, StopEnds, Exits, Alive, Process
<1>4. \A o, x : Born(o, x) => Born(o, x)'
  BY <1>3 DEF Born
<1>5. BornForProxy'
  BY <1>1, <1>3 DEF BornForProxy
<1>6. CallersFit'
  BY <1>1, <1>2, <1>4 DEF CallersFit, pool
<1>7. SlotsFit'
  BY <1>1, <1>2, <1>4 DEF SlotsFit, pool
<1>8. SettingsFit'
  <2>1. \A a \in Callers : caller[a].pc = "started" => caller[a].process \in Processes
    BY <1>1 DEF CallersFit, Born
  <2>2. \A x \in Proxies : procs[x] # None => procs[x] \in Processes
    BY <1>1 DEF SlotsFit, Born
  <2> QED
    BY <1>1, <1>2, <1>3, <2>1, <2>2 DEF SettingsFit, Stored, pool
<1>9. NoBridgeIsLost'
  BY <1>1, <1>2, <1>3 DEF NoBridgeIsLost, Draining, pool
<1> QED
  BY <1>5, <1>6, <1>7, <1>8, <1>9 DEF Rest

(***************************************************************************)
(* The invariant and what it is for.                                       *)
(***************************************************************************)
LEMMA PoolInvInit == PoolInit => PoolInv
<1> SUFFICES ASSUME PoolInit PROVE PoolInv
  OBVIOUS
<1>1. PoolTypeOK
  BY PoolAssumption DEF PoolInit, PoolTypeOK, Start, Caller, CallerPcs, Process, Stopper, StopperPcs
<1>2. CallersFit /\ SlotsFit /\ BornForProxy
  BY DEF PoolInit, CallersFit, SlotsFit, BornForProxy, Leading
<1>3. SettingsFit /\ NoBridgeIsLost
  BY DEF PoolInit, SettingsFit, NoBridgeIsLost, Alive
<1> QED
  BY <1>1, <1>2, <1>3 DEF PoolInv

LEMMA PoolInvStep == PoolInv /\ [PoolNext]_poolVars => PoolInv'
<1> SUFFICES ASSUME PoolInv, [PoolNext]_poolVars PROVE PoolInv'
  OBVIOUS
<1>1. ASSUME NEW a \in Callers, CallerStep(a) \/ \E x \in Proxies : Ask(a, x)
      PROVE  PoolTypeOK' /\ Rest'
  <2>1. PoolTypeOK'
    BY <1>1, CallerStepTypes DEF PoolInv
  <2>2. Rest'
    BY <1>1, QuietSteps, LeadStep, LoadConfigStep, StartBridgeStep, LeaderSteps, RefuseStep
       DEF CallerStep, Starting
  <2> QED
    BY <2>1, <2>2
<1>2. ASSUME NEW s \in Stoppers,
             StopperStep(s) \/ Shutdown(s) \/ \E next \in Configs : Configure(s, next)
      PROVE  PoolTypeOK' /\ Rest'
  <2>1. PoolTypeOK'
    BY <1>2, OtherStepTypes DEF PoolInv
  <2>2. Rest'
    BY <1>2, ConfigureSteps, StopBridgesStep DEF StopperStep, Shutdown
  <2> QED
    BY <2>1, <2>2
<1>3. ASSUME NEW p \in Processes, ProcessStep(p) \/ Exits(p)
      PROVE  PoolTypeOK' /\ Rest'
  BY <1>3, OtherStepTypes, ProcessSteps DEF PoolInv
<1>4. CASE UNCHANGED poolVars
  BY <1>4 DEF PoolInv, poolVars, pool, PoolTypeOK, CallersFit, SlotsFit, BornForProxy, SettingsFit,
    Stored, NoBridgeIsLost, Alive, Draining, Born
<1> QED
  BY <1>1, <1>2, <1>3, <1>4 DEF PoolNext, PoolInv, Rest

THEOREM PoolInvariant == PoolSpec => []PoolInv
BY PoolInvInit, PoolInvStep, PTL DEF PoolSpec

\* The pool, starts, callers, processes and reconfigures keep their types.
THEOREM PoolTypeCorrect == PoolSpec => []PoolTypeOK
<1>1. PoolInv => PoolTypeOK
  BY DEF PoolInv
<1> QED
  BY <1>1, PoolInvariant, PTL

\* A bridge that runs is in the pool, being started, or about to be stopped (acquireBridge,
\* stopBridges).
THEOREM NoneIsLost == PoolSpec => []NoBridgeIsLost
<1>1. PoolInv => NoBridgeIsLost
  BY DEF PoolInv
<1> QED
  BY <1>1, PoolInvariant, PTL

\* However many callers ask for a bridge at once, those that are kept serve different proxies.
THEOREM BridgesAreSingle == PoolSpec => []OneBridgePerProxy
<1>1. PoolInv => OneBridgePerProxy
  <2> DEFINE Kept(b) == /\ Alive(b) /\ process[b].stop = "no" /\ b \notin Draining
                        /\ ~ \E a \in Callers : caller[a].pc = "stopping" /\ caller[a].process = b
  <2> SUFFICES ASSUME PoolInv, NEW p \in Processes, NEW o \in Processes, Kept(p), Kept(o),
                      process[p].proxy = process[o].proxy
               PROVE  p = o
    BY DEF OneBridgePerProxy
  <2> DEFINE x == process[p].proxy
  <2>1. x \in Proxies
    BY DEF PoolInv, BornForProxy, Alive
  <2>2. \A b \in {p, o} :
          procs[x] = b \/ \E a \in Callers : caller[a].pc = "started" /\ caller[a].process = b
    BY DEF PoolInv, NoBridgeIsLost
  <2>3. \A a \in Callers : caller[a].pc = "started" /\ caller[a].process \in {p, o} =>
          starts[x] = a /\ procs[x] = None
    <3>1. \A a \in Callers : caller[a].pc = "started" /\ caller[a].process \in {p, o} =>
            caller[a].proxy = x /\ starts[x] = a
      BY DEF PoolInv, CallersFit, Born, Leading
    <3> QED
      BY <2>1, <3>1, PoolAssumption DEF PoolInv, SlotsFit
  <2> QED
    BY <2>2, <2>3, PoolAssumption
<1> QED
  BY <1>1, PoolInvariant, PTL

\* A bridge of older settings is in the pool only while the reconfigure that replaced them is
\* on its way to stopBridges (register.go, bridge.go:234).
THEOREM PoolIsCurrent == PoolSpec => []PoolHasCurrentConfig
<1>1. PoolInv => PoolHasCurrentConfig
  BY DEF PoolInv, SettingsFit, Stored, PoolHasCurrentConfig
<1> QED
  BY <1>1, PoolInvariant, PTL

\* Joined or leading, a caller that gets a bridge gets one for its proxy.
THEOREM BridgesSuit == PoolSpec => []ReturnedForItsProxy
<1>1. PoolInv => ReturnedForItsProxy
  BY PoolAssumption DEF PoolInv, CallersFit, Born, ReturnedForItsProxy
<1> QED
  BY <1>1, PoolInvariant, PTL

\* No running bridge escapes the pool, which keeps one for each proxy, of the settings in force
\* (bridge.go:47, 234).
THEOREM BridgesStayKnown == PoolSpec => []BridgesAreKnown
<1>1. NoBridgeIsLost /\ OneBridgePerProxy /\ PoolHasCurrentConfig => BridgesAreKnown
  BY DEF BridgesAreKnown
<1> QED
  BY <1>1, NoneIsLost, BridgesAreSingle, PoolIsCurrent, PTL


(***************************************************************************)
(* The launch of one bridge.  Only its own steps change it, so that the    *)
(* invariant is one of a single record.                                    *)
(***************************************************************************)

\* What has been made so far, by the place startBridge has reached.
MadeSoFar(l) ==
  /\ l.pc = "none" => ~l.workspace
  /\ l.pc \in {"none", "egress"} => ~l.egress
  /\ l.pc \in {"none", "egress", "spawning"} => ~l.server /\ l.child = "none"
  /\ l.pc \notin {"none", "failed"} => l.workspace

\* What the child and the handshake have shown so far.
ShownSoFar(l) ==
  /\ l.discovered = 1 => l.announced
  /\ l.pc \in {"binding", "pinging", "callback", "registering", "ready"} => l.announced
  /\ l.pc \in {"pinging", "callback", "registering", "ready"} => l.control
  /\ l.pc \in {"registering", "ready"} => l.server

\* Who waited for the child knows that it is dead.
EndedIsDead(l) ==
  /\ l.exited => l.child = "dead"
  /\ l.pc = "clearing" => l.child = "dead"
  /\ l.pc = "failed" =>
       ~l.workspace /\ ~l.egress /\ ~l.server /\ l.child \in {"none", "dead"}

Sound(l) == l \in Launch /\ MadeSoFar(l) /\ ShownSoFar(l) /\ EndedIsDead(l)

LaunchInv == launch \in [Starters -> Launch] /\ \A s \in Starters : Sound(launch[s])

(***************************************************************************)
(* A start that is alone at work.  "alone" is lost with the first step of  *)
(* another start, so that nobody else works while it holds; then each step *)
(* finds what the one before has left.                                     *)
(***************************************************************************)

NobodyElse(s) == \A t \in Starters \ {s} : ~Working(t)

Early == {"idle", "looking", "verifying", "hashing", "staging"}

Stamped == [content |-> "pinned", archive |-> TRUE, bin |-> "none"]

Whole == [content |-> "pinned", archive |-> TRUE, bin |-> "pinned"]

\* What lies in the root directory when start s, alone and with its archive unpacked, is at pc.
Left(s) ==
  LET pc == starter[s].pc IN
  /\ pc \notin {"restoring", "checking"}
  /\ pc = "setAside" => root # NoTree
  /\ pc = "movingIn" => root = NoTree
  /\ pc \in {"removing", "stampSum", "stampArchive"} => root = Unpacked
  /\ pc \in {"stampArchive", "stampBin"} => starter[s].sum = "pinned"
  /\ pc = "stampBin" => root = Stamped
  /\ pc = "installed" => root = Whole
  /\ pc = "fallback" => aside[PidOf[s]] # NoTree

AloneInv ==
  \A s \in Starters :
    /\ starter[s].pc \in Early => ~starter[s].staged
    /\ starter[s].alone /\ Working(s) => NobodyElse(s)
    /\ starter[s].alone /\ Working(s) /\ starter[s].staged => Left(s)

(***************************************************************************)
(* The starts of one process.  A tree that was set aside is in the way of  *)
(* every other start that would set one aside, and whoever set it aside is *)
(* the only one to remove it.  So the root directory is not emptied while  *)
(* a start is about to put an old tree back, and once an old tree has left *)
(* the root it does not return: Clean stays.                               *)
(***************************************************************************)

Clean == root = NoTree \/ root.content = "pinned"

\* It has set a tree aside, and has yet to remove it or to put it back.
Mover(s) ==
  \/ starter[s].pc = "movingIn" /\ starter[s].moved
  \/ starter[s].pc \in {"restoring", "removing"}

OneMover ==
  /\ \A s \in Starters : Mover(s) => aside[PidOf[s]] # NoTree
  /\ \A s, t \in Starters : Mover(s) /\ Mover(t) => s = t

\* It has not set a tree aside yet.
Before == Early \cup {"staged", "setAside"}

\* Of these starts, each has seen the root empty, or with the pinned release.
Past == {"movingIn", "restoring", "checking", "removing", "stampSum", "stampArchive",
         "stampBin", "installed"}

CleanInv ==
  /\ OneMover
  /\ \A s \in Starters : starter[s].pc \in Before => ~starter[s].moved
  /\ \A s \in Starters : starter[s].pc = "restoring" => root # NoTree
  /\ ~Clean => ~Verifies(root)
  /\ \A s \in Starters :
       /\ starter[s].pc \in Past => Clean
       /\ starter[s].pc = "hashing" /\ starter[s].sum = "other" => Clean
       /\ starter[s].trust \in {"verified", "installed"} => Clean

\* What a start says of the binary it found, and what its child runs.
TrustInv ==
  \A s \in Starters :
    /\ starter[s].pc = "resolved" => starter[s].trust # "none"
    /\ launch[s].binary # "none" => starter[s].pc = "resolved"
    /\ launch[s].binary = "other" => starter[s].trust = "unverified"

-----------------------------------------------------------------------------
(***************************************************************************)
(* Types                                                                   *)
(***************************************************************************)

\* What the file operations leave in the root directory is a tree.
LEMMA TreeTypes ==
  /\ Unpacked \in Tree
  /\ \A t \in Tree : [t EXCEPT !.archive = TRUE] \in Tree
  /\ \A t \in Tree, c \in Contents \cup {"none"} : [t EXCEPT !.bin = c] \in Tree
  /\ \A t \in Tree : t.content \in Contents /\ t.archive \in BOOLEAN
                     /\ t.bin \in Contents \cup {"none"}
<1>1. Unpacked \in Tree
  BY DEF Unpacked, Tree, Contents
<1>2. ASSUME NEW t \in Tree PROVE [t EXCEPT !.archive = TRUE] \in Tree
  BY DEF Tree
<1>3. ASSUME NEW t \in Tree, NEW c \in Contents \cup {"none"} PROVE [t EXCEPT !.bin = c] \in Tree
  BY DEF Tree
<1>4. ASSUME NEW t \in Tree
      PROVE t.content \in Contents /\ t.archive \in BOOLEAN /\ t.bin \in Contents \cup {"none"}
  BY DEF Tree
<1>5. QED
  BY <1>1, <1>2, <1>3, <1>4

\* The fields of a start, and what an update of them yields.
LEMMA StarterTypes ==
  ASSUME NEW r \in Starter
  PROVE /\ \A pc \in Pcs : [r EXCEPT !.pc = pc] \in Starter
        /\ \A pc \in Pcs, b \in BOOLEAN : [r EXCEPT !.pc = pc, !.alone = b] \in Starter
        /\ \A pc \in Pcs, c \in Contents \cup {"none"} : [r EXCEPT !.pc = pc, !.sum = c] \in Starter
        /\ \A pc \in Pcs, d \in {"none", "verified", "installed", "unverified"} :
             [r EXCEPT !.pc = pc, !.trust = d] \in Starter
        /\ \A pc \in Pcs : [r EXCEPT !.pc = pc, !.staged = TRUE] \in Starter
        /\ \A pc \in Pcs : [r EXCEPT !.pc = pc, !.moved = TRUE] \in Starter
        /\ [r EXCEPT !.alone = FALSE] \in Starter
        /\ r.pc \in Pcs /\ r.sum \in Contents \cup {"none"}
<1>1. r = [pc |-> r.pc, moved |-> r.moved, sum |-> r.sum, trust |-> r.trust, alone |-> r.alone,
           staged |-> r.staged]
  BY DEF Starter
<1>2. /\ r.pc \in Pcs /\ r.moved \in BOOLEAN /\ r.sum \in Contents \cup {"none"}
      /\ r.trust \in {"none", "verified", "installed", "unverified"}
      /\ r.alone \in BOOLEAN /\ r.staged \in BOOLEAN
  BY DEF Starter
<1>3. QED
  BY <1>1, <1>2 DEF Starter

LEMMA StarterBecomesType ==
  ASSUME starter \in [Starters -> Starter], NEW s \in Starters, NEW value \in Starter,
         StarterBecomes(s, value)
  PROVE  starter' \in [Starters -> Starter]
<1>1. ASSUME NEW t \in Starters PROVE starter[t] \in Starter /\ [starter[t] EXCEPT !.alone = FALSE] \in Starter
  BY StarterTypes
<1>2. QED
  BY <1>1 DEF StarterBecomes

LEMMA AtType ==
  ASSUME starter \in [Starters -> Starter], NEW s \in Starters, NEW pc \in Pcs, At(s, pc)
  PROVE  starter' \in [Starters -> Starter]
<1>1. [starter[s] EXCEPT !.pc = pc] \in Starter
  BY StarterTypes
<1>2. QED
  BY <1>1, StarterBecomesType DEF At

LEMMA InstallTypeStep ==
  ASSUME InstallTypeOK,
         \/ \E s \in Starters : Begin(s) \/ InstallStep(s)
         \/ \E p \in Pids : Crash(p)
  PROVE  InstallTypeOK'
<1> USE InstallAssumption
<1>0. /\ root \in Tree \cup {NoTree} /\ aside \in [Pids -> Tree \cup {NoTree}]
      /\ starter \in [Starters -> Starter]
  BY DEF InstallTypeOK
<1>1. ASSUME NEW s \in Starters, Begin(s) PROVE InstallTypeOK'
  <2>1. [starter[s] EXCEPT !.pc = "looking", !.alone = \A t \in Starters \ {s} : ~Working(t)] \in Starter
    BY <1>0, StarterTypes DEF Pcs
  <2>2. QED
    BY <1>0, <1>1, <2>1, StarterBecomesType DEF Begin, OnlyStarter, InstallTypeOK
<1>2. ASSUME NEW s \in Starters, InstallStep(s) PROVE InstallTypeOK'
  <2>1. CASE Look(s)
    BY <1>0, <2>1, AtType DEF Look, OnlyStarter, InstallTypeOK, Pcs
  <2>2. CASE VerifyStamps(s)
    <3>1. CASE root # NoTree /\ root.archive /\ root.bin # "none"
      <4>1. [starter[s] EXCEPT !.pc = "hashing", !.sum = root.bin] \in Starter
        BY <1>0, <3>1, StarterTypes, TreeTypes DEF Pcs
      <4>2. QED
        BY <1>0, <2>2, <3>1, <4>1, StarterBecomesType DEF VerifyStamps, OnlyStarter, InstallTypeOK
    <3>2. CASE ~(root # NoTree /\ root.archive /\ root.bin # "none")
      BY <1>0, <2>2, <3>2, AtType DEF VerifyStamps, OnlyStarter, InstallTypeOK, Pcs
    <3>3. QED
      BY <3>1, <3>2
  <2>3. CASE VerifyBinary(s)
    <3>1. [starter[s] EXCEPT !.pc = "resolved", !.trust = "verified"] \in Starter
      BY <1>0, StarterTypes DEF Pcs
    <3>2. QED
      BY <1>0, <2>3, <3>1, AtType, StarterBecomesType
      DEF VerifyBinary, OnlyStarter, InstallTypeOK, Pcs
  <2>4. CASE Stage(s)
    <3>1. [starter[s] EXCEPT !.pc = "staged", !.staged = TRUE] \in Starter
      BY <1>0, StarterTypes DEF Pcs
    <3>2. QED
      BY <1>0, <2>4, <3>1, StarterBecomesType DEF Stage, OnlyStarter, InstallTypeOK
  <2>5. CASE StageFails(s)
    BY <1>0, <2>5, AtType DEF StageFails, OnlyStarter, InstallTypeOK, Pcs
  <2>6. CASE StatRoot(s)
    BY <1>0, <2>6, AtType DEF StatRoot, OnlyStarter, InstallTypeOK, Pcs
  <2>7. CASE SetAside(s)
    <3>1. [starter[s] EXCEPT !.pc = "movingIn", !.moved = TRUE] \in Starter
      BY <1>0, StarterTypes DEF Pcs
    <3>2. CASE root # NoTree /\ aside[PidOf[s]] = NoTree
      BY <1>0, <2>7, <3>1, <3>2, StarterBecomesType DEF SetAside, InstallTypeOK
    <3>3. CASE ~(root # NoTree /\ aside[PidOf[s]] = NoTree)
      BY <1>0, <2>7, <3>3, AtType DEF SetAside, OnlyStarter, InstallTypeOK, Pcs
    <3>4. QED
      BY <3>2, <3>3
  <2>8. CASE MoveIn(s)
    <3>1. CASE root = NoTree
      BY <1>0, <2>8, <3>1, AtType, TreeTypes DEF MoveIn, InstallTypeOK, Pcs
    <3>2. CASE root # NoTree
      BY <1>0, <2>8, <3>2, AtType DEF MoveIn, InstallTypeOK, Pcs
    <3>3. QED
      BY <3>1, <3>2
  <2>9. CASE Restore(s)
    <3>1. starter' \in [Starters -> Starter]
      BY <1>0, <2>9, AtType DEF Restore, Pcs
    <3>2. root' \in Tree \cup {NoTree} /\ aside' \in [Pids -> Tree \cup {NoTree}]
      BY <1>0, <2>9 DEF Restore, OnlyStarter
    <3>3. QED
      BY <3>1, <3>2 DEF InstallTypeOK
  <2>10. CASE Check(s)
    BY <1>0, <2>10, AtType DEF Check, OnlyStarter, InstallTypeOK, Pcs
  <2>11. CASE RemoveAside(s)
    BY <1>0, <2>11, AtType DEF RemoveAside, InstallTypeOK, Pcs
  <2>12. CASE StampSum(s)
    <3>1. CASE root # NoTree
      <4>1. [starter[s] EXCEPT !.pc = "stampArchive", !.sum = root.content] \in Starter
        BY <1>0, <3>1, StarterTypes, TreeTypes DEF Pcs
      <4>2. QED
        BY <1>0, <2>12, <3>1, <4>1, StarterBecomesType DEF StampSum, OnlyStarter, InstallTypeOK
    <3>2. CASE root = NoTree
      BY <1>0, <2>12, <3>2, AtType DEF StampSum, OnlyStarter, InstallTypeOK, Pcs
    <3>3. QED
      BY <3>1, <3>2
  <2>13. CASE StampArchive(s)
    <3>1. starter' \in [Starters -> Starter]
      BY <1>0, <2>13, AtType DEF StampArchive, Pcs
    <3>2. root' \in Tree \cup {NoTree}
      BY <1>0, <2>13, TreeTypes DEF StampArchive
    <3>3. QED
      BY <1>0, <2>13, <3>1, <3>2 DEF StampArchive, InstallTypeOK
  <2>14. CASE StampBin(s)
    <3>1. starter' \in [Starters -> Starter]
      BY <1>0, <2>14, AtType DEF StampBin, Pcs
    <3>2. starter[s].sum \in Contents \cup {"none"}
      BY <1>0, StarterTypes
    <3>3. root' \in Tree \cup {NoTree}
      BY <1>0, <2>14, <3>2, TreeTypes DEF StampBin
    <3>4. QED
      BY <1>0, <2>14, <3>1, <3>3 DEF StampBin, InstallTypeOK
  <2>15. CASE Installed(s)
    <3>1. [starter[s] EXCEPT !.pc = "resolved", !.trust = "installed"] \in Starter
      BY <1>0, StarterTypes DEF Pcs
    <3>2. QED
      BY <1>0, <2>15, <3>1, AtType, StarterBecomesType DEF Installed, OnlyStarter, InstallTypeOK, Pcs
  <2>16. CASE Fallback(s)
    <3>1. [starter[s] EXCEPT !.pc = "resolved", !.trust = "unverified"] \in Starter
      BY <1>0, StarterTypes DEF Pcs
    <3>2. QED
      BY <1>0, <2>16, <3>1, AtType, StarterBecomesType DEF Fallback, OnlyStarter, InstallTypeOK, Pcs
  <2>17. QED
    BY <1>2, <2>1, <2>2, <2>3, <2>4, <2>5, <2>6, <2>7, <2>8, <2>9, <2>10, <2>11, <2>12, <2>13,
       <2>14, <2>15, <2>16 DEF InstallStep
<1>3. ASSUME NEW p \in Pids, Crash(p) PROVE InstallTypeOK'
  <2>1. ASSUME NEW s \in Starters PROVE starter[s] \in Starter /\ [starter[s] EXCEPT !.pc = "crashed"] \in Starter
    BY <1>0, StarterTypes DEF Pcs
  <2>2. starter' \in [Starters -> Starter]
    BY <1>0, <1>3, <2>1 DEF Crash
  <2>3. QED
    BY <1>0, <1>3, <2>2 DEF Crash, OnlyStarter, InstallTypeOK
<1>4. QED
  BY <1>1, <1>2, <1>3

-----------------------------------------------------------------------------
(***************************************************************************)
(* The launch                                                              *)
(***************************************************************************)

LEMMA LaunchChange ==
  ASSUME LaunchInv, NEW s \in Starters, NEW value, Sound(value), LaunchBecomes(s, value)
  PROVE  LaunchInv'
<1>1. value \in Launch
  BY DEF Sound
<1>2. QED
  BY <1>1 DEF LaunchInv, LaunchBecomes, Sound, MadeSoFar, ShownSoFar, EndedIsDead

\* The steps of startBridge, up to the handshake.
LEMMA StartingKeepsSound ==
  ASSUME InstallTypeOK, LaunchInv, NEW s \in Starters,
         MakeWorkspace(s) \/ StartEgress(s) \/ Spawn(s) \/ Handshake(s)
  PROVE  LaunchInv'
<1> DEFINE l == launch[s]
<1>0. Sound(l) /\ l.pc \in LaunchPcs
  BY DEF LaunchInv, Sound, Launch
<1>1. CASE MakeWorkspace(s)
  <2>1. ASSUME LaunchBecomes(s, [l EXCEPT !.pc = "egress", !.workspace = TRUE]) PROVE LaunchInv'
    <3>1. Sound([l EXCEPT !.pc = "egress", !.workspace = TRUE])
      BY <1>0, <1>1, <2>1 DEF MakeWorkspace, May, Sound, Launch, LaunchPcs, MadeSoFar, ShownSoFar, EndedIsDead
    <3>2. QED
      BY <2>1, <3>1, LaunchChange
  <2>2. ASSUME LaunchBecomes(s, [l EXCEPT !.pc = "failed"]) PROVE LaunchInv'
    <3>1. Sound([l EXCEPT !.pc = "failed"])
      BY <1>0, <1>1, <2>2 DEF MakeWorkspace, May, Sound, Launch, LaunchPcs, MadeSoFar, ShownSoFar, EndedIsDead
    <3>2. QED
      BY <2>2, <3>1, LaunchChange
  <2>3. QED
    BY <1>1, <2>1, <2>2 DEF MakeWorkspace, LaunchAt
<1>2. CASE StartEgress(s)
  <2>1. ASSUME NEW egress \in BOOLEAN, LaunchBecomes(s, [l EXCEPT !.pc = "spawning", !.egress = egress]) PROVE LaunchInv'
    <3>1. Sound([l EXCEPT !.pc = "spawning", !.egress = egress])
      BY <1>0, <1>2, <2>1 DEF StartEgress, May, Sound, Launch, LaunchPcs, MadeSoFar, ShownSoFar, EndedIsDead
    <3>2. QED
      BY <2>1, <3>1, LaunchChange
  <2>2. ASSUME LaunchBecomes(s, [l EXCEPT !.pc = "failed", !.workspace = FALSE]) PROVE LaunchInv'
    <3>1. Sound([l EXCEPT !.pc = "failed", !.workspace = FALSE])
      BY <1>0, <1>2, <2>2 DEF StartEgress, May, Sound, Launch, LaunchPcs, MadeSoFar, ShownSoFar, EndedIsDead
    <3>2. QED
      BY <2>2, <3>1, LaunchChange
  <2>3. QED
    BY <1>2, <2>1, <2>2 DEF StartEgress, LaunchAt
<1>3. CASE Spawn(s)
  <2>1. ASSUME root.content \in Contents, LaunchBecomes(s, [l EXCEPT !.pc = "handshake", !.child = "running", !.binary = root.content, !.reader = "reading"]) PROVE LaunchInv'
    <3>1. Sound([l EXCEPT !.pc = "handshake", !.child = "running", !.binary = root.content, !.reader = "reading"])
      BY <1>0, <1>3, <2>1 DEF Spawn, May, Sound, Launch, LaunchPcs, MadeSoFar, ShownSoFar, EndedIsDead
    <3>2. QED
      BY <2>1, <3>1, LaunchChange
  <2>2. ASSUME LaunchBecomes(s, [l EXCEPT !.pc = "failed", !.workspace = FALSE, !.egress = FALSE]) PROVE LaunchInv'
    <3>1. Sound([l EXCEPT !.pc = "failed", !.workspace = FALSE, !.egress = FALSE])
      BY <1>0, <1>3, <2>2 DEF Spawn, May, Sound, Launch, LaunchPcs, MadeSoFar, ShownSoFar, EndedIsDead
    <3>2. QED
      BY <2>2, <3>1, LaunchChange
  <2>3. QED
    BY <1>3, <2>1, <2>2 DEF Spawn, LaunchAt, Undone, InstallTypeOK, Tree
<1>4. CASE Handshake(s)
  <2>1. ASSUME l.discovered = 1, LaunchBecomes(s, [l EXCEPT !.pc = "binding", !.discovered = 0]) PROVE LaunchInv'
    <3>0. l.announced /\ 0 \in 0..1
      BY <1>0, <1>4, <2>1 DEF Handshake, Sound, Launch, LaunchPcs, MadeSoFar, ShownSoFar, EndedIsDead
    <3>1. Sound([l EXCEPT !.pc = "binding", !.discovered = 0])
      BY <1>0, <1>4, <2>1, <3>0 DEF Handshake, May, Sound, Launch, LaunchPcs, MadeSoFar, ShownSoFar, EndedIsDead
    <3>2. QED
      BY <2>1, <3>1, LaunchChange
  <2>2. ASSUME LaunchBecomes(s, [l EXCEPT !.pc = "shutdown", !.unread = FALSE]) PROVE LaunchInv'
    <3>1. Sound([l EXCEPT !.pc = "shutdown", !.unread = FALSE])
      BY <1>0, <1>4, <2>2 DEF Handshake, May, Sound, Launch, LaunchPcs, MadeSoFar, ShownSoFar, EndedIsDead
    <3>2. QED
      BY <2>2, <3>1, LaunchChange
  <2>3. ASSUME LaunchBecomes(s, [l EXCEPT !.pc = "shutdown"]) PROVE LaunchInv'
    <3>1. Sound([l EXCEPT !.pc = "shutdown"])
      BY <1>0, <1>4, <2>3 DEF Handshake, May, Sound, Launch, LaunchPcs, MadeSoFar, ShownSoFar, EndedIsDead
    <3>2. QED
      BY <2>3, <3>1, LaunchChange
  <2>4. QED
    BY <1>4, <2>1, <2>2, <2>3 DEF Handshake, LaunchAt
<1>5. QED
  BY <1>1, <1>2, <1>3, <1>4

\* What is left of a start that succeeds: the clients and the callback server.
LEMMA ConnectingKeepsSound ==
  ASSUME LaunchInv, NEW s \in Starters,
         BindClients(s) \/ Ping(s) \/ StartCallback(s) \/ SetToolCallback(s)
  PROVE  LaunchInv'
<1> DEFINE l == launch[s]
<1>0. Sound(l) /\ l.pc \in LaunchPcs
  BY DEF LaunchInv, Sound, Launch
<1>1. CASE BindClients(s)
  <2>1. ASSUME LaunchBecomes(s, [l EXCEPT !.pc = "pinging", !.control = TRUE]) PROVE LaunchInv'
    <3>1. Sound([l EXCEPT !.pc = "pinging", !.control = TRUE])
      BY <1>0, <1>1, <2>1 DEF BindClients, May, Sound, Launch, LaunchPcs, MadeSoFar, ShownSoFar, EndedIsDead
    <3>2. QED
      BY <2>1, <3>1, LaunchChange
  <2>2. ASSUME LaunchBecomes(s, [l EXCEPT !.pc = "shutdown"]) PROVE LaunchInv'
    <3>1. Sound([l EXCEPT !.pc = "shutdown"])
      BY <1>0, <1>1, <2>2 DEF BindClients, May, Sound, Launch, LaunchPcs, MadeSoFar, ShownSoFar, EndedIsDead
    <3>2. QED
      BY <2>2, <3>1, LaunchChange
  <2>3. QED
    BY <1>1, <2>1, <2>2 DEF BindClients, LaunchAt
<1>2. CASE Ping(s)
  <2>1. ASSUME LaunchBecomes(s, [l EXCEPT !.pc = "callback"]) PROVE LaunchInv'
    <3>1. Sound([l EXCEPT !.pc = "callback"])
      BY <1>0, <1>2, <2>1 DEF Ping, May, Sound, Launch, LaunchPcs, MadeSoFar, ShownSoFar, EndedIsDead
    <3>2. QED
      BY <2>1, <3>1, LaunchChange
  <2>2. ASSUME LaunchBecomes(s, [l EXCEPT !.pc = "shutdown"]) PROVE LaunchInv'
    <3>1. Sound([l EXCEPT !.pc = "shutdown"])
      BY <1>0, <1>2, <2>2 DEF Ping, May, Sound, Launch, LaunchPcs, MadeSoFar, ShownSoFar, EndedIsDead
    <3>2. QED
      BY <2>2, <3>1, LaunchChange
  <2>3. QED
    BY <1>2, <2>1, <2>2 DEF Ping, LaunchAt
<1>3. CASE StartCallback(s)
  <2>1. ASSUME LaunchBecomes(s, [l EXCEPT !.pc = "registering", !.server = TRUE]) PROVE LaunchInv'
    <3>1. Sound([l EXCEPT !.pc = "registering", !.server = TRUE])
      BY <1>0, <1>3, <2>1 DEF StartCallback, May, Sound, Launch, LaunchPcs, MadeSoFar, ShownSoFar, EndedIsDead
    <3>2. QED
      BY <2>1, <3>1, LaunchChange
  <2>2. ASSUME LaunchBecomes(s, [l EXCEPT !.pc = "shutdown"]) PROVE LaunchInv'
    <3>1. Sound([l EXCEPT !.pc = "shutdown"])
      BY <1>0, <1>3, <2>2 DEF StartCallback, May, Sound, Launch, LaunchPcs, MadeSoFar, ShownSoFar, EndedIsDead
    <3>2. QED
      BY <2>2, <3>1, LaunchChange
  <2>3. QED
    BY <1>3, <2>1, <2>2 DEF StartCallback, LaunchAt
<1>4. CASE SetToolCallback(s)
  <2>1. ASSUME LaunchBecomes(s, [l EXCEPT !.pc = "ready"]) PROVE LaunchInv'
    <3>1. Sound([l EXCEPT !.pc = "ready"])
      BY <1>0, <1>4, <2>1 DEF SetToolCallback, May, Sound, Launch, LaunchPcs, MadeSoFar, ShownSoFar, EndedIsDead
    <3>2. QED
      BY <2>1, <3>1, LaunchChange
  <2>2. ASSUME LaunchBecomes(s, [l EXCEPT !.pc = "shutdown", !.server = FALSE]) PROVE LaunchInv'
    <3>1. Sound([l EXCEPT !.pc = "shutdown", !.server = FALSE])
      BY <1>0, <1>4, <2>2 DEF SetToolCallback, May, Sound, Launch, LaunchPcs, MadeSoFar, ShownSoFar, EndedIsDead
    <3>2. QED
      BY <2>2, <3>1, LaunchChange
  <2>3. QED
    BY <1>4, <2>1, <2>2 DEF SetToolCallback, LaunchAt
<1>5. QED
  BY <1>1, <1>2, <1>3, <1>4

LEMMA StopKeepsSound ==
  ASSUME LaunchInv, NEW s \in Starters, AskShutdown(s) \/ Kill(s) \/ Exited(s) \/ Clear(s)
  PROVE  LaunchInv'
<1> DEFINE l == launch[s]
<1>0. Sound(l) /\ l.pc \in LaunchPcs
  BY DEF LaunchInv, Sound, Launch
<1>1. CASE AskShutdown(s)
  <2>1. ASSUME LaunchBecomes(s, [l EXCEPT !.pc = "waiting"]) PROVE LaunchInv'
    <3>1. Sound([l EXCEPT !.pc = "waiting"])
      BY <1>0, <1>1, <2>1 DEF AskShutdown, May, Sound, Launch, LaunchPcs, MadeSoFar, ShownSoFar, EndedIsDead
    <3>2. QED
      BY <2>1, <3>1, LaunchChange
  <2>2. ASSUME LaunchBecomes(s, [l EXCEPT !.pc = "waiting", !.child = "dead"]) PROVE LaunchInv'
    <3>1. Sound([l EXCEPT !.pc = "waiting", !.child = "dead"])
      BY <1>0, <1>1, <2>2 DEF AskShutdown, May, Sound, Launch, LaunchPcs, MadeSoFar, ShownSoFar, EndedIsDead
    <3>2. QED
      BY <2>2, <3>1, LaunchChange
  <2>3. QED
    BY <1>1, <2>1, <2>2 DEF AskShutdown, LaunchAt
<1>2. CASE Kill(s)
  <2>1. ASSUME LaunchBecomes(s, [l EXCEPT !.child = "dead"]) PROVE LaunchInv'
    <3>1. Sound([l EXCEPT !.child = "dead"])
      BY <1>0, <1>2, <2>1 DEF Kill, May, Sound, Launch, LaunchPcs, MadeSoFar, ShownSoFar, EndedIsDead
    <3>2. QED
      BY <2>1, <3>1, LaunchChange
  <2>2. QED
    BY <1>2, <2>1 DEF Kill, LaunchAt
<1>3. CASE Exited(s)
  <2>1. ASSUME LaunchBecomes(s, [l EXCEPT !.pc = "clearing"]) PROVE LaunchInv'
    <3>1. Sound([l EXCEPT !.pc = "clearing"])
      BY <1>0, <1>3, <2>1 DEF Exited, May, Sound, Launch, LaunchPcs, MadeSoFar, ShownSoFar, EndedIsDead
    <3>2. QED
      BY <2>1, <3>1, LaunchChange
  <2>2. QED
    BY <1>3, <2>1 DEF Exited, LaunchAt
<1>4. CASE Clear(s)
  <2>1. ASSUME LaunchBecomes(s, [l EXCEPT !.pc = "failed", !.workspace = FALSE, !.egress = FALSE, !.server = FALSE]) PROVE LaunchInv'
    <3>1. Sound([l EXCEPT !.pc = "failed", !.workspace = FALSE, !.egress = FALSE, !.server = FALSE])
      BY <1>0, <1>4, <2>1 DEF Clear, May, Sound, Launch, LaunchPcs, MadeSoFar, ShownSoFar, EndedIsDead
    <3>2. QED
      BY <2>1, <3>1, LaunchChange
  <2>2. QED
    BY <1>4, <2>1 DEF Clear, LaunchAt
<1>5. QED
  BY <1>1, <1>2, <1>3, <1>4

\* The child, the reader of its stderr and the waiter.
LEMMA ChildKeepsSound ==
  ASSUME LaunchInv, NEW s \in Starters,
         Drained(s) \/ WaitReturns(s) \/ Discovery(s) \/ LongLine(s) \/ ChildExits(s)
  PROVE  LaunchInv'
<1> DEFINE l == launch[s]
<1>0. Sound(l) /\ l.pc \in LaunchPcs
  BY DEF LaunchInv, Sound, Launch
<1>1. CASE Drained(s)
  <2>1. ASSUME LaunchBecomes(s, [l EXCEPT !.reader = "gone"]) PROVE LaunchInv'
    <3>1. Sound([l EXCEPT !.reader = "gone"])
      BY <1>0, <1>1, <2>1 DEF Drained, May, Sound, Launch, LaunchPcs, MadeSoFar, ShownSoFar, EndedIsDead
    <3>2. QED
      BY <2>1, <3>1, LaunchChange
  <2>2. QED
    BY <1>1, <2>1 DEF Drained, LaunchAt
<1>2. CASE WaitReturns(s)
  <2>1. ASSUME LaunchBecomes(s, [l EXCEPT !.exited = TRUE]) PROVE LaunchInv'
    <3>1. Sound([l EXCEPT !.exited = TRUE])
      BY <1>0, <1>2, <2>1 DEF WaitReturns, May, Sound, Launch, LaunchPcs, MadeSoFar, ShownSoFar, EndedIsDead
    <3>2. QED
      BY <2>1, <3>1, LaunchChange
  <2>2. QED
    BY <1>2, <2>1 DEF WaitReturns, LaunchAt
<1>3. CASE Discovery(s)
  <2>1. ASSUME LaunchBecomes(s, [l EXCEPT !.announced = TRUE, !.discovered = l.discovered + 1]) PROVE LaunchInv'
    <3>0. l.discovered + 1 = 1 /\ 1 \in 0..1
      BY <1>0, <1>3, <2>1 DEF Discovery, Sound, Launch, LaunchPcs, MadeSoFar, ShownSoFar, EndedIsDead
    <3>1. Sound([l EXCEPT !.announced = TRUE, !.discovered = l.discovered + 1])
      BY <1>0, <1>3, <2>1, <3>0 DEF Discovery, May, Sound, Launch, LaunchPcs, MadeSoFar, ShownSoFar, EndedIsDead
    <3>2. QED
      BY <2>1, <3>1, LaunchChange
  <2>2. QED
    BY <1>3, <2>1 DEF Discovery, LaunchAt
<1>4. CASE LongLine(s)
  <2>1. ASSUME LaunchBecomes(s, [l EXCEPT !.reader = "gone", !.unread = ~l.announced]) PROVE LaunchInv'
    <3>1. Sound([l EXCEPT !.reader = "gone", !.unread = ~l.announced])
      BY <1>0, <1>4, <2>1 DEF LongLine, May, Sound, Launch, LaunchPcs, MadeSoFar, ShownSoFar, EndedIsDead
    <3>2. QED
      BY <2>1, <3>1, LaunchChange
  <2>2. QED
    BY <1>4, <2>1 DEF LongLine, LaunchAt
<1>5. CASE ChildExits(s)
  <2>1. ASSUME LaunchBecomes(s, [l EXCEPT !.child = "dead"]) PROVE LaunchInv'
    <3>1. Sound([l EXCEPT !.child = "dead"])
      BY <1>0, <1>5, <2>1 DEF ChildExits, May, Sound, Launch, LaunchPcs, MadeSoFar, ShownSoFar, EndedIsDead
    <3>2. QED
      BY <2>1, <3>1, LaunchChange
  <2>2. QED
    BY <1>5, <2>1 DEF ChildExits, LaunchAt
<1>6. QED
  BY <1>1, <1>2, <1>3, <1>4, <1>5

LEMMA LaunchUnchanged ==
  ASSUME LaunchInv, UNCHANGED launch
  PROVE  LaunchInv'
  BY DEF LaunchInv

\* What a step of the specification is for the installation and for the launches.
LEMMA StartNextCases ==
  ASSUME StartNext
  PROVE  \/ /\ UNCHANGED launch
            /\ \/ \E s \in Starters : Begin(s) \/ InstallStep(s)
               \/ \E p \in Pids : Crash(p)
         \/ /\ UNCHANGED installVars
            /\ \E s \in Starters :
                 \/ MakeWorkspace(s) \/ StartEgress(s) \/ Spawn(s) \/ Handshake(s)
                 \/ BindClients(s) \/ Ping(s) \/ StartCallback(s) \/ SetToolCallback(s)
                 \/ AskShutdown(s) \/ Kill(s) \/ Exited(s) \/ Clear(s)
                 \/ Drained(s) \/ WaitReturns(s) \/ Discovery(s) \/ LongLine(s) \/ ChildExits(s)
<1>1. ASSUME NEW s \in Starters,
             \/ MakeWorkspace(s) \/ StartEgress(s) \/ Spawn(s) \/ Handshake(s)
             \/ BindClients(s) \/ Ping(s) \/ StartCallback(s) \/ SetToolCallback(s)
             \/ AskShutdown(s) \/ Kill(s) \/ Exited(s) \/ Clear(s)
             \/ Drained(s) \/ WaitReturns(s) \/ Discovery(s) \/ LongLine(s) \/ ChildExits(s)
      PROVE  UNCHANGED installVars
  BY <1>1 DEF MakeWorkspace, StartEgress, Spawn, Handshake, BindClients, Ping, StartCallback,
     SetToolCallback, AskShutdown, Kill, Exited, Clear, Drained, WaitReturns, Discovery, LongLine,
     ChildExits, OnlyLaunch
<1>2. QED
  BY <1>1 DEF StartNext, StartStep, StderrStep

LEMMA InstallTypeInit == InstallInit => InstallTypeOK
  BY InstallAssumption DEF InstallInit, InstallTypeOK, Starter, Pcs

LEMMA LaunchInit == StartInit => LaunchInv
  BY DEF StartInit, LaunchInv, Sound, Launch, LaunchPcs, MadeSoFar, ShownSoFar, EndedIsDead

LEMMA StartInvStep ==
  ASSUME InstallTypeOK, LaunchInv, [StartNext]_startVars
  PROVE  InstallTypeOK' /\ LaunchInv'
<1>1. CASE UNCHANGED startVars
  BY <1>1 DEF startVars, InstallTypeOK, LaunchInv
<1>2. CASE /\ UNCHANGED launch
           /\ \/ \E s \in Starters : Begin(s) \/ InstallStep(s)
              \/ \E p \in Pids : Crash(p)
  BY <1>2, InstallTypeStep, LaunchUnchanged
<1>3. CASE /\ UNCHANGED installVars
           /\ \E s \in Starters :
                \/ MakeWorkspace(s) \/ StartEgress(s) \/ Spawn(s) \/ Handshake(s)
                \/ BindClients(s) \/ Ping(s) \/ StartCallback(s) \/ SetToolCallback(s)
                \/ AskShutdown(s) \/ Kill(s) \/ Exited(s) \/ Clear(s)
                \/ Drained(s) \/ WaitReturns(s) \/ Discovery(s) \/ LongLine(s) \/ ChildExits(s)
  <2>1. InstallTypeOK'
    BY <1>3 DEF installVars, InstallTypeOK
  <2>2. LaunchInv'
    BY <1>3, StartingKeepsSound, ConnectingKeepsSound, StopKeepsSound, ChildKeepsSound
  <2>3. QED
    BY <2>1, <2>2
<1>4. QED
  BY <1>1, <1>2, <1>3, StartNextCases

\* Whatever fails on the way (a directory, a server, the process, the handshake, the token, an
\* RPC), and whenever the child dies: startBridge either returns a bridge that has announced
\* itself and has its clients and its callback server, or leaves nothing running or lying about.
THEOREM StartsAreWhole == StartSpec => []StartIsWhole
<1>1. StartInit => InstallTypeOK /\ LaunchInv
  BY InstallTypeInit, LaunchInit DEF StartInit
<1>2. InstallTypeOK /\ LaunchInv /\ [StartNext]_startVars => InstallTypeOK' /\ LaunchInv'
  BY StartInvStep
<1>3. InstallTypeOK /\ LaunchInv => StartIsWhole
  <2>1. ASSUME LaunchInv PROVE FailedStartLeavesNothing
    BY <2>1 DEF LaunchInv, Sound, EndedIsDead, FailedStartLeavesNothing
  <2>2. ASSUME LaunchInv PROVE ReadyIsComplete
    BY <2>2 DEF LaunchInv, Sound, MadeSoFar, ShownSoFar, ReadyIsComplete
  <2>3. QED
    BY <2>1, <2>2 DEF StartIsWhole, StartTypeOK, LaunchInv
<1>4. QED
  BY <1>1, <1>2, <1>3, PTL DEF StartSpec

-----------------------------------------------------------------------------
(***************************************************************************)
(* A start that is alone                                                   *)
(***************************************************************************)

Ended == {"idle", "resolved", "failed", "crashed"}

\* What a step of s is for the others.
LEMMA OthersWatch ==
  ASSUME InstallTypeOK, NEW s \in Starters, NEW value \in Starter, StarterBecomes(s, value)
  PROVE  /\ starter'[s] = value
         /\ \A t \in Starters \ {s} :
              /\ starter'[t].pc = starter[t].pc /\ starter'[t].staged = starter[t].staged
              /\ starter'[t].moved = starter[t].moved /\ starter'[t].sum = starter[t].sum
              /\ starter'[t].trust = starter[t].trust
              /\ Working(t) => ~starter'[t].alone
<1>1. ASSUME NEW t \in Starters \ {s}
      PROVE  /\ starter'[t].pc = starter[t].pc /\ starter'[t].staged = starter[t].staged
             /\ starter'[t].moved = starter[t].moved /\ starter'[t].sum = starter[t].sum
             /\ starter'[t].trust = starter[t].trust
             /\ Working(t) => ~starter'[t].alone
  <2>1. starter[t] \in Starter
    BY DEF InstallTypeOK
  <2>2. starter'[t] = IF Working(t) THEN [starter[t] EXCEPT !.alone = FALSE] ELSE starter[t]
    BY DEF StarterBecomes
  <2>3. QED
    BY <2>1, <2>2 DEF Starter
<1>2. QED
  BY <1>1 DEF StarterBecomes

\* It is enough to look at what the start that makes the step finds.
LEMMA AloneStep ==
  ASSUME InstallTypeOK, AloneInv, NEW s \in Starters, NEW value \in Starter,
         StarterBecomes(s, value), Working(s), value.alone = starter[s].alone,
         value.pc \in Early => ~value.staged,
         value.alone /\ NobodyElse(s) /\ value.staged /\ value.pc \notin Ended => Left(s)'
  PROVE  AloneInv'
<1>1. ASSUME NEW t \in Starters \ {s}
      PROVE  /\ starter'[t].pc \in Early => ~starter'[t].staged
             /\ ~(starter'[t].alone /\ Working(t)')
  <2>1. starter[t].pc \in Early => ~starter[t].staged
    BY DEF AloneInv
  <2>2. QED
    BY <2>1, OthersWatch DEF Working
<1>2. ASSUME value.alone PROVE NobodyElse(s) /\ NobodyElse(s)'
  <2>1. NobodyElse(s)
    BY <1>2 DEF AloneInv
  <2>2. QED
    BY <2>1, OthersWatch DEF NobodyElse, Working
<1>3. /\ starter'[s].pc \in Early => ~starter'[s].staged
      /\ starter'[s].alone /\ Working(s)' => NobodyElse(s)'
      /\ starter'[s].alone /\ Working(s)' /\ starter'[s].staged => Left(s)'
  BY <1>2, OthersWatch DEF Working, Ended
<1>4. QED
  BY <1>1, <1>3 DEF AloneInv

\* What StarterBecomes and At are given.
LEMMA StarterFields ==
  ASSUME NEW r \in Starter, NEW pc \in Pcs
  PROVE  /\ [r EXCEPT !.pc = pc].pc = pc
         /\ [r EXCEPT !.pc = pc].alone = r.alone /\ [r EXCEPT !.pc = pc].staged = r.staged
         /\ [r EXCEPT !.pc = pc].moved = r.moved /\ [r EXCEPT !.pc = pc].sum = r.sum
         /\ [r EXCEPT !.pc = pc].trust = r.trust
  BY DEF Starter

LEMMA AloneAt ==
  ASSUME InstallTypeOK, AloneInv, NEW s \in Starters, NEW pc \in Pcs, At(s, pc), Working(s),
         pc \in Early => ~starter[s].staged,
         starter[s].alone /\ NobodyElse(s) /\ starter[s].staged /\ pc \notin Ended => Left(s)'
  PROVE  AloneInv'
<1>1. starter[s] \in Starter /\ [starter[s] EXCEPT !.pc = pc] \in Starter
  BY StarterTypes DEF InstallTypeOK
<1>2. QED
  BY <1>1, StarterFields, AloneStep DEF At

\* After At, the start has the variables it had.
LEMMA AtKeeps ==
  ASSUME InstallTypeOK, NEW s \in Starters, NEW pc \in Pcs, At(s, pc)
  PROVE  /\ starter'[s].pc = pc /\ starter'[s].sum = starter[s].sum
         /\ starter'[s].moved = starter[s].moved /\ starter'[s].trust = starter[s].trust
         /\ starter'[s].alone = starter[s].alone /\ starter'[s].staged = starter[s].staged
<1>1. starter[s] \in Starter /\ [starter[s] EXCEPT !.pc = pc] \in Starter
  BY StarterTypes DEF InstallTypeOK
<1>2. starter'[s] = [starter[s] EXCEPT !.pc = pc]
  BY <1>1, OthersWatch DEF At
<1>3. QED
  BY <1>1, <1>2, StarterFields

LEMMA TreesAreSome ==
  /\ Unpacked \in Tree /\ Stamped \in Tree /\ Whole \in Tree
  /\ Unpacked # NoTree /\ Stamped # NoTree /\ Whole # NoTree
  /\ Unpacked.content = "pinned" /\ Stamped.content = "pinned"
  /\ Whole.content = "pinned" /\ Whole.archive /\ Whole.bin = "pinned"
<1>1. /\ Unpacked \in Tree /\ Stamped \in Tree /\ Whole \in Tree
      /\ Unpacked.content = "pinned" /\ Stamped.content = "pinned"
      /\ Whole.content = "pinned" /\ Whole.archive /\ Whole.bin = "pinned"
  BY DEF Unpacked, Stamped, Whole, Tree, Contents
<1>2. QED
  BY <1>1, TreeAssumption

\* Trees are told apart by their fields.
LEMMA SameTree ==
  ASSUME NEW t \in Tree, NEW u \in Tree, t.content = u.content, t.archive = u.archive, t.bin = u.bin
  PROVE  t = u
<1>1. /\ t = [content |-> t.content, archive |-> t.archive, bin |-> t.bin]
      /\ u = [content |-> u.content, archive |-> u.archive, bin |-> u.bin]
  BY DEF Tree
<1>2. QED
  BY <1>1

LEMMA StampedInTurn ==
  [Unpacked EXCEPT !.archive = TRUE] = Stamped /\ [Stamped EXCEPT !.bin = "pinned"] = Whole
<1>1. /\ [Unpacked EXCEPT !.archive = TRUE] \in Tree /\ [Stamped EXCEPT !.bin = "pinned"] \in Tree
  BY TreesAreSome DEF Tree, Contents
<1>2. /\ [Unpacked EXCEPT !.archive = TRUE].content = "pinned"
      /\ [Unpacked EXCEPT !.archive = TRUE].archive = TRUE
      /\ [Unpacked EXCEPT !.archive = TRUE].bin = "none"
      /\ [Stamped EXCEPT !.bin = "pinned"].content = "pinned"
      /\ [Stamped EXCEPT !.bin = "pinned"].archive = TRUE
      /\ [Stamped EXCEPT !.bin = "pinned"].bin = "pinned"
  BY DEF Unpacked, Stamped
<1>3. /\ Stamped.content = "pinned" /\ Stamped.archive = TRUE /\ Stamped.bin = "none"
      /\ Whole.content = "pinned" /\ Whole.archive = TRUE /\ Whole.bin = "pinned"
  BY DEF Stamped, Whole
<1>4. QED
  BY <1>1, <1>2, <1>3, TreesAreSome, SameTree

\* The steps before the archive is unpacked.
LEMMA LookingKeepsAlone ==
  ASSUME InstallTypeOK, AloneInv, NEW s \in Starters,
         Look(s) \/ VerifyStamps(s) \/ VerifyBinary(s) \/ Stage(s) \/ StageFails(s)
  PROVE  AloneInv'
<1>0. starter[s] \in Starter /\ Working(s) /\ ~starter[s].staged
  BY DEF InstallTypeOK, AloneInv, Early, Working, Look, VerifyStamps, VerifyBinary, Stage, StageFails
<1>1. CASE Look(s)
  BY <1>0, <1>1, AloneAt DEF Look, Pcs
<1>2. CASE VerifyStamps(s)
  <2>1. CASE At(s, "staging")
    BY <1>0, <2>1, AloneAt DEF Pcs
  <2>2. ASSUME root # NoTree, StarterBecomes(s, [starter[s] EXCEPT !.pc = "hashing", !.sum = root.bin])
        PROVE  AloneInv'
    <3>1. root.bin \in Contents \cup {"none"}
      BY <2>2, TreeTypes DEF InstallTypeOK
    <3>2. [starter[s] EXCEPT !.pc = "hashing", !.sum = root.bin] \in Starter
      BY <1>0, <3>1, StarterTypes DEF Pcs
    <3>3. /\ [starter[s] EXCEPT !.pc = "hashing", !.sum = root.bin].alone = starter[s].alone
          /\ [starter[s] EXCEPT !.pc = "hashing", !.sum = root.bin].staged = starter[s].staged
      BY <1>0 DEF Starter
    <3>4. QED
      BY <1>0, <2>2, <3>2, <3>3, AloneStep
  <2>3. QED
    BY <1>2, <2>1, <2>2 DEF VerifyStamps
<1>3. CASE VerifyBinary(s)
  <2>1. CASE At(s, "staging")
    BY <1>0, <2>1, AloneAt DEF Pcs
  <2>2. CASE StarterBecomes(s, [starter[s] EXCEPT !.pc = "resolved", !.trust = "verified"])
    <3>1. [starter[s] EXCEPT !.pc = "resolved", !.trust = "verified"] \in Starter
      BY <1>0, StarterTypes DEF Pcs
    <3>2. /\ [starter[s] EXCEPT !.pc = "resolved", !.trust = "verified"].alone = starter[s].alone
          /\ [starter[s] EXCEPT !.pc = "resolved", !.trust = "verified"].staged = starter[s].staged
      BY <1>0 DEF Starter
    <3>3. QED
      BY <1>0, <2>2, <3>1, <3>2, AloneStep
  <2>3. QED
    BY <1>3, <2>1, <2>2 DEF VerifyBinary
<1>4. CASE Stage(s)
  <2>1. [starter[s] EXCEPT !.pc = "staged", !.staged = TRUE] \in Starter
    BY <1>0, StarterTypes DEF Pcs
  <2>2. /\ [starter[s] EXCEPT !.pc = "staged", !.staged = TRUE].alone = starter[s].alone
        /\ [starter[s] EXCEPT !.pc = "staged", !.staged = TRUE].pc = "staged"
    BY <1>0 DEF Starter
  <2>3. starter'[s].pc = "staged"
    BY <1>4, <2>1, <2>2, OthersWatch DEF Stage
  <2>4. Left(s)'
    BY <2>3 DEF Left
  <2>5. QED
    BY <1>0, <1>4, <2>1, <2>2, <2>4, AloneStep DEF Stage, Early
<1>5. CASE StageFails(s)
  BY <1>0, <1>5, AloneAt DEF StageFails, Pcs
<1>6. QED
  BY <1>1, <1>2, <1>3, <1>4, <1>5

\* The old tree is set aside and the unpacked one moved in.
LEMMA MovingKeepsAlone ==
  ASSUME InstallTypeOK, AloneInv, NEW s \in Starters,
         StatRoot(s) \/ SetAside(s) \/ MoveIn(s) \/ Restore(s) \/ Check(s) \/ RemoveAside(s)
  PROVE  AloneInv'
<1>0. /\ starter[s] \in Starter /\ Working(s) /\ PidOf[s] \in Pids
      /\ starter[s].alone /\ starter[s].staged => Left(s)
  BY InstallAssumption
  DEF InstallTypeOK, AloneInv, Working, StatRoot, SetAside, MoveIn, Restore, Check, RemoveAside
<1>1. CASE StatRoot(s)
  <2>1. PICK pc \in {"setAside", "movingIn"} :
          At(s, pc) /\ (pc = "setAside" <=> root # NoTree)
    BY <1>1 DEF StatRoot
  <2>2. Left(s)'
    BY <1>1, <2>1, AtKeeps DEF StatRoot, OnlyStarter, Left, Pcs
  <2>3. QED
    BY <1>0, <2>1, <2>2, AloneAt DEF Pcs, Early
<1>2. CASE SetAside(s)
  <2>1. CASE root # NoTree /\ aside[PidOf[s]] = NoTree
    <3>1. [starter[s] EXCEPT !.pc = "movingIn", !.moved = TRUE] \in Starter
      BY <1>0, StarterTypes DEF Pcs
    <3>2. /\ [starter[s] EXCEPT !.pc = "movingIn", !.moved = TRUE].alone = starter[s].alone
          /\ [starter[s] EXCEPT !.pc = "movingIn", !.moved = TRUE].pc = "movingIn"
      BY <1>0 DEF Starter
    <3>3. starter'[s].pc = "movingIn" /\ root' = NoTree
      BY <1>2, <2>1, <3>1, <3>2, OthersWatch DEF SetAside
    <3>4. Left(s)'
      BY <3>3 DEF Left
    <3>5. QED
      BY <1>0, <1>2, <2>1, <3>1, <3>2, <3>4, AloneStep DEF SetAside, Early
  <2>2. CASE ~(root # NoTree /\ aside[PidOf[s]] = NoTree)
    <3>1. At(s, "fallback") /\ UNCHANGED <<root, aside>>
      BY <1>2, <2>2 DEF SetAside, OnlyStarter
    <3>2. ASSUME Left(s) PROVE Left(s)'
      BY <1>2, <2>2, <3>1, <3>2, AtKeeps DEF SetAside, Left, Pcs
    <3>3. QED
      BY <1>0, <3>1, <3>2, AloneAt DEF Pcs, Early
  <2>3. QED
    BY <2>1, <2>2
<1>3. CASE MoveIn(s)
  <2>1. PICK pc \in {"removing", "stampSum", "restoring", "checking"} :
          /\ At(s, pc)
          /\ root = NoTree => pc \in {"removing", "stampSum"} /\ root' = Unpacked
    BY <1>3 DEF MoveIn
  <2>2. ASSUME Left(s) PROVE Left(s)'
    BY <1>3, <2>1, <2>2, AtKeeps DEF MoveIn, Left, Pcs
  <2>3. QED
    BY <1>0, <2>1, <2>2, AloneAt DEF Pcs, Early
<1>4. CASE Restore(s)
  <2>1. ~Left(s)
    BY <1>4 DEF Restore, Left
  <2>2. QED
    BY <1>0, <1>4, <2>1, AloneAt DEF Restore, Pcs, Early
<1>5. CASE Check(s)
  <2>1. ~Left(s)
    BY <1>5 DEF Check, Left
  <2>2. QED
    BY <1>0, <1>5, <2>1, AloneAt DEF Check, Pcs, Early
<1>6. CASE RemoveAside(s)
  <2>1. ASSUME Left(s) PROVE Left(s)'
    BY <1>6, <2>1, AtKeeps DEF RemoveAside, Left, Pcs
  <2>2. QED
    BY <1>0, <1>6, <2>1, AloneAt DEF RemoveAside, Pcs, Early
<1>7. QED
  BY <1>1, <1>2, <1>3, <1>4, <1>5, <1>6

\* The stamps, and the end.
LEMMA StampingKeepsAlone ==
  ASSUME InstallTypeOK, AloneInv, NEW s \in Starters,
         StampSum(s) \/ StampArchive(s) \/ StampBin(s) \/ Installed(s) \/ Fallback(s)
  PROVE  AloneInv'
<1>0. /\ starter[s] \in Starter /\ Working(s)
      /\ starter[s].alone /\ starter[s].staged => Left(s)
  BY DEF InstallTypeOK, AloneInv, Working, StampSum, StampArchive, StampBin, Installed, Fallback
<1>1. CASE StampSum(s)
  <2>1. CASE root # NoTree
    <3>1. root.content \in Contents \cup {"none"}
      BY <2>1, TreeTypes DEF InstallTypeOK
    <3>2. [starter[s] EXCEPT !.pc = "stampArchive", !.sum = root.content] \in Starter
      BY <1>0, <3>1, StarterTypes DEF Pcs
    <3>3. /\ [starter[s] EXCEPT !.pc = "stampArchive", !.sum = root.content].alone = starter[s].alone
          /\ [starter[s] EXCEPT !.pc = "stampArchive", !.sum = root.content].staged = starter[s].staged
          /\ [starter[s] EXCEPT !.pc = "stampArchive", !.sum = root.content].pc = "stampArchive"
          /\ [starter[s] EXCEPT !.pc = "stampArchive", !.sum = root.content].sum = root.content
      BY <1>0 DEF Starter
    <3>4. ASSUME Left(s) PROVE Left(s)'
      <4>1. root = Unpacked /\ root' = root /\ starter'[s].pc = "stampArchive"
            /\ starter'[s].sum = root.content
        BY <1>1, <2>1, <3>2, <3>3, <3>4, OthersWatch DEF StampSum, OnlyStarter, Left
      <4>2. QED
        BY <4>1, TreesAreSome DEF Left
    <3>5. QED
      BY <1>0, <1>1, <2>1, <3>2, <3>3, <3>4, AloneStep DEF StampSum, Early
  <2>2. CASE root = NoTree
    <3>1. ~Left(s)
      BY <1>1, <2>2, TreesAreSome DEF StampSum, Left
    <3>2. QED
      BY <1>0, <1>1, <2>2, <3>1, AloneAt DEF StampSum, Pcs, Early
  <2>3. QED
    BY <2>1, <2>2
<1>2. CASE StampArchive(s)
  <2>1. CASE root # NoTree
    <3>1. At(s, "stampBin") /\ root' = [root EXCEPT !.archive = TRUE]
      BY <1>2, <2>1 DEF StampArchive
    <3>2. ASSUME Left(s) PROVE Left(s)'
      <4>0. root' = [Unpacked EXCEPT !.archive = TRUE]
        BY <1>2, <3>1, <3>2 DEF StampArchive, Left
      <4>1. root' = Stamped
        BY <4>0, StampedInTurn
      <4>2. QED
        BY <1>2, <3>1, <3>2, <4>1, AtKeeps DEF StampArchive, Left, Pcs
    <3>3. QED
      BY <1>0, <3>1, <3>2, AloneAt DEF Pcs, Early
  <2>2. CASE root = NoTree
    <3>1. ~Left(s)
      BY <1>2, <2>2, TreesAreSome DEF StampArchive, Left
    <3>2. QED
      BY <1>0, <1>2, <2>2, <3>1, AloneAt DEF StampArchive, Pcs, Early
  <2>3. QED
    BY <2>1, <2>2
<1>3. CASE StampBin(s)
  <2>1. CASE root # NoTree
    <3>1. At(s, "installed") /\ root' = [root EXCEPT !.bin = starter[s].sum]
      BY <1>3, <2>1 DEF StampBin
    <3>2. ASSUME Left(s) PROVE Left(s)'
      <4>0. root' = [Stamped EXCEPT !.bin = "pinned"]
        BY <1>3, <3>1, <3>2 DEF StampBin, Left
      <4>1. root' = Whole
        BY <4>0, StampedInTurn
      <4>2. QED
        BY <1>3, <3>1, <3>2, <4>1, AtKeeps DEF StampBin, Left, Pcs
    <3>3. QED
      BY <1>0, <3>1, <3>2, AloneAt DEF Pcs, Early
  <2>2. CASE root = NoTree
    <3>1. ~Left(s)
      BY <1>3, <2>2, TreesAreSome DEF StampBin, Left
    <3>2. QED
      BY <1>0, <1>3, <2>2, <3>1, AloneAt DEF StampBin, Pcs, Early
  <2>3. QED
    BY <2>1, <2>2
<1>4. ASSUME NEW trust \in {"installed", "unverified"},
             StarterBecomes(s, [starter[s] EXCEPT !.pc = "resolved", !.trust = trust])
      PROVE  AloneInv'
  <2>1. [starter[s] EXCEPT !.pc = "resolved", !.trust = trust] \in Starter
    BY <1>0, StarterTypes DEF Pcs
  <2>2. /\ [starter[s] EXCEPT !.pc = "resolved", !.trust = trust].alone = starter[s].alone
        /\ [starter[s] EXCEPT !.pc = "resolved", !.trust = trust].pc = "resolved"
    BY <1>0 DEF Starter
  <2>3. QED
    BY <1>0, <1>4, <2>1, <2>2, AloneStep DEF Early, Ended
<1>5. ASSUME At(s, "failed") PROVE AloneInv'
  BY <1>0, <1>5, AloneAt DEF Pcs, Early, Ended
<1>6. CASE Installed(s)
  BY <1>4, <1>5, <1>6 DEF Installed
<1>7. CASE Fallback(s)
  BY <1>4, <1>5, <1>7 DEF Fallback
<1>8. QED
  BY <1>1, <1>2, <1>3, <1>6, <1>7

LEMMA BeginKeepsAlone ==
  ASSUME InstallTypeOK, AloneInv, NEW s \in Starters, Begin(s)
  PROVE  AloneInv'
<1> DEFINE value == [starter[s] EXCEPT !.pc = "looking", !.alone = \A t \in Starters \ {s} : ~Working(t)]
<1>0. starter[s] \in Starter /\ ~starter[s].staged
  BY DEF InstallTypeOK, AloneInv, Begin, Early
<1>1. value \in Starter
  BY <1>0, StarterTypes DEF Pcs
<1>2. value.pc = "looking" /\ value.staged = starter[s].staged /\ (value.alone <=> NobodyElse(s))
  BY <1>0 DEF Starter, NobodyElse
<1> HIDE DEF value
<1>3. StarterBecomes(s, value)
  BY DEF Begin, value
<1>4. ASSUME NEW t \in Starters \ {s}
      PROVE  /\ starter'[t].pc \in Early => ~starter'[t].staged
             /\ ~(starter'[t].alone /\ Working(t)')
  BY <1>1, <1>3, OthersWatch DEF Working, AloneInv
<1>5. NobodyElse(s) => NobodyElse(s)'
  BY <1>1, <1>3, OthersWatch DEF NobodyElse, Working
<1>6. /\ starter'[s].pc \in Early => ~starter'[s].staged
      /\ starter'[s].alone /\ Working(s)' => NobodyElse(s)'
      /\ ~starter'[s].staged
  BY <1>0, <1>1, <1>2, <1>3, <1>5, OthersWatch
<1>7. QED
  BY <1>4, <1>6 DEF AloneInv

LEMMA CrashKeepsAlone ==
  ASSUME InstallTypeOK, AloneInv, NEW p \in Pids, Crash(p)
  PROVE  AloneInv'
<1>1. ASSUME NEW t \in Starters
      PROVE  /\ starter'[t] = starter[t] \/ starter'[t].pc = "crashed"
             /\ Working(t)' => Working(t) /\ starter'[t] = starter[t]
  <2>1. starter[t] \in Starter
    BY DEF InstallTypeOK
  <2>2. QED
    BY <2>1 DEF Crash, Working, Starter
<1>2. ASSUME NEW s \in Starters
      PROVE  /\ starter'[s].pc \in Early => ~starter'[s].staged
             /\ starter'[s].alone /\ Working(s)' => NobodyElse(s)'
             /\ starter'[s].alone /\ Working(s)' /\ starter'[s].staged => Left(s)'
  <2>1. starter'[s].pc \in Early => ~starter'[s].staged
    BY <1>1 DEF AloneInv, Early
  <2>2. NobodyElse(s) => NobodyElse(s)'
    BY <1>1 DEF NobodyElse
  <2>3. ASSUME Working(s)' PROVE Left(s) => Left(s)'
    BY <1>1, <2>3 DEF Crash, OnlyStarter, Left
  <2>4. QED
    BY <1>1, <2>1, <2>2, <2>3 DEF AloneInv
<1>3. QED
  BY <1>2 DEF AloneInv

LEMMA AloneInvStep ==
  ASSUME InstallTypeOK, AloneInv,
         \/ \E s \in Starters : Begin(s) \/ InstallStep(s)
         \/ \E p \in Pids : Crash(p)
  PROVE  AloneInv'
<1>1. ASSUME NEW s \in Starters, InstallStep(s) PROVE AloneInv'
  BY <1>1, LookingKeepsAlone, MovingKeepsAlone, StampingKeepsAlone DEF InstallStep
<1>2. QED
  BY <1>1, BeginKeepsAlone, CrashKeepsAlone

\* A start that nobody disturbs, and whose download succeeds, ends with the pinned release,
\* stamped, in the root directory, whatever it finds there and wherever in a start the process
\* crashed before; it falls back only where the old tree cannot be set aside.  This is so for any
\* number of processes that start bridges and crash, one after the other.
THEOREM StartsRecover == StartSpec => []RecoversAlone
<1>1. StartInit => InstallTypeOK /\ AloneInv
  <2>1. StartInit => InstallTypeOK
    BY InstallTypeInit DEF StartInit
  <2>2. StartInit => AloneInv
    BY DEF StartInit, InstallInit, AloneInv
  <2>3. QED
    BY <2>1, <2>2
<1>2. InstallTypeOK /\ AloneInv /\ [StartNext]_startVars => InstallTypeOK' /\ AloneInv'
  <2> SUFFICES ASSUME InstallTypeOK, AloneInv, [StartNext]_startVars
               PROVE  InstallTypeOK' /\ AloneInv'
    OBVIOUS
  <2>1. CASE UNCHANGED installVars
    BY <2>1 DEF installVars, InstallTypeOK, AloneInv, NobodyElse, Working, Left
  <2>2. CASE \/ \E s \in Starters : Begin(s) \/ InstallStep(s)
             \/ \E p \in Pids : Crash(p)
    BY <2>2, InstallTypeStep, AloneInvStep
  <2>3. QED
    BY <2>1, <2>2, StartNextCases DEF startVars, installVars
<1>3. InstallTypeOK /\ AloneInv => RecoversAlone
  BY TreesAreSome DEF AloneInv, RecoversAlone, Left, Working, Verifies
<1>4. QED
  BY <1>1, <1>2, <1>3, PTL DEF StartSpec

-----------------------------------------------------------------------------
(***************************************************************************)
(* The starts of one process at a time                                     *)
(***************************************************************************)

\* No two processes look for the bridge or install it at once.  Nothing in the code sees to it;
\* what it does to a tree it may find another process at is best effort (bridge_install.go:171).
OneProcessInstalls == \A s, t \in Starters : Working(s) /\ Working(t) => PidOf[s] = PidOf[t]

\* Again it is enough to look at the start that makes the step, and at what it does to a tree
\* that another one has set aside.
LEMMA CleanStep ==
  ASSUME OneProcessInstalls, InstallTypeOK, CleanInv, NEW s \in Starters, NEW value \in Starter,
         StarterBecomes(s, value),
         Clean => Clean',
         UNCHANGED root \/ Clean',
         UNCHANGED aside \/ \A t \in Starters \ {s} : ~Mover(t),
         root # NoTree => root' # NoTree \/ \A t \in Starters \ {s} : ~Mover(t),
         \/ value.pc = "movingIn" /\ value.moved
         \/ value.pc \in {"restoring", "removing"}
         => aside'[PidOf[s]] # NoTree /\ \A t \in Starters \ {s} : ~Mover(t),
         value.pc \in Before => ~value.moved,
         value.pc = "restoring" => root' # NoTree,
         value.pc \in Past => Clean',
         value.pc = "hashing" /\ value.sum = "other" => Clean',
         value.trust \in {"verified", "installed"} => Clean'
  PROVE  CleanInv'
<1>0. /\ starter'[s] = value
      /\ \A t \in Starters \ {s} :
           /\ starter'[t].pc = starter[t].pc /\ starter'[t].moved = starter[t].moved
           /\ starter'[t].sum = starter[t].sum /\ starter'[t].trust = starter[t].trust
  BY OthersWatch
<1>1. \A t \in Starters \ {s} : Mover(t)' <=> Mover(t)
  BY <1>0 DEF Mover
<1>2. Mover(s)' => aside'[PidOf[s]] # NoTree /\ \A t \in Starters \ {s} : ~Mover(t)
  BY <1>0 DEF Mover
<1>3. OneMover'
  <2>1. ASSUME NEW t \in Starters, Mover(t)' PROVE aside'[PidOf[t]] # NoTree
    BY <1>1, <1>2, <2>1 DEF CleanInv, OneMover
  <2>2. ASSUME NEW t \in Starters, NEW u \in Starters, Mover(t)', Mover(u)' PROVE t = u
    BY <1>1, <1>2, <2>2 DEF CleanInv, OneMover
  <2>3. QED
    BY <2>1, <2>2 DEF OneMover
<1>4. ASSUME NEW t \in Starters
      PROVE  /\ starter'[t].pc \in Before => ~starter'[t].moved
             /\ starter'[t].pc \in Past => Clean'
             /\ starter'[t].pc = "hashing" /\ starter'[t].sum = "other" => Clean'
             /\ starter'[t].trust \in {"verified", "installed"} => Clean'
  BY <1>0 DEF CleanInv
<1>5. ASSUME NEW t \in Starters, starter'[t].pc = "restoring" PROVE root' # NoTree
  <2>1. CASE t = s
    BY <1>0, <1>5, <2>1
  <2>2. CASE t # s
    BY <1>0, <1>5, <2>2 DEF CleanInv, Mover
  <2>3. QED
    BY <2>1, <2>2
<1>6. ~Clean' => ~Verifies(root')
  BY DEF CleanInv, Clean
<1>7. QED
  BY <1>3, <1>4, <1>5, <1>6 DEF CleanInv

\* A step that changes no tree, and no variable of the start but where it is.
LEMMA CleanQuiet ==
  ASSUME OneProcessInstalls, InstallTypeOK, CleanInv, NEW s \in Starters, NEW pc \in Pcs,
         At(s, pc), UNCHANGED <<root, aside>>,
         pc # "hashing", pc \notin {"restoring", "removing"},
         pc = "movingIn" => starter[s].pc \in Before,
         pc \in Before => starter[s].pc \in Before,
         pc \in Past => starter[s].pc \in Past \/ root = NoTree
  PROVE  CleanInv'
<1> DEFINE value == [starter[s] EXCEPT !.pc = pc]
<1>1. starter[s] \in Starter /\ value \in Starter
  BY StarterTypes DEF InstallTypeOK
<1>2. /\ value.pc = pc /\ value.moved = starter[s].moved /\ value.sum = starter[s].sum
      /\ value.trust = starter[s].trust
  BY <1>1, StarterFields
<1> HIDE DEF value
<1>3. StarterBecomes(s, value)
  BY DEF At, value
<1>4. Clean' <=> Clean
  BY DEF Clean
<1>5. value.pc \in Before => ~value.moved
  BY <1>2 DEF CleanInv
<1>6. ~(value.pc = "movingIn" /\ value.moved) /\ value.pc \notin {"restoring", "removing"}
  BY <1>2 DEF CleanInv
<1>7. /\ value.pc \in Past => Clean'
      /\ value.trust \in {"verified", "installed"} => Clean'
  BY <1>2, <1>4 DEF CleanInv, Clean
<1>8. QED
  BY <1>1, <1>2, <1>3, <1>4, <1>5, <1>6, <1>7, CleanStep

\* A step that changes no tree but more than the place of the start.
LEMMA CleanStill ==
  ASSUME OneProcessInstalls, InstallTypeOK, CleanInv, NEW s \in Starters, NEW value \in Starter,
         StarterBecomes(s, value), UNCHANGED <<root, aside>>,
         value.moved = starter[s].moved,
         value.pc \notin {"movingIn", "restoring", "removing"},
         value.pc \in Before => starter[s].pc \in Before,
         value.pc \in Past => Clean,
         value.pc = "hashing" /\ value.sum = "other" => Clean,
         value.trust \in {"verified", "installed"} => Clean
  PROVE  CleanInv'
<1>1. Clean' <=> Clean
  BY DEF Clean
<1>2. value.pc \in Before => ~value.moved
  BY DEF CleanInv
<1>3. QED
  BY <1>1, <1>2, CleanStep

LEMMA LookingKeepsClean ==
  ASSUME OneProcessInstalls, InstallTypeOK, CleanInv, NEW s \in Starters,
         \/ Begin(s) \/ Look(s) \/ VerifyStamps(s) \/ VerifyBinary(s) \/ Stage(s) \/ StageFails(s)
         \/ StatRoot(s)
  PROVE  CleanInv'
<1>0. starter[s] \in Starter
  BY DEF InstallTypeOK
<1>1. CASE Begin(s)
  <2> DEFINE value == [starter[s] EXCEPT !.pc = "looking", !.alone = \A t \in Starters \ {s} : ~Working(t)]
  <2>1. value \in Starter
    BY <1>0, StarterTypes DEF Pcs
  <2>2. value.pc = "looking" /\ value.moved = starter[s].moved /\ value.trust = starter[s].trust
    BY <1>0 DEF Starter
  <2>3. StarterBecomes(s, value) /\ UNCHANGED <<root, aside>>
    BY <1>1 DEF Begin, OnlyStarter
  <2> HIDE DEF value
  <2>4. starter[s].pc \in Before
    BY <1>1 DEF Begin, Before, Early
  <2>5. value.trust \in {"verified", "installed"} => Clean
    BY <2>2 DEF CleanInv
  <2>6. QED
    BY <2>1, <2>2, <2>3, <2>4, <2>5, CleanStill DEF Past
<1>2. CASE Look(s)
  BY <1>2, CleanQuiet DEF Look, OnlyStarter, Pcs, Before, Early, Past
<1>3. CASE VerifyStamps(s)
  <2>1. CASE At(s, "staging")
    BY <1>3, <2>1, CleanQuiet DEF VerifyStamps, OnlyStarter, Pcs, Before, Early, Past
  <2>2. ASSUME root # NoTree, root.archive, StarterBecomes(s, [starter[s] EXCEPT !.pc = "hashing", !.sum = root.bin])
        PROVE  CleanInv'
    <3> DEFINE value == [starter[s] EXCEPT !.pc = "hashing", !.sum = root.bin]
    <3>1. root \in Tree /\ root.content \in Contents /\ root.bin \in Contents \cup {"none"}
      BY <2>2, TreeTypes DEF InstallTypeOK
    <3>2. value \in Starter
      BY <1>0, <3>1, StarterTypes DEF Pcs
    <3>3. /\ value.pc = "hashing" /\ value.sum = root.bin /\ value.moved = starter[s].moved
          /\ value.trust = starter[s].trust
      BY <1>0 DEF Starter
    <3>4. starter[s].pc \in Before /\ UNCHANGED <<root, aside>>
      BY <1>3 DEF VerifyStamps, OnlyStarter, Before, Early
    <3>5. value.sum = "other" => Clean
      BY <2>2, <3>1, <3>3 DEF CleanInv, Clean, Verifies, Contents
    <3> HIDE DEF value
    <3>6. value.trust \in {"verified", "installed"} => Clean
      BY <3>3 DEF CleanInv
    <3>7. StarterBecomes(s, value)
      BY <2>2 DEF value
    <3>8. QED
      BY <3>2, <3>3, <3>4, <3>5, <3>6, <3>7, CleanStill DEF Past
  <2>3. QED
    BY <1>3, <2>1, <2>2 DEF VerifyStamps
<1>4. CASE VerifyBinary(s)
  <2>1. CASE At(s, "staging")
    BY <1>4, <2>1, CleanQuiet DEF VerifyBinary, OnlyStarter, Pcs, Before, Early, Past
  <2>2. ASSUME root # NoTree, root.content = starter[s].sum,
               StarterBecomes(s, [starter[s] EXCEPT !.pc = "resolved", !.trust = "verified"])
        PROVE  CleanInv'
    <3> DEFINE value == [starter[s] EXCEPT !.pc = "resolved", !.trust = "verified"]
    <3>1. root.content \in Contents
      BY <2>2, TreeTypes DEF InstallTypeOK
    <3>2. Clean
      BY <1>4, <2>2, <3>1 DEF VerifyBinary, CleanInv, Clean, Contents
    <3>3. value \in Starter
      BY <1>0, StarterTypes DEF Pcs
    <3>4. value.pc = "resolved" /\ value.moved = starter[s].moved
      BY <1>0 DEF Starter
    <3>5. UNCHANGED <<root, aside>>
      BY <1>4 DEF VerifyBinary, OnlyStarter
    <3>6. QED
      BY <2>2, <3>2, <3>3, <3>4, <3>5, CleanStill DEF Before, Early
  <2>3. QED
    BY <1>4, <2>1, <2>2 DEF VerifyBinary
<1>5. CASE Stage(s)
  <2> DEFINE value == [starter[s] EXCEPT !.pc = "staged", !.staged = TRUE]
  <2>1. value \in Starter
    BY <1>0, StarterTypes DEF Pcs
  <2>2. value.pc = "staged" /\ value.moved = starter[s].moved /\ value.trust = starter[s].trust
    BY <1>0 DEF Starter
  <2>3. StarterBecomes(s, value) /\ UNCHANGED <<root, aside>> /\ starter[s].pc \in Before
    BY <1>5 DEF Stage, OnlyStarter, Before, Early
  <2> HIDE DEF value
  <2>4. value.trust \in {"verified", "installed"} => Clean
    BY <2>2 DEF CleanInv
  <2>5. QED
    BY <2>1, <2>2, <2>3, <2>4, CleanStill DEF Past
<1>6. CASE StageFails(s)
  BY <1>6, CleanQuiet DEF StageFails, OnlyStarter, Pcs, Before, Early, Past
<1>7. CASE StatRoot(s)
  BY <1>7, CleanQuiet DEF StatRoot, OnlyStarter, Pcs, Before, Early, Past
<1>8. QED
  BY <1>1, <1>2, <1>3, <1>4, <1>5, <1>6, <1>7

\* A tree is set aside only where none is, that is when nobody else has set one aside.
LEMMA SetAsideKeepsClean ==
  ASSUME OneProcessInstalls, InstallTypeOK, CleanInv, NEW s \in Starters, SetAside(s)
  PROVE  CleanInv'
<1>0. starter[s] \in Starter /\ PidOf[s] \in Pids
  BY InstallAssumption DEF InstallTypeOK
<1>1. CASE root # NoTree /\ aside[PidOf[s]] = NoTree
  <2> DEFINE value == [starter[s] EXCEPT !.pc = "movingIn", !.moved = TRUE]
  <2>1. value \in Starter
    BY <1>0, StarterTypes DEF Pcs
  <2>2. value.pc = "movingIn" /\ value.trust = starter[s].trust
    BY <1>0 DEF Starter
  <2>3. StarterBecomes(s, value) /\ root' = NoTree /\ aside' = [aside EXCEPT ![PidOf[s]] = root]
    BY <1>1 DEF SetAside
  <2> HIDE DEF value
  <2>4. aside'[PidOf[s]] # NoTree
    BY <1>0, <1>1, <2>3 DEF InstallTypeOK
  <2>5. ASSUME NEW t \in Starters
        PROVE  ~Mover(t)
    <3>1. Working(s)
      BY DEF SetAside, Working
    <3>2. Mover(t) => Working(t)
      BY DEF Mover, Working
    <3> QED BY <1>1, <3>1, <3>2 DEF CleanInv, OneMover, OneProcessInstalls
  <2>6. Clean'
    BY <2>3 DEF Clean
  <2>7. QED
    BY <2>1, <2>2, <2>3, <2>4, <2>5, <2>6, CleanStep DEF Before, Early
<1>2. CASE ~(root # NoTree /\ aside[PidOf[s]] = NoTree)
  BY <1>2, CleanQuiet DEF SetAside, OnlyStarter, Pcs, Before, Early, Past
<1>3. QED
  BY <1>1, <1>2

LEMMA MovingKeepsClean ==
  ASSUME OneProcessInstalls, InstallTypeOK, CleanInv, NEW s \in Starters,
         MoveIn(s) \/ Restore(s) \/ Check(s) \/ RemoveAside(s)
  PROVE  CleanInv'
<1>0. starter[s] \in Starter /\ PidOf[s] \in Pids
  BY InstallAssumption DEF InstallTypeOK
<1>00. ASSUME Mover(s) PROVE \A t \in Starters \ {s} : ~Mover(t)
  BY <1>00 DEF CleanInv, OneMover
<1>1. CASE MoveIn(s)
  <2>1. PICK pc \in {"removing", "stampSum", "restoring", "checking"} :
          /\ At(s, pc)
          /\ root = NoTree => root' = Unpacked /\ pc \notin {"restoring", "checking"}
          /\ root # NoTree => UNCHANGED root
          /\ pc \in {"removing", "restoring"} => starter[s].moved
    BY <1>1 DEF MoveIn
  <2> DEFINE value == [starter[s] EXCEPT !.pc = pc]
  <2>2. value \in Starter
    BY <1>0, StarterTypes DEF Pcs
  <2>3. value.pc = pc /\ value.trust = starter[s].trust
    BY <1>0, StarterFields DEF Pcs
  <2> HIDE DEF value
  <2>4. StarterBecomes(s, value) /\ UNCHANGED aside
    BY <1>1, <2>1 DEF MoveIn, At, value
  <2>5. Clean'
    BY <1>1, <2>1, TreesAreSome DEF MoveIn, CleanInv, Past, Clean
  <2>6. pc \in {"removing", "restoring"} => Mover(s) /\ aside'[PidOf[s]] # NoTree
    BY <1>1, <2>1, <2>4 DEF MoveIn, Mover, CleanInv, OneMover
  <2>7. root # NoTree => root' # NoTree
    BY <2>1
  <2>8. pc = "restoring" => root' # NoTree
    BY <2>1
  <2>9. QED
    BY <1>00, <2>1, <2>2, <2>3, <2>4, <2>5, <2>6, <2>7, <2>8, CleanStep DEF Before, Early
<1>2. CASE Restore(s)
  <2>1. root # NoTree /\ UNCHANGED <<root, aside>> /\ At(s, "checking") /\ starter[s].pc = "restoring"
    BY <1>2 DEF Restore, CleanInv, OnlyStarter
  <2>2. QED
    BY <2>1, CleanQuiet DEF Pcs, Before, Early, Past
<1>3. CASE Check(s)
  BY <1>3, CleanQuiet DEF Check, OnlyStarter, Pcs, Before, Early, Past
<1>4. CASE RemoveAside(s)
  <2> DEFINE value == [starter[s] EXCEPT !.pc = "stampSum"]
  <2>1. value \in Starter
    BY <1>0, StarterTypes DEF Pcs
  <2>2. value.pc = "stampSum" /\ value.trust = starter[s].trust
    BY <1>0, StarterFields DEF Pcs
  <2> HIDE DEF value
  <2>3. StarterBecomes(s, value) /\ UNCHANGED root /\ Mover(s) /\ Clean
    BY <1>4 DEF RemoveAside, At, value, Mover, CleanInv, Past
  <2>4. Clean'
    BY <2>3 DEF Clean
  <2>5. QED
    BY <1>00, <2>1, <2>2, <2>3, <2>4, CleanStep DEF Before, Early
<1>5. QED
  BY <1>1, <1>2, <1>3, <1>4

LEMMA StampingKeepsClean ==
  ASSUME OneProcessInstalls, InstallTypeOK, CleanInv, NEW s \in Starters,
         StampSum(s) \/ StampArchive(s) \/ StampBin(s) \/ Installed(s) \/ Fallback(s)
  PROVE  CleanInv'
<1>0. starter[s] \in Starter
  BY DEF InstallTypeOK
<1>1. CASE StampSum(s)
  <2>1. CASE root # NoTree
    <3> DEFINE value == [starter[s] EXCEPT !.pc = "stampArchive", !.sum = root.content]
    <3>1. root.content \in Contents \cup {"none"}
      BY <2>1, TreeTypes DEF InstallTypeOK
    <3>2. value \in Starter
      BY <1>0, <3>1, StarterTypes DEF Pcs
    <3>3. /\ value.pc = "stampArchive" /\ value.moved = starter[s].moved
          /\ value.trust = starter[s].trust
      BY <1>0 DEF Starter
    <3>4. StarterBecomes(s, value) /\ UNCHANGED <<root, aside>> /\ Clean
      BY <1>1, <2>1 DEF StampSum, OnlyStarter, CleanInv, Past
    <3> HIDE DEF value
    <3>5. QED
      BY <3>2, <3>3, <3>4, CleanStill DEF Before, Early
  <2>2. CASE root = NoTree
    BY <1>1, <2>2, CleanQuiet DEF StampSum, OnlyStarter, Pcs, Before, Early, Past
  <2>3. QED
    BY <2>1, <2>2
<1>2. ASSUME NEW pc \in {"stampBin", "installed"}, NEW tree \in Tree,
             starter[s].pc \in {"stampArchive", "stampBin"}, At(s, pc), UNCHANGED aside,
             root # NoTree, root' = tree, tree.content = root.content
      PROVE  CleanInv'
  <2> DEFINE value == [starter[s] EXCEPT !.pc = pc]
  <2>1. value \in Starter
    BY <1>0, StarterTypes DEF Pcs
  <2>2. value.pc = pc
    BY <1>0, StarterFields DEF Pcs
  <2> HIDE DEF value
  <2>3. StarterBecomes(s, value) /\ root' # NoTree
    BY <1>2, TreeAssumption DEF At, value
  <2>4. Clean'
    BY <1>2 DEF CleanInv, Past, Clean
  <2>5. QED
    BY <1>2, <2>1, <2>2, <2>3, <2>4, CleanStep DEF Before, Early
<1>3. CASE StampArchive(s)
  <2>1. CASE root # NoTree
    <3>1. [root EXCEPT !.archive = TRUE] \in Tree /\ [root EXCEPT !.archive = TRUE].content = root.content
      BY <2>1 DEF InstallTypeOK, Tree
    <3>2. QED
      BY <1>2, <1>3, <2>1, <3>1 DEF StampArchive
  <2>2. CASE root = NoTree
    BY <1>3, <2>2, CleanQuiet DEF StampArchive, Pcs, Before, Early, Past
  <2>3. QED
    BY <2>1, <2>2
<1>4. CASE StampBin(s)
  <2>1. CASE root # NoTree
    <3>0. starter[s].sum \in Contents \cup {"none"}
      BY <1>0, StarterTypes
    <3>1. /\ [root EXCEPT !.bin = starter[s].sum] \in Tree
          /\ [root EXCEPT !.bin = starter[s].sum].content = root.content
      BY <2>1, <3>0 DEF InstallTypeOK, Tree
    <3>2. QED
      BY <1>2, <1>4, <2>1, <3>1 DEF StampBin
  <2>2. CASE root = NoTree
    BY <1>4, <2>2, CleanQuiet DEF StampBin, Pcs, Before, Early, Past
  <2>3. QED
    BY <2>1, <2>2
<1>5. ASSUME At(s, "failed"), UNCHANGED <<root, aside>> PROVE CleanInv'
  BY <1>5, CleanQuiet DEF Pcs, Before, Early, Past
<1>6. ASSUME NEW trust \in {"installed", "unverified"}, UNCHANGED <<root, aside>>,
             StarterBecomes(s, [starter[s] EXCEPT !.pc = "resolved", !.trust = trust]),
             trust = "installed" => Clean
      PROVE  CleanInv'
  <2> DEFINE value == [starter[s] EXCEPT !.pc = "resolved", !.trust = trust]
  <2>1. value \in Starter
    BY <1>0, StarterTypes DEF Pcs
  <2>2. value.pc = "resolved" /\ value.moved = starter[s].moved /\ value.trust = trust
    BY <1>0 DEF Starter
  <2>3. StarterBecomes(s, value)
    BY <1>6
  <2> HIDE DEF value
  <2>4. QED
    BY <1>6, <2>1, <2>2, <2>3, CleanStill DEF Before, Early, Past
<1>7. CASE Installed(s)
  BY <1>5, <1>6, <1>7 DEF Installed, OnlyStarter, CleanInv, Past
<1>8. CASE Fallback(s)
  BY <1>5, <1>6, <1>8 DEF Fallback, OnlyStarter
<1>9. QED
  BY <1>1, <1>3, <1>4, <1>7, <1>8

LEMMA CrashKeepsClean ==
  ASSUME InstallTypeOK, CleanInv, NEW p \in Pids, Crash(p)
  PROVE  CleanInv'
<1>1. UNCHANGED <<root, aside>> /\ (Clean' <=> Clean)
  BY DEF Crash, OnlyStarter, Clean
<1>2. ASSUME NEW t \in Starters
      PROVE  /\ starter'[t].trust = starter[t].trust
             /\ \/ starter'[t] = starter[t]
                \/ starter'[t].pc = "crashed"
  <2>1. starter[t] \in Starter
    BY DEF InstallTypeOK
  <2>2. QED
    BY <2>1 DEF Crash, Starter
<1>3. \A t \in Starters : Mover(t)' => Mover(t)
  BY <1>2 DEF Mover
<1>4. OneMover'
  BY <1>1, <1>3 DEF CleanInv, OneMover
<1>5. \A t \in Starters :
        /\ starter'[t].pc \in Before => ~starter'[t].moved
        /\ starter'[t].pc = "restoring" => root' # NoTree
        /\ starter'[t].pc \in Past => Clean'
        /\ starter'[t].pc = "hashing" /\ starter'[t].sum = "other" => Clean'
        /\ starter'[t].trust \in {"verified", "installed"} => Clean'
  BY <1>1, <1>2 DEF CleanInv, Before, Early, Past
<1>6. ~Clean' => ~Verifies(root')
  BY <1>1 DEF CleanInv
<1>7. QED
  BY <1>4, <1>5, <1>6 DEF CleanInv

LEMMA CleanInvStep ==
  ASSUME OneProcessInstalls, InstallTypeOK, CleanInv,
         \/ \E s \in Starters : Begin(s) \/ InstallStep(s)
         \/ \E p \in Pids : Crash(p)
  PROVE  CleanInv'
<1>1. ASSUME NEW s \in Starters, Begin(s) \/ InstallStep(s) PROVE CleanInv'
  BY <1>1, LookingKeepsClean, SetAsideKeepsClean, MovingKeepsClean, StampingKeepsClean DEF InstallStep
<1>2. QED
  BY <1>1, CrashKeepsClean

LEMMA CleanInvInit == InstallInit => CleanInv
  BY TreeAssumption
  DEF InstallInit, CleanInv, OneMover, Mover, Before, Early, Past, Clean, Verifies

(* What is said of the binary *)


\* A start that has its binary makes no more steps of an installation, and whoever gets one
\* says how.
LEMMA ResolvedSays ==
  ASSUME InstallTypeOK, NEW s \in Starters, Begin(s) \/ InstallStep(s)
  PROVE  /\ starter[s].pc # "resolved"
         /\ starter'[s].pc = "resolved" => starter'[s].trust # "none"
         /\ \A t \in Starters \ {s} :
              starter'[t].pc = starter[t].pc /\ starter'[t].trust = starter[t].trust
<1> DEFINE Says(t) == /\ starter[s].pc # "resolved"
                      /\ starter'[s].pc = "resolved" => starter'[s].trust # "none"
                      /\ t # s => starter'[t].pc = starter[t].pc /\ starter'[t].trust = starter[t].trust
<1> SUFFICES ASSUME NEW t \in Starters PROVE Says(t)
  OBVIOUS
<1>0. starter[s] \in Starter
  BY DEF InstallTypeOK
<1>1. ASSUME NEW value \in Starter, StarterBecomes(s, value), starter[s].pc # "resolved",
             value.pc = "resolved" => value.trust # "none"
      PROVE  Says(t)
  BY <1>1, OthersWatch
<1>2. ASSUME NEW pc \in Pcs \ {"resolved"}, At(s, pc), starter[s].pc # "resolved" PROVE Says(t)
  <2>1. [starter[s] EXCEPT !.pc = pc] \in Starter /\ [starter[s] EXCEPT !.pc = pc].pc = pc
    BY <1>0, StarterTypes, StarterFields
  <2>2. QED
    BY <1>1, <1>2, <2>1 DEF At
<1>3. CASE Look(s) \/ StageFails(s) \/ StatRoot(s) \/ MoveIn(s) \/ Restore(s) \/ Check(s) \/ RemoveAside(s)
           \/ StampArchive(s) \/ StampBin(s)
  <2>1. PICK pc \in Pcs \ {"resolved"} : At(s, pc)
    BY <1>3 DEF Look, StageFails, StatRoot, MoveIn, Restore, Check, RemoveAside, StampArchive, StampBin, Pcs
  <2>2. starter[s].pc # "resolved"
    BY <1>3 DEF Look, StageFails, StatRoot, MoveIn, Restore, Check, RemoveAside, StampArchive, StampBin
  <2>3. QED
    BY <1>2, <2>1, <2>2
<1>4. CASE Begin(s)
  <2>1. [starter[s] EXCEPT !.pc = "looking", !.alone = \A u \in Starters \ {s} : ~Working(u)] \in Starter
    BY <1>0, StarterTypes DEF Pcs
  <2>2. [starter[s] EXCEPT !.pc = "looking", !.alone = \A u \in Starters \ {s} : ~Working(u)].pc = "looking"
    BY <1>0 DEF Starter
  <2>3. QED
    BY <1>1, <1>4, <2>1, <2>2 DEF Begin
<1>5. CASE VerifyStamps(s)
  <2>1. CASE At(s, "staging")
    BY <1>2, <1>5, <2>1 DEF VerifyStamps, Pcs
  <2>2. ASSUME root # NoTree, StarterBecomes(s, [starter[s] EXCEPT !.pc = "hashing", !.sum = root.bin])
        PROVE  Says(t)
    <3>1. [starter[s] EXCEPT !.pc = "hashing", !.sum = root.bin] \in Starter
      BY <1>0, <2>2, StarterTypes, TreeTypes DEF InstallTypeOK, Pcs
    <3>2. [starter[s] EXCEPT !.pc = "hashing", !.sum = root.bin].pc = "hashing"
      BY <1>0 DEF Starter
    <3>3. QED
      BY <1>1, <1>5, <2>2, <3>1, <3>2 DEF VerifyStamps
  <2>3. QED
    BY <1>5, <2>1, <2>2 DEF VerifyStamps
<1>6. ASSUME NEW trust \in {"verified", "installed", "unverified"}, starter[s].pc # "resolved",
             StarterBecomes(s, [starter[s] EXCEPT !.pc = "resolved", !.trust = trust])
      PROVE  Says(t)
  <2>1. [starter[s] EXCEPT !.pc = "resolved", !.trust = trust] \in Starter
    BY <1>0, StarterTypes DEF Pcs
  <2>2. [starter[s] EXCEPT !.pc = "resolved", !.trust = trust].trust = trust
    BY <1>0 DEF Starter
  <2>3. QED
    BY <1>1, <1>6, <2>1, <2>2
<1>7. CASE VerifyBinary(s) \/ Installed(s) \/ Fallback(s)
  BY <1>2, <1>6, <1>7 DEF VerifyBinary, Installed, Fallback, Pcs
<1>8. CASE Stage(s)
  <2>1. [starter[s] EXCEPT !.pc = "staged", !.staged = TRUE] \in Starter
    BY <1>0, StarterTypes DEF Pcs
  <2>2. [starter[s] EXCEPT !.pc = "staged", !.staged = TRUE].pc = "staged"
    BY <1>0 DEF Starter
  <2>3. QED
    BY <1>1, <1>8, <2>1, <2>2 DEF Stage
<1>9. CASE SetAside(s)
  <2>1. CASE At(s, "fallback")
    BY <1>2, <1>9, <2>1 DEF SetAside, Pcs
  <2>2. CASE StarterBecomes(s, [starter[s] EXCEPT !.pc = "movingIn", !.moved = TRUE])
    <3>1. [starter[s] EXCEPT !.pc = "movingIn", !.moved = TRUE] \in Starter
      BY <1>0, StarterTypes DEF Pcs
    <3>2. [starter[s] EXCEPT !.pc = "movingIn", !.moved = TRUE].pc = "movingIn"
      BY <1>0 DEF Starter
    <3>3. QED
      BY <1>1, <1>9, <2>2, <3>1, <3>2 DEF SetAside
  <2>3. QED
    BY <1>9, <2>1, <2>2 DEF SetAside
<1>10. CASE StampSum(s)
  <2>1. CASE At(s, "fallback")
    BY <1>2, <1>10, <2>1 DEF StampSum, Pcs
  <2>2. ASSUME root # NoTree,
               StarterBecomes(s, [starter[s] EXCEPT !.pc = "stampArchive", !.sum = root.content])
        PROVE  Says(t)
    <3>1. [starter[s] EXCEPT !.pc = "stampArchive", !.sum = root.content] \in Starter
      BY <1>0, <2>2, StarterTypes, TreeTypes DEF InstallTypeOK, Pcs
    <3>2. [starter[s] EXCEPT !.pc = "stampArchive", !.sum = root.content].pc = "stampArchive"
      BY <1>0 DEF Starter
    <3>3. QED
      BY <1>1, <1>10, <2>2, <3>1, <3>2 DEF StampSum
  <2>3. QED
    BY <1>10, <2>1, <2>2 DEF StampSum
<1>11. QED
  BY <1>3, <1>4, <1>5, <1>7, <1>8, <1>9, <1>10 DEF InstallStep

LEMMA InstallKeepsTrust ==
  ASSUME InstallTypeOK, TrustInv, UNCHANGED launch,
         \/ \E s \in Starters : Begin(s) \/ InstallStep(s)
         \/ \E p \in Pids : Crash(p)
  PROVE  TrustInv'
<1>1. ASSUME NEW s \in Starters, Begin(s) \/ InstallStep(s) PROVE TrustInv'
  <2>1. ASSUME NEW t \in Starters
        PROVE  /\ starter'[t].pc = "resolved" => starter'[t].trust # "none"
               /\ starter[t].pc = "resolved" =>
                    starter'[t].pc = "resolved" /\ starter'[t].trust = starter[t].trust
    BY <1>1, ResolvedSays DEF TrustInv
  <2>2. QED
    BY <2>1 DEF TrustInv
<1>2. ASSUME NEW p \in Pids, Crash(p) PROVE TrustInv'
  <2>1. ASSUME NEW t \in Starters
        PROVE  starter'[t] = starter[t] \/ (starter'[t].pc = "crashed" /\ starter[t].pc # "resolved")
    <3>1. starter[t] \in Starter
      BY DEF InstallTypeOK
    <3>2. QED
      BY <1>2, <3>1 DEF Crash, Working, Starter
  <2>2. QED
    BY <2>1 DEF TrustInv
<1>3. QED
  BY <1>1, <1>2

\* A launch runs what lies in the root directory when it spawns, and that never changes.
LEMMA LaunchKeepsTrust ==
  ASSUME InstallTypeOK, LaunchInv, CleanInv, TrustInv, UNCHANGED installVars, NEW s \in Starters,
         \/ MakeWorkspace(s) \/ StartEgress(s) \/ Spawn(s) \/ Handshake(s)
         \/ BindClients(s) \/ Ping(s) \/ StartCallback(s) \/ SetToolCallback(s)
         \/ AskShutdown(s) \/ Kill(s) \/ Exited(s) \/ Clear(s)
         \/ Drained(s) \/ WaitReturns(s) \/ Discovery(s) \/ LongLine(s) \/ ChildExits(s)
  PROVE  TrustInv'
<1> DEFINE l == launch[s]
<1>0. l \in Launch /\ launch \in [Starters -> Launch]
  BY DEF LaunchInv
<1>1. ASSUME \/ launch'[s].binary = launch[s].binary
             \/ starter[s].pc = "resolved" /\ launch'[s].binary = root.content /\ root # NoTree,
             \A t \in Starters \ {s} : launch'[t] = launch[t]
      PROVE  TrustInv'
  <2>1. ASSUME starter[s].pc = "resolved", root # NoTree, root.content = "other"
        PROVE  starter[s].trust = "unverified"
    <3>1. starter[s].trust \in {"none", "verified", "installed", "unverified"}
      BY DEF InstallTypeOK, Starter
    <3>2. ~Clean
      BY <2>1 DEF Clean
    <3>3. QED
      BY <2>1, <3>1, <3>2 DEF TrustInv, CleanInv
  <2>2. starter' = starter
    BY DEF installVars
  <2>3. launch'[s].binary # "none" => starter[s].pc = "resolved"
    BY <1>1 DEF TrustInv
  <2>4. launch'[s].binary = "other" => starter[s].trust = "unverified"
    BY <1>1, <2>1 DEF TrustInv
  <2>5. QED
    BY <1>1, <2>2, <2>3, <2>4 DEF TrustInv
<1>2. ASSUME NEW value, LaunchBecomes(s, value)
      PROVE  launch'[s] = value /\ \A t \in Starters \ {s} : launch'[t] = launch[t]
  BY <1>0, <1>2 DEF LaunchBecomes
<1>3. CASE Spawn(s)
  <2> DEFINE running == [l EXCEPT !.pc = "handshake", !.child = "running",
                                  !.binary = root.content, !.reader = "reading"]
  <2>1. running.binary = root.content /\ Undone(s).binary = l.binary
    BY <1>0 DEF Launch, Undone
  <2>2. ASSUME root # NoTree, LaunchBecomes(s, running) PROVE TrustInv'
    <3>1. launch'[s] = running /\ \A t \in Starters \ {s} : launch'[t] = launch[t]
      BY <1>2, <2>2
    <3>2. starter[s].pc = "resolved"
      BY <1>3 DEF Spawn, May
    <3>3. QED
      BY <1>1, <2>1, <2>2, <3>1, <3>2
  <2>3. ASSUME LaunchBecomes(s, Undone(s)) PROVE TrustInv'
    BY <1>1, <1>2, <2>1, <2>3
  <2>4. QED
    BY <1>3, <2>2, <2>3 DEF Spawn
<1>4. ASSUME NEW value, LaunchBecomes(s, value), value.binary = l.binary PROVE TrustInv'
  BY <1>1, <1>2, <1>4
<1>5. CASE MakeWorkspace(s)
  <2>1. [l EXCEPT !.pc = "egress", !.workspace = TRUE].binary = l.binary
    BY <1>0 DEF Launch
  <2>2. [l EXCEPT !.pc = "failed"].binary = l.binary
    BY <1>0 DEF Launch
  <2>3. QED
    BY <1>4, <1>5, <2>1, <2>2 DEF MakeWorkspace, LaunchAt
<1>6. CASE StartEgress(s)
  <2>1. [l EXCEPT !.pc = "spawning", !.egress = TRUE].binary = l.binary
    BY <1>0 DEF Launch
  <2>2. [l EXCEPT !.pc = "spawning", !.egress = FALSE].binary = l.binary
    BY <1>0 DEF Launch
  <2>3. [l EXCEPT !.pc = "failed", !.workspace = FALSE].binary = l.binary
    BY <1>0 DEF Launch
  <2>4. QED
    BY <1>4, <1>6, <2>1, <2>2, <2>3 DEF StartEgress, LaunchAt
<1>7. CASE Handshake(s)
  <2>1. [l EXCEPT !.pc = "binding", !.discovered = 0].binary = l.binary
    BY <1>0 DEF Launch
  <2>2. [l EXCEPT !.pc = "shutdown", !.unread = FALSE].binary = l.binary
    BY <1>0 DEF Launch
  <2>3. [l EXCEPT !.pc = "shutdown"].binary = l.binary
    BY <1>0 DEF Launch
  <2>4. QED
    BY <1>4, <1>7, <2>1, <2>2, <2>3 DEF Handshake, LaunchAt
<1>8. CASE BindClients(s)
  <2>1. [l EXCEPT !.pc = "pinging", !.control = TRUE].binary = l.binary
    BY <1>0 DEF Launch
  <2>2. [l EXCEPT !.pc = "shutdown"].binary = l.binary
    BY <1>0 DEF Launch
  <2>3. QED
    BY <1>4, <1>8, <2>1, <2>2 DEF BindClients, LaunchAt
<1>9. CASE Ping(s)
  <2>1. [l EXCEPT !.pc = "callback"].binary = l.binary
    BY <1>0 DEF Launch
  <2>2. [l EXCEPT !.pc = "shutdown"].binary = l.binary
    BY <1>0 DEF Launch
  <2>3. QED
    BY <1>4, <1>9, <2>1, <2>2 DEF Ping, LaunchAt
<1>10. CASE StartCallback(s)
  <2>1. [l EXCEPT !.pc = "registering", !.server = TRUE].binary = l.binary
    BY <1>0 DEF Launch
  <2>2. [l EXCEPT !.pc = "shutdown"].binary = l.binary
    BY <1>0 DEF Launch
  <2>3. QED
    BY <1>4, <1>10, <2>1, <2>2 DEF StartCallback, LaunchAt
<1>11. CASE SetToolCallback(s)
  <2>1. [l EXCEPT !.pc = "ready"].binary = l.binary
    BY <1>0 DEF Launch
  <2>2. [l EXCEPT !.pc = "shutdown", !.server = FALSE].binary = l.binary
    BY <1>0 DEF Launch
  <2>3. QED
    BY <1>4, <1>11, <2>1, <2>2 DEF SetToolCallback, LaunchAt
<1>12. CASE AskShutdown(s)
  <2>1. [l EXCEPT !.pc = "waiting"].binary = l.binary
    BY <1>0 DEF Launch
  <2>2. [l EXCEPT !.pc = "waiting", !.child = "dead"].binary = l.binary
    BY <1>0 DEF Launch
  <2>3. QED
    BY <1>4, <1>12, <2>1, <2>2 DEF AskShutdown, LaunchAt
<1>13. CASE Kill(s)
  <2>1. [l EXCEPT !.child = "dead"].binary = l.binary
    BY <1>0 DEF Launch
  <2>2. QED
    BY <1>4, <1>13, <2>1 DEF Kill, LaunchAt
<1>14. CASE Exited(s)
  <2>1. [l EXCEPT !.pc = "clearing"].binary = l.binary
    BY <1>0 DEF Launch
  <2>2. QED
    BY <1>4, <1>14, <2>1 DEF Exited, LaunchAt
<1>15. CASE Clear(s)
  <2>1. [l EXCEPT !.pc = "failed", !.workspace = FALSE, !.egress = FALSE, !.server = FALSE].binary = l.binary
    BY <1>0 DEF Launch
  <2>2. QED
    BY <1>4, <1>15, <2>1 DEF Clear, LaunchAt
<1>16. CASE Drained(s)
  <2>1. [l EXCEPT !.reader = "gone"].binary = l.binary
    BY <1>0 DEF Launch
  <2>2. QED
    BY <1>4, <1>16, <2>1 DEF Drained, LaunchAt
<1>17. CASE WaitReturns(s)
  <2>1. [l EXCEPT !.exited = TRUE].binary = l.binary
    BY <1>0 DEF Launch
  <2>2. QED
    BY <1>4, <1>17, <2>1 DEF WaitReturns, LaunchAt
<1>18. CASE Discovery(s)
  <2>1. [l EXCEPT !.announced = TRUE, !.discovered = l.discovered + 1].binary = l.binary
    BY <1>0 DEF Launch
  <2>2. QED
    BY <1>4, <1>18, <2>1 DEF Discovery, LaunchAt
<1>19. CASE LongLine(s)
  <2>1. [l EXCEPT !.reader = "gone", !.unread = ~l.announced].binary = l.binary
    BY <1>0 DEF Launch
  <2>2. QED
    BY <1>4, <1>19, <2>1 DEF LongLine, LaunchAt
<1>20. CASE ChildExits(s)
  <2>1. [l EXCEPT !.child = "dead"].binary = l.binary
    BY <1>0 DEF Launch
  <2>2. QED
    BY <1>4, <1>20, <2>1 DEF ChildExits, LaunchAt
<1>21. QED
  BY <1>3, <1>5, <1>6, <1>7, <1>8, <1>9, <1>10, <1>11, <1>12, <1>13,
     <1>14, <1>15, <1>16, <1>17, <1>18, <1>19, <1>20

\* As long as no two processes install at once: unless the log warns that the binary is unverified,
\* what a bridge runs is the pinned release, whatever crashes left behind and however many starts
\* of the process there are at once.  (Three starts of two processes can set the trees of each
\* other aside and put an old one back: without the condition it does not hold.)
THEOREM StartsRunPinned == StartSpec /\ []OneProcessInstalls => []RunsWhatItTrusts
<1>1. StartInit => InstallTypeOK /\ LaunchInv /\ CleanInv /\ TrustInv
  <2>1. StartInit => TrustInv
    BY DEF StartInit, InstallInit, TrustInv
  <2>2. QED
    BY <2>1, InstallTypeInit, LaunchInit, CleanInvInit DEF StartInit
<1>2. /\ InstallTypeOK /\ LaunchInv /\ CleanInv /\ TrustInv
      /\ OneProcessInstalls /\ [StartNext]_startVars
      => InstallTypeOK' /\ LaunchInv' /\ CleanInv' /\ TrustInv'
  <2> SUFFICES ASSUME InstallTypeOK, LaunchInv, CleanInv, TrustInv, OneProcessInstalls,
                      [StartNext]_startVars
               PROVE  CleanInv' /\ TrustInv'
    BY StartInvStep
  <2>1. CASE UNCHANGED startVars
    <3>1. CleanInv'
      BY <2>1 DEF startVars, CleanInv, OneMover, Mover, Clean, Verifies
    <3>2. QED
      BY <2>1, <3>1 DEF startVars, TrustInv
  <2>2. CASE /\ UNCHANGED launch
             /\ \/ \E s \in Starters : Begin(s) \/ InstallStep(s)
                \/ \E p \in Pids : Crash(p)
    BY <2>2, CleanInvStep, InstallKeepsTrust
  <2>3. CASE /\ UNCHANGED installVars
             /\ \E s \in Starters :
                  \/ MakeWorkspace(s) \/ StartEgress(s) \/ Spawn(s) \/ Handshake(s)
                  \/ BindClients(s) \/ Ping(s) \/ StartCallback(s) \/ SetToolCallback(s)
                  \/ AskShutdown(s) \/ Kill(s) \/ Exited(s) \/ Clear(s)
                  \/ Drained(s) \/ WaitReturns(s) \/ Discovery(s) \/ LongLine(s) \/ ChildExits(s)
    <3>1. CleanInv'
      BY <2>3 DEF installVars, CleanInv, OneMover, Mover, Clean, Verifies
    <3>2. QED
      BY <2>3, <3>1, LaunchKeepsTrust
  <2>4. QED
    BY <2>1, <2>2, <2>3, StartNextCases
<1>3. TrustInv => RunsWhatItTrusts
  BY DEF TrustInv, RunsWhatItTrusts
<1>4. QED
  BY <1>1, <1>2, <1>3, PTL DEF StartSpec

\* As long as no two processes install at once, a bridge runs the pinned release unless the log
\* warns of it; and, whoever installs, a start that nobody disturbs and whose download succeeds
\* installs that release, stamped, unless a tree is set aside under its own process id.
THEOREM InstallsAreSound == StartSpec /\ []OneProcessInstalls => []InstallIsSound
<1>1. RunsWhatItTrusts /\ RecoversAlone => InstallIsSound
  BY DEF InstallIsSound
<1>2. QED
  BY <1>1, StartsRunPinned, StartsRecover, PTL

(***************************************************************************)
(* What a bridge and its plugin know of each other, for any environment,   *)
(* machine, announcement and lines: first the ways of its requests.        *)
(***************************************************************************)
LEMMA EgressTexts ==
  /\ NoText # "http" /\ NoText # "::1" /\ NoText # "127.0.0.2"
  /\ Nothing = [scheme |-> NoText, host |-> NoText]
<1>1. NoText # "http"
  BY Zenon DEF NoText
<1>2. NoText # "::1"
  BY Zenon DEF NoText
<1>3. NoText # "127.0.0.2"
  BY Zenon DEF NoText
<1> QED BY <1>1, <1>2, <1>3, Zenon DEF Nothing

\* The proxy of a start: the plugin's, or one of the host's; none only if there is none.
LEMMA ResolvedProxy ==
  ASSUME NEW env, NEW proxyURL
  PROVE  LET proxy == resolveEgressProxy(proxyURL, env) IN
         /\ proxyURL # Nothing => proxy = proxyURL
         /\ proxy # proxyURL => \E name \in bridgeProxyEnvVars : proxy = env.proxy[name]
         /\ proxy = Nothing => \A name \in bridgeProxyEnvVars : env.proxy[name] = Nothing
<1> DEFINE set == {i \in DOMAIN egressProxyEnvVars : env.proxy[egressProxyEnvVars[i]] # Nothing}
           first == CHOOSE i \in set : \A j \in set : i <= j
<1>1. DOMAIN egressProxyEnvVars = 1 .. 6
  BY DEF egressProxyEnvVars
<1>2. bridgeProxyEnvVars = {egressProxyEnvVars[i] : i \in 1 .. 6}
  <2>1. /\ egressProxyEnvVars[1] = "HTTPS_PROXY" /\ egressProxyEnvVars[2] = "https_proxy"
        /\ egressProxyEnvVars[3] = "HTTP_PROXY" /\ egressProxyEnvVars[4] = "http_proxy"
        /\ egressProxyEnvVars[5] = "ALL_PROXY" /\ egressProxyEnvVars[6] = "all_proxy"
    BY DEF egressProxyEnvVars
  <2>2. 1 .. 6 = {1, 2, 3, 4, 5, 6}
    OBVIOUS
  <2> HIDE DEF egressProxyEnvVars
  <2> QED BY <2>1, <2>2, Zenon DEF bridgeProxyEnvVars
<1>3. CASE proxyURL # Nothing
  BY <1>3, Zenon DEF resolveEgressProxy
<1>4. CASE proxyURL = Nothing /\ set = {}
  <2>1. resolveEgressProxy(proxyURL, env) = Nothing
    BY <1>4, Zenon DEF resolveEgressProxy
  <2>2. \A i \in 1 .. 6 : env.proxy[egressProxyEnvVars[i]] = Nothing
    BY <1>1, <1>4, Zenon
  <2> QED BY <1>2, <1>4, <2>1, <2>2, Zenon
<1>5. CASE proxyURL = Nothing /\ set # {}
  <2>1. set \in SUBSET Nat
    BY <1>1
  <2> HIDE DEF set
  <2>2. \E i \in set : \A j \in set : i <= j
    BY <1>5, <2>1, LeastNumber, Zenon
  <2>3. first \in set
    BY <2>2, Zenon
  <2>4. resolveEgressProxy(proxyURL, env) = env.proxy[egressProxyEnvVars[first]]
    BY <1>5, Zenon DEF resolveEgressProxy, set
  <2>5. first \in 1 .. 6 /\ env.proxy[egressProxyEnvVars[first]] # Nothing
    BY <1>1, <2>3, Zenon DEF set
  <2> HIDE DEF first
  <2>6. egressProxyEnvVars[first] \in bridgeProxyEnvVars
    BY <1>2, <2>5, Zenon
  <2> QED BY <1>5, <2>4, <2>5, <2>6, Zenon
<1> QED BY <1>3, <1>4, <1>5

\* What comes up: nothing where there is no proxy, or a listener that dials through the proxy.
LEMMA EgressIs ==
  ASSUME NEW env, NEW proxyURL, NEW has, NEW egress \in startBridgeEgress(proxyURL, env, has)
  PROVE  LET proxy == resolveEgressProxy(proxyURL, env) IN
         \/ proxy = Nothing /\ egress = NoEgress
         \/ /\ proxy # Nothing
            /\ egress.address # NoText /\ egress.proxy = Fixed(proxy) /\ egress # NoEgress
            /\ egress.proxy.host # NoText
<1> DEFINE proxy == resolveEgressProxy(proxyURL, env)
           free == {i \in DOMAIN egressListenAddrs : egressListenAddrs[i] \in has}
           first == CHOOSE i \in free : \A j \in free : i <= j
<1>1. CASE proxy = Nothing
  BY <1>1, Zenon DEF startBridgeEgress
<1>2. CASE proxy # Nothing
  <2>1. PICK address \in listenEgress(has) : egress = [address |-> address, proxy |-> Fixed(proxy)]
    BY <1>2, Zenon DEF startBridgeEgress
  <2>2. address # NoText
    <3>1. DOMAIN egressListenAddrs = 1 .. 2 /\ \A i \in 1 .. 2 : egressListenAddrs[i] \in {"::1", "127.0.0.2"}
      BY DEF egressListenAddrs
    <3>2. free # {} /\ address = egressListenAddrs[first]
      BY <2>1, Zenon DEF listenEgress
    <3>3. free \in SUBSET Nat
      BY <3>1
    <3> HIDE DEF free
    <3>4. \E i \in free : \A j \in free : i <= j
      BY <3>2, <3>3, LeastNumber, Zenon
    <3>5. first \in free
      BY <3>4, Zenon
    <3>6. first \in 1 .. 2
      BY <3>1, <3>5, Zenon DEF free
    <3> HIDE DEF first
    <3> QED BY <3>1, <3>2, <3>6, EgressTexts, Zenon
  <2>3. egress.address = address /\ egress.proxy = Fixed(proxy) /\ NoEgress.address = NoText
    BY <2>1, Zenon DEF NoEgress
  <2>5. Fixed(proxy).host # NoText
    <3>1. parseEgressProxy(proxy)
      BY <1>2, Zenon DEF startBridgeEgress
    <3> QED BY <3>1, Zenon DEF parseEgressProxy
  <2>4. egress # NoEgress
    BY <2>2, <2>3, Zenon
  <2> QED BY <1>2, <2>2, <2>3, <2>4, <2>5, Zenon
<1> QED BY <1>1, <1>2

\* A proxy with its scheme is not nothing.
LEMMA FixedIsSomething ==
  ASSUME NEW S, NEW H, NEW proxy \in [scheme : S, host : H], proxy # Nothing
  PROVE  Fixed(proxy) # Nothing
<1>1. CASE proxy.scheme = NoText
  <2>1. Fixed(proxy) = [proxy EXCEPT !.scheme = "http"]
    BY <1>1, Zenon DEF Fixed
  <2>2. [proxy EXCEPT !.scheme = "http"].scheme = "http"
    OBVIOUS
  <2>3. Nothing.scheme = NoText
    BY EgressTexts, Zenon
  <2> QED BY <2>1, <2>2, <2>3, EgressTexts, Zenon
<1>2. CASE proxy.scheme # NoText
  BY <1>2, Zenon DEF Fixed
<1> QED BY <1>1, <1>2

\* Of the plugin's own way to a proxy and to Cursor.
LEMMA CursorIsReached ==
  ASSUME NEW S, NEW H, NEW env, \A name \in bridgeProxyEnvVars : env.proxy[name] \in [scheme : S, host : H],
         NEW proxyURL \in [scheme : S, host : H], NEW has,
         NEW egress \in startBridgeEgress(proxyURL, env, has), NEW path \in DOMAIN HostOf
  PROVE  ReachesCursor(env, proxyURL, egress, path)
<1> DEFINE proxy == resolveEgressProxy(proxyURL, env)
           child == ChildEnv(env, proxyURL, egress)
           arrives == Arrives(child, egress, path)
<1>1. HostOf[path] = routeCursorRequest(path)
  BY DEF HostOf, routeCursorRequest
<1>2. child.backend = IF egress.address = NoText THEN env.backend ELSE egress.address
  BY Zenon DEF ChildEnv, bridgeEnv
<1> HIDE DEF child
<1>3. CASE proxy = Nothing /\ egress = NoEgress
  <2>1. proxyURL = Nothing /\ \A name \in bridgeProxyEnvVars : env.proxy[name] = Nothing
    BY <1>3, ResolvedProxy, Zenon
  <2>2. egress.address = NoText
    BY <1>3, Zenon DEF NoEgress
  <2>3. arrives = [proxy |-> Nothing, host |-> SentTo(child, path)]
    BY <1>3, Zenon DEF Arrives
  <2>4. SentTo(child, path) = HostOf[path] \/ SentTo(child, path) = env.backend
    BY <1>1, <1>2, <2>2, Zenon DEF SentTo
  <2> HIDE DEF arrives
  <2>5. arrives.host = SentTo(child, path) /\ arrives.proxy = Nothing
    BY <2>3, Zenon
  <2>6. /\ proxyURL # Nothing => arrives.proxy = Fixed(proxyURL)
        /\ arrives.proxy = Nothing => \A name \in bridgeProxyEnvVars : env.proxy[name] = Nothing
        /\ arrives.proxy # Nothing => arrives.proxy.host # NoText
        /\ arrives.host = HostOf[path] \/ (egress = NoEgress /\ arrives.host = env.backend)
    BY <1>3, <2>1, <2>4, <2>5, Zenon
  <2> QED BY <2>6, Zenon DEF ReachesCursor, arrives, child
<1>4. CASE /\ proxy # Nothing
           /\ egress.address # NoText /\ egress.proxy = Fixed(proxy) /\ egress # NoEgress
           /\ egress.proxy.host # NoText
  <2>1. SentTo(child, path) = egress.address
    BY <1>2, <1>4, Zenon DEF SentTo
  <2>2. arrives = [proxy |-> Fixed(proxy), host |-> routeCursorRequest(path)]
    BY <1>4, <2>1, Zenon DEF Arrives
  <2>3. proxy \in [scheme : S, host : H]
    BY ResolvedProxy, Zenon
  <2>4. Fixed(proxy) # Nothing
    BY <1>4, <2>3, FixedIsSomething, Zenon
  <2>5. proxyURL # Nothing => proxy = proxyURL
    BY ResolvedProxy, Zenon
  <2>8. Fixed(proxy).host # NoText
    BY <1>4, Zenon
  <2> HIDE DEF arrives, proxy
  <2>6. arrives.proxy = Fixed(proxy) /\ arrives.host = routeCursorRequest(path)
    BY <2>2, Zenon
  <2>7. /\ proxyURL # Nothing => arrives.proxy = Fixed(proxyURL)
        /\ arrives.proxy = Nothing => \A name \in bridgeProxyEnvVars : env.proxy[name] = Nothing
        /\ arrives.proxy # Nothing => arrives.proxy.host # NoText
        /\ arrives.host = HostOf[path] \/ (egress = NoEgress /\ arrives.host = env.backend)
    BY <1>1, <1>4, <2>4, <2>5, <2>6, <2>8, Zenon
  <2> QED BY <2>7, Zenon DEF ReachesCursor, arrives, child
<1> QED BY <1>3, <1>4, EgressIs, Zenon

\* Of its other way, for a host that is not Cursor's.
LEMMA HostsGoAsConfigured ==
  ASSUME NEW env, NEW proxyURL, NEW egress, NEW host, NEW reads \in Spellings
  PROVE  GoesAsConfigured(env, proxyURL, egress, host, reads)
<1> DEFINE child == ChildEnv(env, proxyURL, egress)
           lists == UNION {env.exempt[name] : name \in bridgeNoProxyEnvVars}
<1>1. reads.proxy \in bridgeProxyEnvVars /\ reads.exempt \in bridgeNoProxyEnvVars
  BY DEF Spellings, bridgeProxyEnvVars, bridgeNoProxyEnvVars
<1>2. child.proxy[reads.proxy] = IF proxyURL # Nothing THEN proxyURL ELSE env.proxy[reads.proxy]
  BY <1>1, Zenon DEF ChildEnv, bridgeEnv
<1>3. child.exempt[reads.exempt] = IF egress.address = NoText THEN env.exempt[reads.exempt]
                                   ELSE lists \cup bridgeLoopbackNoProxy
  BY <1>1, Zenon DEF ChildEnv, bridgeEnv, noProxyWithLoopback
<1>4. env.exempt[reads.exempt] \subseteq lists
  BY <1>1, Zenon
<1>5. host \in env.exempt[reads.exempt] => host \in child.exempt[reads.exempt]
  BY <1>3, <1>4, Zenon
<1>6. (\A name \in bridgeNoProxyEnvVars : host \notin env.exempt[name] \cup bridgeLoopbackNoProxy)
       => host \notin child.exempt[reads.exempt]
  BY <1>1, <1>3, Zenon
<1> HIDE DEF child
<1> QED BY <1>2, <1>5, <1>6, Zenon DEF GoesAsConfigured, Through, child

\* For any environment, proxy and machine: what the client that ignores the environment's proxies
\* sends to Cursor leaves by the proxy of the start; what else the bridge asks for goes as its
\* variables say, those the host exempts directly; and no key is inherited (bridge.go:517, 530,
\* 585; bridge_egress.go:53, 219).  Nothing is said of the hop to the egress (LocalHopIsDirect).
THEOREM WaysAreProxied ==
  ASSUME NEW S, NEW H, NEW env, \A name \in bridgeProxyEnvVars : env.proxy[name] \in [scheme : S, host : H],
         NEW proxyURL \in [scheme : S, host : H], NEW has,
         NEW egress \in startBridgeEgress(proxyURL, env, has), NEW hosts
  PROVE  WayIsProxied(env, proxyURL, egress, hosts)
<1>1. \A path \in DOMAIN HostOf : ReachesCursor(env, proxyURL, egress, path)
  BY CursorIsReached
<1>2. \A host \in hosts, reads \in Spellings : GoesAsConfigured(env, proxyURL, egress, host, reads)
  BY HostsGoAsConfigured, Zenon
<1>3. ChildEnv(env, proxyURL, egress).others
        = (env.others \ bridgeStrippedEnvVars) \cup {"CURSOR_SDK_CLIENT_LANGUAGE"}
  BY Zenon DEF ChildEnv, bridgeEnv
<1>4. "CURSOR_SDK_CLIENT_LANGUAGE" \notin bridgeStrippedEnvVars
  BY DEF bridgeStrippedEnvVars
<1>5. ChildEnv(env, proxyURL, egress).others \cap bridgeStrippedEnvVars = {}
  BY <1>3, <1>4, Zenon
<1> QED BY <1>1, <1>2, <1>5, Zenon DEF WayIsProxied

(***************************************************************************)
(* The end of what lines leave on stderr.                                  *)
(***************************************************************************)
EndOf(s) == SubSeq(s, IF Len(s) > bridgeStderrTail THEN Len(s) - bridgeStderrTail + 1 ELSE 1, Len(s))

\* How long an end is.
Kept(n) == IF n > bridgeStderrTail THEN bridgeStderrTail ELSE n

LEMMA KeptIs ==
  ASSUME NEW n \in Nat
  PROVE  /\ Kept(n) \in Nat /\ Kept(n) <= n /\ Kept(n) <= bridgeStderrTail /\ bridgeStderrTail \in Nat
         /\ (Kept(n) = 0 <=> n = 0) /\ (Kept(n) = n \/ Kept(n) = bridgeStderrTail)
BY DiscoveryAssumption DEF Kept

\* The members of an end.
LEMMA EndIs ==
  ASSUME NEW W, NEW s \in Seq(W), NEW n, Len(s) = n, NEW k, Kept(n) = k
  PROVE  /\ EndOf(s) \in Seq(W) /\ Len(EndOf(s)) = k
         /\ \A i \in 1 .. k : EndOf(s)[i] = s[n - k + i]
<1> DEFINE first == n - k + 1
<1>1. n \in Nat /\ k \in Nat /\ k <= n
  BY LenProperties, KeptIs
<1>2. (IF n > bridgeStderrTail THEN n - bridgeStderrTail + 1 ELSE 1) = first
  BY DiscoveryAssumption, <1>1 DEF Kept
<1>3. EndOf(s) = SubSeq(s, first, n)
  BY <1>2, Zenon DEF EndOf
<1>4. \A i \in first .. n : s[i] \in W
  <2>1. \A i \in 1 .. n : s[i] \in W
    BY ElementOfSeq
  <2> QED BY <1>1, <2>1
<1>5. first \in Int /\ n \in Int /\ n - first + 1 = k /\ (IF first <= n THEN n - first + 1 ELSE 0) = k
      /\ \A i \in 1 .. k : first + i - 1 = n - k + i
  BY <1>1
<1> HIDE DEF first
<1>6. /\ SubSeq(s, first, n) \in Seq(W)
      /\ Len(SubSeq(s, first, n)) = k
      /\ \A i \in 1 .. k : SubSeq(s, first, n)[i] = s[first + i - 1]
  BY <1>4, <1>5, SubSeqProperties
<1>7. EndOf(s) \in Seq(W) /\ Len(EndOf(s)) = k /\ \A i \in 1 .. k : EndOf(s)[i] = s[n - k + i]
  BY <1>3, <1>5, <1>6
<1> QED BY <1>7

LEMMA EndEmpty ==
  ASSUME NEW W, NEW s \in Seq(W)
  PROVE  EndOf(s) = <<>> <=> s = <<>>
<1>1. Len(s) \in Nat /\ EndOf(s) \in Seq(W) /\ Len(EndOf(s)) = Kept(Len(s))
  BY EndIs, LenProperties
<1>2. Len(EndOf(s)) = 0 <=> Len(s) = 0
  BY <1>1, KeptIs
<1> QED BY <1>1, <1>2, EmptySeq

\* What is cut off already would be cut off anyway.
LEMMA EndOfEnd ==
  ASSUME NEW W, NEW s \in Seq(W), NEW t \in Seq(W)
  PROVE  EndOf(EndOf(s) \o t) = EndOf(s \o t)
<1> DEFINE a == Len(s)
           b == Len(t)
           m == Kept(a)
           n == Kept(a + b)
           short == EndOf(s)
           long == s \o t
           cut == short \o t
<1>1. a \in Nat /\ b \in Nat
  BY LenProperties
<1>2. short \in Seq(W) /\ Len(short) = m /\ \A i \in 1 .. m : short[i] = s[a - m + i]
  BY EndIs
<1>3. /\ long \in Seq(W) /\ Len(long) = a + b
      /\ \A i \in 1 .. a + b : long[i] = IF i <= a THEN s[i] ELSE t[i - a]
  BY ConcatProperties
<1> HIDE DEF short
<1>4. /\ cut \in Seq(W) /\ Len(cut) = m + b
      /\ \A i \in 1 .. m + b : cut[i] = IF i <= m THEN short[i] ELSE t[i - m]
  BY <1>2, ConcatProperties
<1> HIDE DEF long, cut
<1>5. m \in Nat /\ m <= a /\ n \in Nat /\ n <= m + b /\ Kept(m + b) = n
  <2> HIDE DEF a, b
  <2> QED BY <1>1, DiscoveryAssumption DEF Kept
<1>6. /\ EndOf(long) \in Seq(W) /\ Len(EndOf(long)) = n
      /\ \A i \in 1 .. n : EndOf(long)[i] = long[(a + b) - n + i]
  <2> DEFINE l == a + b
  <2>1. long \in Seq(W) /\ Len(long) = l /\ Kept(l) = n
    BY <1>3
  <2> HIDE DEF l, n
  <2>2. /\ EndOf(long) \in Seq(W) /\ Len(EndOf(long)) = n
        /\ \A i \in 1 .. n : EndOf(long)[i] = long[l - n + i]
    BY ONLY <2>1, EndIs
  <2> QED BY <2>2 DEF l
<1>7. /\ EndOf(cut) \in Seq(W) /\ Len(EndOf(cut)) = n
      /\ \A i \in 1 .. n : EndOf(cut)[i] = cut[(m + b) - n + i]
  <2> DEFINE l == m + b
  <2>1. cut \in Seq(W) /\ Len(cut) = l /\ Kept(l) = n
    BY <1>4, <1>5
  <2> HIDE DEF l, n
  <2>2. /\ EndOf(cut) \in Seq(W) /\ Len(EndOf(cut)) = n
        /\ \A i \in 1 .. n : EndOf(cut)[i] = cut[l - n + i]
    BY ONLY <2>1, EndIs
  <2> HIDE DEF a, b, m
  <2> QED BY <2>2, Zenon DEF l
<1> HIDE DEF a, b, m, n
<1>8. ASSUME NEW i \in 1 .. n
      PROVE  EndOf(long)[i] = EndOf(cut)[i]
  <2> DEFINE j == (m + b) - n + i
             q == (a + b) - n + i
  <2>1. /\ j \in 1 .. m + b /\ q \in 1 .. a + b
        /\ (j <= m <=> q <= a) /\ q = a - m + j /\ q - a = j - m
    BY <1>1, <1>5
  <2>2. EndOf(long)[i] = long[q] /\ EndOf(cut)[i] = cut[j]
    BY <1>6, <1>7
  <2> HIDE DEF j, q
  <2>3. CASE j <= m
    <3>1. j \in 1 .. m
      BY <1>1, <1>5, <2>1, <2>3
    <3>2. long[q] = s[q] /\ cut[j] = short[j]
      BY <1>3, <1>4, <2>1, <2>3
    <3>3. short[j] = s[a - m + j]
      BY <1>2, <3>1
    <3> QED BY <2>1, <2>2, <3>2, <3>3
  <2>4. CASE ~ (j <= m)
    <3>1. long[q] = t[q - a] /\ cut[j] = t[j - m]
      BY <1>3, <1>4, <2>1, <2>4
    <3> QED BY <2>1, <2>2, <3>1
  <2> QED BY <2>3, <2>4
<1>9. EndOf(cut) = EndOf(long)
  BY <1>6, <1>7, <1>8, SeqEqual
<1> QED BY <1>9 DEF short, long, cut

\* The recursions define functions.
ReadsLines(f, machine, lines, n) ==
  f = [i \in 0 .. n |-> IF i = 0 THEN [announced |-> <<>>, tail |-> <<>>]
                        ELSE ReadLine(machine, f[i - 1], lines[i])]

LEMMA ReadsExists ==
  ASSUME NEW machine, NEW lines, NEW n \in Nat
  PROVE  \E f : ReadsLines(f, machine, lines, n)
<1> DEFINE S == {m \in Nat : \E f : ReadsLines(f, machine, lines, m)}
           none == [announced |-> <<>>, tail |-> <<>>]
<1>1. 0 \in S
  <2> DEFINE f == [i \in 0 .. 0 |-> none]
  <2>1. ReadsLines(f, machine, lines, 0)
    BY DEF ReadsLines
  <2> QED BY <2>1
<1>2. ASSUME NEW m \in S
      PROVE  m + 1 \in S
  <2>1. m \in Nat
    OBVIOUS
  <2>2. PICK f : ReadsLines(f, machine, lines, m)
    OBVIOUS
  <2> DEFINE next == ReadLine(machine, f[m], lines[m + 1])
             longer == [i \in 0 .. m + 1 |-> IF i = m + 1 THEN next ELSE f[i]]
  <2>3. ASSUME NEW i \in 0 .. m + 1
        PROVE  longer[i] = IF i = 0 THEN none ELSE ReadLine(machine, longer[i - 1], lines[i])
    <3>1. CASE i = m + 1
      <4>1. longer[i - 1] = f[m]
        BY <2>1, <3>1
      <4> QED BY <2>1, <3>1, <4>1
    <3>2. CASE i \in 0 .. m /\ i # 0
      <4>1. longer[i] = f[i] /\ longer[i - 1] = f[i - 1]
        BY <2>1, <3>2
      <4>2. f[i] = ReadLine(machine, f[i - 1], lines[i])
        BY <2>2, <3>2 DEF ReadsLines
      <4> QED BY <3>2, <4>1, <4>2
    <3>3. CASE i = 0
      <4>1. longer[i] = f[i]
        BY <2>1, <3>3
      <4>2. f[i] = none
        BY <2>1, <2>2, <3>3 DEF ReadsLines
      <4> QED BY <3>3, <4>1, <4>2
    <3> QED BY <2>1, <3>1, <3>2, <3>3
  <2>4. ReadsLines(longer, machine, lines, m + 1)
    <3>1. longer = [i \in 0 .. m + 1 |-> longer[i]]
      OBVIOUS
    <3> HIDE DEF longer
    <3> QED BY <2>3, <3>1 DEF ReadsLines
  <2> QED BY <2>1, <2>4
<1>3. S = Nat
  BY <1>1, <1>2, Induction
<1> QED BY <1>3

Longer(machine, text, line) ==
  IF Logs(machine, line) = <<>> \/ text = <<>> THEN text \o Logs(machine, line)
  ELSE text \o <<"newline">> \o Logs(machine, line)

LogsAll(f, machine, lines, n) ==
  f = [i \in 0 .. n |-> IF i = 0 THEN <<>> ELSE Longer(machine, f[i - 1], lines[i])]

LEMMA LogsExists ==
  ASSUME NEW machine, NEW lines, NEW n \in Nat
  PROVE  \E f : LogsAll(f, machine, lines, n)
<1> DEFINE S == {m \in Nat : \E f : LogsAll(f, machine, lines, m)}
<1>1. 0 \in S
  <2> DEFINE f == [i \in 0 .. 0 |-> <<>>]
  <2>1. LogsAll(f, machine, lines, 0)
    BY DEF LogsAll
  <2> QED BY <2>1
<1>2. ASSUME NEW m \in S
      PROVE  m + 1 \in S
  <2>1. m \in Nat
    OBVIOUS
  <2>2. PICK f : LogsAll(f, machine, lines, m)
    OBVIOUS
  <2> DEFINE next == Longer(machine, f[m], lines[m + 1])
             longer == [i \in 0 .. m + 1 |-> IF i = m + 1 THEN next ELSE f[i]]
  <2>3. ASSUME NEW i \in 0 .. m + 1
        PROVE  longer[i] = IF i = 0 THEN <<>> ELSE Longer(machine, longer[i - 1], lines[i])
    <3>1. CASE i = m + 1
      <4>1. longer[i - 1] = f[m]
        BY <2>1, <3>1
      <4> QED BY <2>1, <3>1, <4>1
    <3>2. CASE i \in 0 .. m /\ i # 0
      <4>1. longer[i] = f[i] /\ longer[i - 1] = f[i - 1]
        BY <2>1, <3>2
      <4>2. f[i] = Longer(machine, f[i - 1], lines[i])
        BY <2>2, <3>2 DEF LogsAll
      <4> QED BY <3>2, <4>1, <4>2
    <3>3. CASE i = 0
      <4>1. longer[i] = f[i]
        BY <2>1, <3>3
      <4>2. f[i] = <<>>
        BY <2>1, <2>2, <3>3 DEF LogsAll
      <4> QED BY <3>3, <4>1, <4>2
    <3> QED BY <2>1, <3>1, <3>2, <3>3
  <2>4. LogsAll(longer, machine, lines, m + 1)
    <3>1. longer = [i \in 0 .. m + 1 |-> longer[i]]
      OBVIOUS
    <3> HIDE DEF longer
    <3> QED BY <2>3, <3>1 DEF LogsAll
  <2> QED BY <2>1, <2>4
<1>3. S = Nat
  BY <1>1, <1>2, Induction
<1> QED BY <1>3

\* The lines a bridge may write, whose words are of W.
IsLine(line, W) ==
  /\ line.kind \in {"ready", "text"}
  /\ line.kind = "text" => line.text \in Seq(W)

Usable(machine, line) == line.kind = "ready" /\ validate(machine, line.said)

\* What one line does.
LEMMA LineIsRead ==
  ASSUME NEW W, {"newline", "wrong"} \subseteq W, NEW machine, NEW line, IsLine(line, W),
         NEW A, NEW announced \in A, NEW text \in Seq(W), NEW read,
         read = [announced |-> announced, tail |-> EndOf(text)]
  PROVE  /\ Longer(machine, text, line) \in Seq(W)
         /\ ReadLine(machine, read, line)
              = [announced |-> IF Usable(machine, line) /\ announced = <<>> THEN <<line.said>>
                               ELSE announced,
                 tail |-> EndOf(Longer(machine, text, line))]
<1> DEFINE log == Logs(machine, line)
           kept == EndOf(text)
<1>1. log \in Seq(W)
  <2>1. CASE line.kind = "text"
    BY <2>1 DEF Logs, IsLine
  <2>2. CASE line.kind # "text"
    <3>1. <<"wrong">> \in Seq(W) /\ <<>> \in Seq(W)
      OBVIOUS
    <3>2. log = <<>> \/ log = <<"wrong">>
      BY <2>2, Zenon DEF Logs
    <3> QED BY <3>1, <3>2
  <2> QED BY <2>1, <2>2
<1>2. kept \in Seq(W) /\ (kept = <<>> <=> text = <<>>)
  BY EndIs, EndEmpty
<1>3. /\ <<"newline">> \in Seq(W) /\ text \o <<"newline">> \in Seq(W)
      /\ text \o <<"newline">> \o log \in Seq(W)
  <2>1. <<"newline">> \in Seq(W)
    OBVIOUS
  <2>2. text \o <<"newline">> \in Seq(W)
    BY <2>1, ConcatProperties
  <2> QED BY <1>1, <2>1, <2>2, ConcatProperties
<1>4. Longer(machine, text, line) \in Seq(W)
  <2>1. text \o log \in Seq(W)
    BY <1>1, ConcatProperties
  <2> HIDE DEF log
  <2> QED BY <1>3, <2>1 DEF Longer, log
<1>5. CASE Usable(machine, line)
  <2>1. log = <<>>
    BY <1>5 DEF Logs, Usable
  <2>2. Longer(machine, text, line) = text \o <<>>
    BY <2>1, Zenon DEF Longer
  <2>3. text \o <<>> = text
    BY ConcatEmptySeq
  <2>4. ReadLine(machine, read, line)
          = IF read.announced # <<>> THEN read ELSE [read EXCEPT !.announced = <<line.said>>]
    BY <1>5, Zenon DEF ReadLine, Usable
  <2> HIDE DEF kept
  <2>5. ReadLine(machine, read, line)
          = [announced |-> IF announced = <<>> THEN <<line.said>> ELSE announced, tail |-> kept]
    BY <2>4 DEF kept
  <2> QED BY <1>4, <1>5, <2>2, <2>3, <2>5 DEF kept
<1>6. CASE ~Usable(machine, line) /\ log = <<>>
  <2>1. line.kind = "text" /\ line.text = <<>>
    <3>1. <<"wrong">> # <<>>
      OBVIOUS
    <3> QED BY <1>6, <3>1, Zenon DEF Logs, Usable, IsLine
  <2>2. Longer(machine, text, line) = text \o <<>>
    BY <1>6, Zenon DEF Longer
  <2>3. text \o <<>> = text
    BY ConcatEmptySeq
  <2>4. ReadLine(machine, read, line) = read
    BY <2>1 DEF ReadLine
  <2> QED BY <1>4, <1>6, <2>2, <2>3, <2>4, Zenon
<1>7. CASE ~Usable(machine, line) /\ log # <<>>
  <2>1. ReadLine(machine, read, line) = [read EXCEPT !.tail = WriteString(read.tail, log)]
    <3>1. log = IF line.kind = "text" THEN line.text ELSE <<"wrong">>
      BY <1>7 DEF Logs, Usable, IsLine
    <3>2. ~ (line.kind = "text" /\ line.text = <<>>)
      BY <1>7, <3>1
    <3>3. ~ (line.kind = "ready" /\ validate(machine, line.said))
      BY <1>7 DEF Usable
    <3> HIDE DEF log
    <3> QED BY <3>1, <3>2, <3>3, Zenon DEF ReadLine
  <2>2. read.tail = kept
    OBVIOUS
  <2> HIDE DEF kept, log
  <2>3. WriteString(kept, log) = EndOf(Longer(machine, text, line))
    <3>1. WriteString(kept, log) = EndOf(IF kept = <<>> THEN log ELSE kept \o <<"newline">> \o log)
      BY DEF WriteString, EndOf
    <3>2. CASE text = <<>>
      <4>1. Longer(machine, text, line) = text \o log
        BY <3>2, Zenon DEF Longer, log
      <4>2. text \o log = log
        BY <1>1, <3>2, ConcatEmptySeq
      <4> QED BY <1>2, <3>1, <3>2, <4>1, <4>2, Zenon
    <3>3. CASE text # <<>>
      <4>1. Longer(machine, text, line) = text \o <<"newline">> \o log
        BY <1>7, <3>3, Zenon DEF Longer, log
      <4>2. <<"newline">> \o log \in Seq(W)
        BY <1>1, <1>3, ConcatProperties
      <4>3. /\ text \o <<"newline">> \o log = text \o (<<"newline">> \o log)
            /\ kept \o <<"newline">> \o log = kept \o (<<"newline">> \o log)
        <5> DEFINE newline == <<"newline">>
        <5> HIDE DEF newline
        <5>1. newline \in Seq(W)
          BY <1>3 DEF newline
        <5>2. text \o newline \o log = text \o (newline \o log)
          BY <1>1, <5>1, ConcatAssociative
        <5>3. kept \o newline \o log = kept \o (newline \o log)
          BY <1>1, <1>2, <5>1, ConcatAssociative
        <5> QED BY <5>2, <5>3 DEF newline
      <4>4. EndOf(kept \o (<<"newline">> \o log)) = EndOf(text \o (<<"newline">> \o log))
        BY <4>2, EndOfEnd, Zenon DEF kept
      <4> QED BY <1>2, <3>1, <3>3, <4>1, <4>3, <4>4, Zenon
    <3> QED BY <3>2, <3>3
  <2>4. ReadLine(machine, read, line)
          = [announced |-> announced, tail |-> EndOf(Longer(machine, text, line))]
    BY <2>1, <2>2, <2>3
  <2> QED BY <1>4, <1>7, <2>4, Zenon
<1> QED BY <1>5, <1>6, <1>7

\* What has been read after n lines, of which text is left.
ReadSoFar(machine, lines, n, read, text) ==
  LET usable == {i \in 1 .. n : Usable(machine, lines[i])} IN
  /\ read.tail = EndOf(text)
  /\ usable = {} => read.announced = <<>>
  /\ \A i \in usable : (\A j \in usable : i <= j) => read.announced = <<lines[i].said>>

\* What a bridge leaves on stderr is kept to its end, and its first announcement that can be used
\* is handed over, for lines of any number and any words (bridge.go:355, 609).
THEOREM LastWordsStay ==
  ASSUME NEW W, {"newline", "wrong"} \subseteq W, NEW machine, NEW L, NEW lines \in Seq(L),
         \A line \in L : IsLine(line, W)
  PROVE  EndIsKept(machine, lines)
<1> DEFINE n == Len(lines)
           A == {<<>>} \cup {<<line.said>> : line \in L}
           f == CHOOSE g : ReadsLines(g, machine, lines, n)
           left == CHOOSE g : LogsAll(g, machine, lines, n)
           R == {[announced |-> announced, tail |-> tail] : announced \in A, tail \in Seq(W)}
<1>1. n \in Nat /\ \A i \in 1 .. n : lines[i] \in L
  BY LenProperties, ElementOfSeq
<1> HIDE DEF n
<1>2. ReadsLines(f, machine, lines, n) /\ LogsAll(left, machine, lines, n)
  BY <1>1, ReadsExists, LogsExists
<1> HIDE DEF f, left
<1>3. /\ f[0] = [announced |-> <<>>, tail |-> <<>>] /\ left[0] = <<>>
      /\ \A i \in 1 .. n : /\ f[i] = ReadLine(machine, f[i - 1], lines[i])
                          /\ left[i] = Longer(machine, left[i - 1], lines[i])
  <2>1. 0 \in 0 .. n /\ \A i \in 1 .. n : i \in 0 .. n /\ i # 0
    BY <1>1
  <2> QED BY <1>2, <2>1, Zenon DEF ReadsLines, LogsAll
<1> DEFINE Good(i) == /\ left[i] \in Seq(W)
                      /\ \E announced \in A : f[i] = [announced |-> announced, tail |-> EndOf(left[i])]
                      /\ ReadSoFar(machine, lines, i, f[i], left[i])
           S == {i \in Nat : i <= n => Good(i)}
<1>4. 0 \in S
  <2>1. EndOf(<<>>) = <<>> /\ <<>> \in Seq(W)
    BY EndEmpty, EmptySeq
  <2>2. 1 .. 0 = {}
    OBVIOUS
  <2>3. f[0].tail = <<>> /\ f[0].announced = <<>>
    BY <1>3
  <2>4. ReadSoFar(machine, lines, 0, f[0], left[0])
    BY <1>3, <2>1, <2>2, <2>3 DEF ReadSoFar
  <2>5. \E announced \in A : f[0] = [announced |-> announced, tail |-> EndOf(left[0])]
    BY <1>3, <2>1
  <2> QED BY <1>3, <2>1, <2>4, <2>5
<1>5. ASSUME NEW m \in Nat, m + 1 <= n, Good(m)
      PROVE  Good(m + 1)
  <2>1. m \in Nat /\ m <= n /\ m + 1 \in 1 .. n /\ (m + 1) - 1 = m
    BY <1>1, <1>5
  <2>2. Good(m)
    BY <1>5
  <2> DEFINE line == lines[m + 1]
  <2>3. PICK announced \in A : f[m] = [announced |-> announced, tail |-> EndOf(left[m])]
    BY <2>2
  <2>4. line \in L /\ IsLine(line, W)
    BY <1>1, <2>1
  <2>5. f[m + 1] = ReadLine(machine, f[m], line) /\ left[m + 1] = Longer(machine, left[m], line)
    BY <1>3, <2>1
  <2> HIDE DEF A
  <2>6. /\ left[m + 1] \in Seq(W)
        /\ f[m + 1] = [announced |-> IF Usable(machine, line) /\ announced = <<>> THEN <<line.said>>
                                     ELSE announced,
                       tail |-> EndOf(left[m + 1])]
    BY <2>2, <2>3, <2>4, <2>5, LineIsRead
  <2>7. (IF Usable(machine, line) /\ announced = <<>> THEN <<line.said>> ELSE announced) \in A
    BY <2>4 DEF A
  <2> DEFINE before == {i \in 1 .. m : Usable(machine, lines[i])}
             now == {i \in 1 .. m + 1 : Usable(machine, lines[i])}
  <2>8. now = IF Usable(machine, line) THEN before \cup {m + 1} ELSE before
    BY <2>1
  <2>9. before \in SUBSET (1 .. m)
    OBVIOUS
  <2>10. /\ before = {} => announced = <<>>
         /\ \A i \in before : (\A j \in before : i <= j) => announced = <<lines[i].said>>
    <3>1. f[m].announced = announced
      BY <2>3
    <3> QED BY <2>2, <3>1 DEF ReadSoFar
  <2> HIDE DEF before, now, line
  <2>11. before # {} => announced # <<>>
    <3> SUFFICES ASSUME before # {}
                 PROVE  announced # <<>>
      OBVIOUS
    <3>1. PICK i \in before : \A j \in before : i <= j
      <4>1. before \in SUBSET Nat
        BY <2>1, <2>9
      <4> QED BY <4>1, LeastNumber
    <3>2. announced = <<lines[i].said>>
      BY <2>10, <3>1
    <3> QED BY <3>2
  <2>12. /\ f[m + 1].tail = EndOf(left[m + 1])
         /\ f[m + 1].announced = IF Usable(machine, line) /\ announced = <<>> THEN <<line.said>>
                                 ELSE announced
    BY <2>6
  <2>13. now = {} => f[m + 1].announced = <<>>
    BY <2>8, <2>10, <2>12
  <2>14. ASSUME NEW i \in now, \A j \in now : i <= j
         PROVE  f[m + 1].announced = <<lines[i].said>>
    <3>1. CASE before = {}
      <4>1. i = m + 1 /\ Usable(machine, line)
        BY <2>8, <2>14, <3>1
      <4> QED BY <2>10, <2>12, <3>1, <4>1 DEF line
    <3>2. CASE before # {}
      <4>1. i \in before /\ \A j \in before : i <= j
        <5>1. before \subseteq now
          BY <2>8
        <5>2. PICK j \in before : TRUE
          BY <3>2
        <5>3. j <= m /\ j \in Nat /\ i <= j
          BY <2>1, <2>9, <2>14, <5>1, <5>2
        <5>4. i # m + 1
          BY <2>1, <5>3
        <5> QED BY <2>8, <2>14, <5>1, <5>4
      <4> QED BY <2>10, <2>11, <2>12, <3>2, <4>1
    <3> QED BY <3>1, <3>2
  <2>15. ReadSoFar(machine, lines, m + 1, f[m + 1], left[m + 1])
    BY <2>12, <2>13, <2>14 DEF ReadSoFar, now
  <2> QED BY <2>6, <2>7, <2>15
<1>6. S = Nat
  <2> HIDE DEF Good
  <2>1. S \in SUBSET Nat
    OBVIOUS
  <2>2. \A m \in S : m + 1 \in S
    BY <1>1, <1>5
  <2> HIDE DEF S
  <2> QED BY <1>4, <2>1, <2>2, Induction
<1>7. ReadSoFar(machine, lines, n, f[n], left[n])
  BY <1>1, <1>6
<1>8. readStderr(machine, lines) = f[n]
  BY <1>2, Zenon DEF readStderr, f, ReadsLines, n
<1>9. AllLogged(machine, lines) = left[n]
  BY <1>2, Zenon DEF AllLogged, left, LogsAll, Longer, n
<1>10. DOMAIN lines = 1 .. n
  BY LenProperties DEF n
<1>11. left[n] \in Seq(W)
  BY <1>1, <1>6
<1>12. EndOf(left[n]) = SubSeq(left[n], IF Len(left[n]) < bridgeStderrTail THEN 1
                                        ELSE Len(left[n]) - bridgeStderrTail + 1, Len(left[n]))
  <2>1. Len(left[n]) \in Nat
    BY <1>11, LenProperties
  <2>2. (IF Len(left[n]) > bridgeStderrTail THEN Len(left[n]) - bridgeStderrTail + 1 ELSE 1)
          = (IF Len(left[n]) < bridgeStderrTail THEN 1 ELSE Len(left[n]) - bridgeStderrTail + 1)
    BY <2>1, DiscoveryAssumption
  <2> QED BY <2>2, Zenon DEF EndOf
<1> QED BY <1>7, <1>8, <1>9, <1>10, <1>12, Zenon DEF EndIsKept, ReadSoFar, Usable

(***************************************************************************)
(* Where a bridge listens, and its token.                                  *)
(***************************************************************************)
\* A machine whose paths are of the names N, some of whose top directories are links into a
\* private one, as on macOS.
IsMachine(machine, N) ==
  /\ TokenDirs \subseteq N /\ "private" \in N
  /\ \E dirs \in SUBSET N :
       machine.links = [from \in {<<d>> : d \in dirs} |-> <<"private">> \o from]
  /\ machine.temp \in Seq(N) /\ machine.temp # <<>>
  /\ machine.state \in Seq(N) /\ machine.state # <<>>
  /\ <<>> \notin DOMAIN machine.files

\* What is a prefix, in members.
LEMMA PrefixIs ==
  ASSUME NEW T, NEW s \in Seq(T), NEW t \in Seq(T)
  PROVE  IsPrefix(s, t) <=> \E m \in 0 .. Len(t) : t = s \o SubSeq(t, m + 1, Len(t))
<1>0. Len(s) \in Nat /\ Len(t) \in Nat
  BY LenProperties
<1>1. ASSUME IsPrefix(s, t)
      PROVE  \E m \in 0 .. Len(t) : t = s \o SubSeq(t, m + 1, Len(t))
  <2>1. Len(s) <= Len(t) /\ SubSeq(s, 1, Len(s)) = SubSeq(t, 1, Len(s))
    BY <1>1 DEF IsPrefix
  <2>2. SubSeq(s, 1, Len(s)) = s
    <3>1. SubSeq(s, Len(s) + 1, Len(s)) = <<>>
      BY <1>0, SubSeqEmpty
    <3>2. s = SubSeq(s, 1, Len(s)) \o SubSeq(s, Len(s) + 1, Len(s)) /\ SubSeq(s, 1, Len(s)) \in Seq(T)
      BY <1>0, SplitIs
    <3> QED BY <3>1, <3>2, ConcatEmptySeq
  <2>3. t = SubSeq(t, 1, Len(s)) \o SubSeq(t, Len(s) + 1, Len(t))
    <3>1. Len(s) \in 0 .. Len(t)
      BY <1>0, <2>1
    <3> QED BY <3>1, SplitIs
  <2>4. t = s \o SubSeq(t, Len(s) + 1, Len(t))
    BY <2>1, <2>2, <2>3, Zenon
  <2>5. Len(s) \in 0 .. Len(t)
    BY <1>0, <2>1
  <2> QED BY <2>4, <2>5, Zenon
<1>2. ASSUME NEW m \in 0 .. Len(t), t = s \o SubSeq(t, m + 1, Len(t))
      PROVE  IsPrefix(s, t)
  <2> DEFINE rest == SubSeq(t, m + 1, Len(t))
  <2>1. rest \in Seq(T)
    BY <1>0, SplitIs
  <2> HIDE DEF rest
  <2>2. t = s \o rest
    BY <1>2 DEF rest
  <2>3. /\ Len(s \o rest) = Len(s) + Len(rest) /\ Len(rest) \in Nat
        /\ \A i \in 1 .. Len(s) + Len(rest) : (s \o rest)[i] = IF i <= Len(s) THEN s[i] ELSE rest[i - Len(s)]
    BY <2>1, ConcatProperties, LenProperties
  <2>4. Len(s) <= Len(t) /\ \A i \in 1 .. Len(s) : s[i] = t[i]
    BY <1>0, <2>2, <2>3
  <2> QED BY <2>4, PrefixByMembers
<1> QED BY <1>1, <1>2

\* A link is followed at most once, and in the first name.
LEMMA LinksAreFollowed ==
  ASSUME NEW N, NEW machine, IsMachine(machine, N), NEW path \in Seq(N)
  PROVE  /\ path # <<>> => EvalSymlinks(machine, path) = Moved(DOMAIN machine.links, path)
         /\ path = <<>> => EvalSymlinks(machine, path) = <<>>
         /\ path # <<>> => Moved(DOMAIN machine.links, path) \in Seq(N)
<1> DEFINE links == machine.links
           follows == \E f \in DOMAIN links : IsPrefix(f, path)
           chosen == CHOOSE f \in DOMAIN links : IsPrefix(f, path)
<1>1. PICK dirs \in SUBSET N : links = [f \in {<<d>> : d \in dirs} |-> <<"private">> \o f]
  BY DEF IsMachine
<1>2. DOMAIN links = {<<d>> : d \in dirs}
  BY <1>1, Zenon
<1>3. Len(path) \in Nat /\ (path = <<>> <=> Len(path) = 0)
  BY EmptySeq, LenProperties
<1>4. ASSUME NEW d \in dirs
      PROVE  IsPrefix(<<d>>, path) <=> path # <<>> /\ path[1] = d
  <2>1. <<d>> \in Seq(N) /\ Len(<<d>>) = 1 /\ <<d>>[1] = d
    OBVIOUS
  <2>2. ASSUME IsPrefix(<<d>>, path)
        PROVE  path # <<>> /\ path[1] = d
    <3>1. PICK m \in 0 .. Len(path) : path = <<d>> \o SubSeq(path, m + 1, Len(path))
      BY <2>1, <2>2, PrefixIs
    <3> DEFINE rest == SubSeq(path, m + 1, Len(path))
    <3>2. rest \in Seq(N)
      BY <1>3, SplitIs
    <3> HIDE DEF rest
    <3>3. Len(<<d>> \o rest) = 1 + Len(rest) /\ (<<d>> \o rest)[1] = d /\ Len(rest) \in Nat
      BY <2>1, <3>2, ConcatProperties, LenProperties
    <3>4. path = <<d>> \o rest
      BY <3>1 DEF rest
    <3> QED BY <1>3, <3>3, <3>4
  <2>3. ASSUME path # <<>>, path[1] = d
        PROVE  IsPrefix(<<d>>, path)
    <3>1. Len(<<d>>) <= Len(path) /\ \A i \in 1 .. Len(<<d>>) : <<d>>[i] = path[i]
      BY <1>3, <2>1, <2>3
    <3> QED BY <2>1, <3>1, PrefixByMembers
  <2> QED BY <2>2, <2>3
<1>5. path # <<>> => Moved(DOMAIN links, path) \in Seq(N)
  <2>1. <<"private">> \in Seq(N)
    BY DEF IsMachine
  <2>2. <<"private">> \o path \in Seq(N)
    BY <2>1, ConcatProperties
  <2> QED BY <2>2, Zenon DEF Moved
<1>6. CASE path = <<>>
  <2>1. ~follows
    BY <1>2, <1>4, <1>6
  <2> QED BY <1>6, <2>1, Zenon DEF EvalSymlinks
<1>7. CASE path # <<>> /\ <<path[1]>> \notin DOMAIN links
  <2>1. ~follows
    BY <1>2, <1>4, <1>7
  <2>2. EvalSymlinks(machine, path) = path
    BY <2>1, Zenon DEF EvalSymlinks
  <2>3. Moved(DOMAIN links, path) = path
    BY <1>7, Zenon DEF Moved
  <2> QED BY <1>5, <1>7, <2>2, <2>3, Zenon
<1>8. CASE path # <<>> /\ <<path[1]>> \in DOMAIN links
  <2>1. PICK d \in dirs : <<path[1]>> = <<d>>
    BY <1>2, <1>8
  <2>2. path[1] = d
    BY <2>1
  <2>3. IsPrefix(<<d>>, path) /\ <<d>> \in DOMAIN links
    BY <1>2, <1>4, <1>8, <2>2
  <2>4. chosen \in DOMAIN links /\ IsPrefix(chosen, path)
    BY <2>3, Zenon
  <2>5. PICK e \in dirs : chosen = <<e>>
    BY <1>2, <2>4, Zenon
  <2>6. e = d
    BY <1>4, <2>2, <2>4, <2>5
  <2>7. links[chosen] = <<"private">> \o <<d>> /\ Len(chosen) = 1
    <3>1. links[chosen] = <<"private">> \o chosen
      BY <1>1, <1>2, <2>4, Zenon
    <3>2. Len(<<d>>) = 1
      OBVIOUS
    <3> QED BY <2>5, <2>6, <3>1, <3>2, Zenon
  <2>8. EvalSymlinks(machine, path) = links[chosen] \o SubSeq(path, Len(chosen) + 1, Len(path))
    BY <2>4, Zenon DEF EvalSymlinks
  <2> HIDE DEF chosen
  <2>9. path = <<d>> \o SubSeq(path, 2, Len(path)) /\ SubSeq(path, 2, Len(path)) \in Seq(N)
    <3>1. 1 \in 0 .. Len(path)
      BY <1>3, <1>8
    <3>2. /\ SubSeq(path, 1, 1) \in Seq(N) /\ SubSeq(path, 2, Len(path)) \in Seq(N)
          /\ path = SubSeq(path, 1, 1) \o SubSeq(path, 2, Len(path))
      BY <3>1, SplitIs
    <3>3. SubSeq(path, 1, 1) = <<d>>
      <4>1. \A i \in 1 .. 1 : path[i] \in N
        BY <3>1, ElementOfSeq, <1>3
      <4>2. Len(SubSeq(path, 1, 1)) = 1 /\ SubSeq(path, 1, 1)[1] = path[1]
        BY <4>1, SubSeqProperties
      <4>3. <<d>> \in Seq(N) /\ Len(<<d>>) = 1 /\ <<d>>[1] = d
        OBVIOUS
      <4> DEFINE head == SubSeq(path, 1, 1)
                 one == <<d>>
      <4> HIDE DEF head, one
      <4>4. head \in Seq(N) /\ one \in Seq(N) /\ Len(head) = Len(one) /\ \A i \in 1 .. Len(head) : head[i] = one[i]
        BY <2>2, <3>2, <4>2, <4>3 DEF head, one
      <4>5. head = one
        BY <4>4, SeqEqual
      <4> QED BY <4>5 DEF head, one
    <3> QED BY <3>2, <3>3
  <2>10. EvalSymlinks(machine, path) = <<"private">> \o path
    <3> DEFINE rest == SubSeq(path, 2, Len(path))
    <3>1. <<"private">> \in Seq(N) /\ <<d>> \in Seq(N)
      BY DEF IsMachine
    <3>2. EvalSymlinks(machine, path) = (<<"private">> \o <<d>>) \o rest
      BY <2>7, <2>8
    <3> HIDE DEF rest
    <3>3. (<<"private">> \o <<d>>) \o rest = <<"private">> \o (<<d>> \o rest)
      BY <2>9, <3>1, ConcatAssociative DEF rest
    <3> QED BY <2>9, <3>2, <3>3, Zenon DEF rest
  <2>11. Moved(DOMAIN links, path) = <<"private">> \o path
    BY <1>8, Zenon DEF Moved
  <2> QED BY <1>5, <1>8, <2>10, <2>11, Zenon
<1> QED BY <1>6, <1>7, <1>8

\* What is beneath a directory moves with it.
LEMMA MovedTogether ==
  ASSUME NEW N, NEW links, NEW dir \in Seq(N), dir # <<>>, NEW rest \in Seq(N)
  PROVE  Moved(links, dir \o rest) = Moved(links, dir) \o rest
<1>1. (dir \o rest)[1] = dir[1]
  <2>1. Len(dir) \in Nat /\ Len(dir) # 0 /\ Len(rest) \in Nat
    BY EmptySeq, LenProperties
  <2> QED BY <2>1, ConcatProperties
<1>2. <<"private">> \o (dir \o rest) = (<<"private">> \o dir) \o rest
  <2> DEFINE first == <<"private">>
             M == N \cup {"private"}
  <2>1. first \in Seq(M) /\ N \subseteq M
    OBVIOUS
  <2> HIDE DEF first, M
  <2>2. dir \in Seq(M) /\ rest \in Seq(M)
    BY <2>1, SeqOfMore
  <2>3. first \o (dir \o rest) = (first \o dir) \o rest
    BY <2>1, <2>2, ConcatAssociative
  <2> QED BY <2>3 DEF first
<1> QED BY <1>1, <1>2, Zenon DEF Moved

\* A file in the state directory is known for one by any of its names.
LEMMA StateIsKnown ==
  ASSUME NEW N, NEW machine, IsMachine(machine, N), NEW at \in Seq(N)
  PROVE  pathInsideRoot(machine, at, machine.state) <=>
           \E n \in 0 .. Len(at) :
             at = Moved(DOMAIN machine.links, machine.state \o SubSeq(at, n + 1, Len(at)))
<1> DEFINE links == DOMAIN machine.links
           state == Moved(links, machine.state)
<1>1. machine.state \in Seq(N) /\ machine.state # <<>> /\ "private" \in N
  BY DEF IsMachine
<1>2. EvalSymlinks(machine, machine.state) = state /\ state \in Seq(N)
  BY <1>1, LinksAreFollowed
<1>3. ASSUME NEW n \in 0 .. Len(at)
      PROVE  Moved(links, machine.state \o SubSeq(at, n + 1, Len(at))) = state \o SubSeq(at, n + 1, Len(at))
  <2> DEFINE rest == SubSeq(at, n + 1, Len(at))
  <2>1. rest \in Seq(N)
    BY SplitIs
  <2> HIDE DEF rest, links
  <2> DEFINE above == machine.state
  <2>2. above \in Seq(N) /\ above # <<>>
    BY <1>1
  <2> HIDE DEF above
  <2>3. Moved(links, above \o rest) = Moved(links, above) \o rest
    BY ONLY <2>1, <2>2, MovedTogether
  <2> QED BY <2>3 DEF rest, above
<1> HIDE DEF state, links
<1>4. pathInsideRoot(machine, at, machine.state) <=>
        \E n \in 0 .. Len(at) : at = state \o SubSeq(at, n + 1, Len(at))
  BY <1>2, PrefixIs DEF pathInsideRoot
<1> QED BY <1>3, <1>4 DEF links

\* So is one in a bridge's own directory.
LEMMA TempIsKnown ==
  ASSUME NEW N, NEW machine, IsMachine(machine, N), NEW at \in Seq(N)
  PROVE  tokenPathInBridgeTempDir(machine, at) <=>
           \E dir \in TokenDirs :
             at # <<>> /\ at = Moved(DOMAIN machine.links, machine.temp \o <<dir, Last(at)>>)
<1> DEFINE links == DOMAIN machine.links
           temp == Moved(links, machine.temp)
           n == Len(at)
<1>1. machine.temp \in Seq(N) /\ machine.temp # <<>> /\ "private" \in N /\ TokenDirs \subseteq N
  BY DEF IsMachine
<1>2. EvalSymlinks(machine, machine.temp) = temp /\ temp \in Seq(N)
  BY <1>1, LinksAreFollowed
<1>3. n \in Nat /\ (at = <<>> <=> n = 0)
  BY EmptySeq, LenProperties
<1>4. temp # <<>>
  <2> DEFINE first == <<"private">>
  <2>1. first \in Seq(N) /\ Len(first) = 1
    BY <1>1
  <2>2. Len(first \o machine.temp) = 1 + Len(machine.temp) /\ Len(machine.temp) \in Nat
    <3> HIDE DEF first
    <3>1. Len(first \o machine.temp) = Len(first) + Len(machine.temp)
      BY <1>1, <2>1, ConcatProperties, Zenon
    <3>2. Len(machine.temp) \in Nat
      BY <1>1, LenProperties, Zenon
    <3> QED BY <2>1, <3>1, <3>2
  <2>3. first \o machine.temp # <<>>
    <3> HIDE DEF first
    <3>1. Len(<<>>) = 0
      OBVIOUS
    <3> QED BY <2>2, <3>1
  <2> QED BY <1>1, <2>3, Zenon DEF Moved
<1>5. Len(temp) \in Nat /\ Len(temp) # 0
  <2> HIDE DEF temp
  <2> QED BY <1>2, <1>4, EmptySeq, LenProperties
<1>6. ASSUME n # 0
      PROVE  Last(at) = at[n] /\ Last(at) \in N
  <2>1. Last(at) = at[n]
    BY Zenon DEF Last
  <2>2. n \in 1 .. Len(at)
    BY <1>3, <1>6
  <2> QED BY <2>1, <2>2, ElementOfSeq
<1>7. ASSUME NEW dir \in TokenDirs, n # 0
      PROVE  Moved(links, machine.temp \o <<dir, Last(at)>>) = temp \o <<dir, Last(at)>>
  <2> DEFINE rest == <<dir, Last(at)>>
  <2>1. rest \in Seq(N)
    BY <1>1, <1>6, <1>7
  <2> HIDE DEF rest, links
  <2> DEFINE above == machine.temp
  <2>2. above \in Seq(N) /\ above # <<>>
    BY <1>1
  <2> HIDE DEF above
  <2>3. Moved(links, above \o rest) = Moved(links, above) \o rest
    BY ONLY <2>1, <2>2, MovedTogether
  <2> QED BY <2>3 DEF rest, above
<1> HIDE DEF temp, links
<1>8. ASSUME n > 2
      PROVE  /\ Front(Front(at)) \in Seq(N) /\ Len(Front(Front(at))) = n - 2
             /\ \A i \in 1 .. n - 2 : Front(Front(at))[i] = at[i]
             /\ Last(Front(at)) = at[n - 1]
  <2> DEFINE front == Front(at)
  <2>1. front = SubSeq(at, 1, n - 1)
    BY Zenon DEF Front
  <2>2. \A i \in 1 .. n - 1 : at[i] \in N
    <3>1. \A i \in 1 .. n : at[i] \in N
      BY ElementOfSeq
    <3> HIDE DEF n
    <3> QED BY <1>3, <3>1
  <2> HIDE DEF n
  <2>3. front \in Seq(N) /\ Len(front) = n - 1 /\ \A i \in 1 .. n - 1 : front[i] = at[i]
    BY <1>3, <1>8, <2>1, <2>2, SubSeqProperties
  <2> HIDE DEF front
  <2>4. Front(front) = SubSeq(front, 1, n - 2)
    <3>1. (n - 1) - 1 = n - 2
      BY <1>3
    <3> QED BY <2>3, <3>1, Zenon DEF Front
  <2>5. \A i \in 1 .. n - 2 : front[i] \in N /\ front[i] = at[i]
    BY <1>3, <2>2, <2>3
  <2>6. /\ Front(front) \in Seq(N) /\ Len(Front(front)) = n - 2
        /\ \A i \in 1 .. n - 2 : Front(front)[i] = front[i]
    BY <1>3, <1>8, <2>4, <2>5, SubSeqProperties
  <2>7. Last(front) = at[n - 1]
    <3>1. n - 1 \in 1 .. n - 1
      BY <1>3, <1>8
    <3> QED BY <2>3, <3>1, Zenon DEF Last
  <2> QED BY <2>5, <2>6, <2>7 DEF front
<1>9. ASSUME tokenPathInBridgeTempDir(machine, at)
      PROVE  \E dir \in TokenDirs : at # <<>> /\ at = temp \o <<dir, Last(at)>>
  <2> DEFINE dir == Last(Front(at))
             end == <<dir, Last(at)>>
  <2>1. n > 2 /\ Front(Front(at)) = temp /\ dir \in TokenDirs
    BY <1>2, <1>9 DEF tokenPathInBridgeTempDir
  <2>2. end \in Seq(N) /\ Len(end) = 2 /\ end[1] = at[n - 1] /\ end[2] = at[n]
    BY <1>1, <1>3, <1>6, <1>8, <2>1
  <2> HIDE DEF end, dir, n
  <2>3. /\ temp \o end \in Seq(N) /\ Len(temp \o end) = n
        /\ \A i \in 1 .. n : (temp \o end)[i] = IF i <= n - 2 THEN temp[i] ELSE end[i - (n - 2)]
    <3>1. Len(temp) = n - 2 /\ (n - 2) + 2 = n
      BY <1>3, <1>8, <2>1
    <3>2. /\ temp \o end \in Seq(N) /\ Len(temp \o end) = Len(temp) + Len(end)
          /\ \A i \in 1 .. Len(temp) + Len(end) :
               (temp \o end)[i] = IF i <= Len(temp) THEN temp[i] ELSE end[i - Len(temp)]
      BY <1>2, <2>2, ConcatProperties, Zenon
    <3> QED BY <2>2, <3>1, <3>2
  <2>4. ASSUME NEW i \in 1 .. n
        PROVE  (temp \o end)[i] = at[i]
    <3>1. CASE i <= n - 2
      BY <1>3, <1>8, <2>1, <2>3, <3>1
    <3>2. CASE i = n - 1
      <4>1. ~ (i <= n - 2) /\ i - (n - 2) = 1
        BY <1>3, <3>2
      <4> QED BY <2>2, <2>3, <3>2, <4>1
    <3>3. CASE i = n
      <4>1. ~ (i <= n - 2) /\ i - (n - 2) = 2
        BY <1>3, <3>3
      <4> QED BY <2>2, <2>3, <3>3, <4>1
    <3>4. i <= n - 2 \/ i = n - 1 \/ i = n
      BY <1>3
    <3> QED BY <3>1, <3>2, <3>3, <3>4
  <2>5. at = temp \o end
    BY <2>3, <2>4, SeqEqual DEF n
  <2> QED BY <1>3, <2>1, <2>5 DEF end
<1>10. ASSUME NEW dir \in TokenDirs, at # <<>>, at = temp \o <<dir, Last(at)>>
       PROVE  tokenPathInBridgeTempDir(machine, at)
  <2> DEFINE end == <<dir, Last(at)>>
  <2>1. n # 0
    BY <1>3, <1>10
  <2>2. end \in Seq(N) /\ Len(end) = 2 /\ end[1] = dir
    BY <1>1, <1>6, <2>1
  <2>3. at = temp \o end
    BY <1>10
  <2> HIDE DEF end
  <2>4. /\ n = Len(temp) + 2
        /\ \A i \in 1 .. Len(temp) + 2 : at[i] = IF i <= Len(temp) THEN temp[i] ELSE end[i - Len(temp)]
    <3>1. /\ Len(temp \o end) = Len(temp) + Len(end)
          /\ \A i \in 1 .. Len(temp) + Len(end) :
               (temp \o end)[i] = IF i <= Len(temp) THEN temp[i] ELSE end[i - Len(temp)]
      BY <1>2, <2>2, ConcatProperties, Zenon
    <3> QED BY <2>2, <2>3, <3>1
  <2> HIDE DEF n
  <2>5. n > 2 /\ n - 2 = Len(temp) /\ n - 1 = Len(temp) + 1 /\ n - 1 \in 1 .. Len(temp) + 2
    BY <1>5, <2>4
  <2>6. at[n - 1] = dir
    <3>1. ~ (n - 1 <= Len(temp)) /\ (n - 1) - Len(temp) = 1
      BY <1>5, <2>5
    <3> QED BY <2>2, <2>4, <2>5, <3>1
  <2>7. Front(Front(at)) = temp
    <3>1. \A i \in 1 .. Len(temp) : at[i] = temp[i]
      BY <1>5, <2>4
    <3>2. \A i \in 1 .. Len(temp) : Front(Front(at))[i] = temp[i]
      BY <1>8, <2>5, <3>1
    <3> QED BY <1>2, <1>8, <2>5, <3>2, SeqEqual
  <2>8. Last(Front(at)) = dir
    BY <1>8, <2>5, <2>6
  <2> QED BY <1>2, <2>5, <2>7, <2>8 DEF tokenPathInBridgeTempDir, n
<1>11. tokenPathInBridgeTempDir(machine, at) <=>
         \E dir \in TokenDirs : at # <<>> /\ at = temp \o <<dir, Last(at)>>
  BY <1>9, <1>10, Zenon
<1> QED BY <1>3, <1>7, <1>11 DEF links

\* A bridge is called where it says and with its token, for machines with any links, files and
\* addresses, and any announcement (bridge.go:65, 93, 466, 666).
THEOREM BridgesAreUnderstood ==
  ASSUME NEW N, NEW machine, IsMachine(machine, N), NEW said, said.file \in Seq(N)
  PROVE  IsUnderstood(machine, said)
<1> DEFINE dialled == baseURL(said)
           token == bridgeAuthToken(machine, said)
           at == EvalSymlinks(machine, said.file)
<1>1. validate(machine, said) <=> /\ said.schema = 1 /\ said.transport = "tcp"
                                  /\ said.protocol = "connect"
                                  /\ dialled.scheme = "http"
                                  /\ OnThisMachine(machine, dialled.host)
  <2>1. \A host : isLoopbackHost(machine, host) <=> OnThisMachine(machine, host)
    <3>1. \A A : (A # {} /\ A \subseteq Loopback) <=> A \in (SUBSET Loopback) \ {{}}
      BY Zenon
    <3> QED BY <3>1, Zenon DEF isLoopbackHost, OnThisMachine
  <2>2. NoURL.scheme # "http"
    <3>1. NoURL.scheme = NoText
      BY Zenon DEF NoURL
    <3> QED BY <3>1, EgressTexts, Zenon
  <2>3. dialled.scheme = "http" => dialled # NoURL
    BY <2>2, Zenon
  <2> HIDE DEF dialled
  <2> QED BY <2>1, <2>3, Zenon DEF validate, dialled
<1>2. said.url # NoURL => dialled = said.url
  BY Zenon DEF baseURL
<1>3. said.url = NoURL /\ said.host # NoText /\ said.port # 0
        => dialled = [scheme |-> "http", host |-> said.host, port |-> said.port]
  BY Zenon DEF baseURL
<1>4. said.inline # NoText => token = said.inline
  BY Zenon DEF bridgeAuthToken
<1>5. \A call \in Calls : bridgeBearerAuth(token)[call] = token
  BY Zenon DEF bridgeBearerAuth
<1>6. ASSUME said.inline = NoText
      PROVE  token # NoText <=> Written(machine, said.file)
  <2>1. CASE said.file = <<>>
    <3>1. token = NoText
      BY <1>6, <2>1, Zenon DEF bridgeAuthToken
    <3>2. <<>> \notin DOMAIN machine.files
      BY DEF IsMachine
    <3>4. at = <<>>
      BY <2>1, LinksAreFollowed, Zenon
    <3>3. ~ Written(machine, said.file)
      BY <3>2, <3>4, Zenon DEF Written
    <3> QED BY <3>1, <3>3, Zenon
  <2>2. CASE said.file # <<>>
    <3>1. at \in Seq(N)
      BY <2>2, LinksAreFollowed
    <3>2. pathInsideRoot(machine, at, machine.state) <=>
            \E n \in 0 .. Len(at) :
              at = Moved(DOMAIN machine.links, machine.state \o SubSeq(at, n + 1, Len(at)))
      BY <3>1, StateIsKnown
    <3>3. tokenPathInBridgeTempDir(machine, at) <=>
            \E dir \in TokenDirs :
              at # <<>> /\ at = Moved(DOMAIN machine.links, machine.temp \o <<dir, Last(at)>>)
      BY <3>1, TempIsKnown
    <3>4. token = IF validateBridgeTokenPath(machine, said.file) THEN machine.files[at].words ELSE NoText
      BY <1>6, <2>2, Zenon DEF bridgeAuthToken
    <3>5. validateBridgeTokenPath(machine, said.file) <=>
            /\ at \in DOMAIN machine.files
            /\ \/ pathInsideRoot(machine, at, machine.state)
               \/ /\ tokenPathInBridgeTempDir(machine, at)
                  /\ machine.files[at].regular /\ ~machine.files[at].shared
      BY Zenon DEF validateBridgeTokenPath
    <3>6. Written(machine, said.file) <=>
            /\ at \in DOMAIN machine.files /\ machine.files[at].words # NoText
            /\ \/ pathInsideRoot(machine, at, machine.state)
               \/ /\ tokenPathInBridgeTempDir(machine, at)
                  /\ machine.files[at].regular /\ ~machine.files[at].shared
      <4> HIDE DEF at
      <4> QED BY <3>2, <3>3, Zenon DEF Written, at
    <3> HIDE DEF at, token
    <3> QED BY <3>4, <3>5, <3>6, Zenon
  <2> QED BY <2>1, <2>2
<1> HIDE DEF dialled, token
<1> QED BY <1>1, <1>2, <1>3, <1>4, <1>5, <1>6, Zenon DEF IsUnderstood, dialled, token

(***************************************************************************)
(* What the run enumerates is of these kinds.                              *)
(***************************************************************************)
LEMMA EveryWayHere == EveryWayIsProxied
<1> DEFINE S == {NoText, "http", "socks4", "socks5"}
           H == {NoText, "ours"} \cup bridgeProxyEnvVars
<1>1. \A s \in S, h \in H : [scheme |-> s, host |-> h] \in [scheme : S, host : H]
  OBVIOUS
<1>2. Nothing \in [scheme : S, host : H]
  BY <1>1, EgressTexts
<1>3. OwnProxies \subseteq [scheme : S, host : H]
  <2>1. /\ Proxy("socks5", "ours") \in [scheme : S, host : H]
        /\ Proxy(NoText, "ours") \in [scheme : S, host : H]
        /\ Proxy("socks4", "ours") \in [scheme : S, host : H]
        /\ Proxy("http", NoText) \in [scheme : S, host : H]
    BY <1>1 DEF Proxy
  <2> HIDE DEF S, H
  <2> QED BY <1>2, <2>1, Zenon DEF OwnProxies
<1>4. \A name \in bridgeProxyEnvVars : Proxy("http", name) \in [scheme : S, host : H]
  BY <1>1 DEF Proxy
<1>5. ASSUME NEW env \in Environments, NEW name \in bridgeProxyEnvVars
      PROVE  env.proxy[name] \in [scheme : S, host : H]
  <2>1. PICK set \in SUBSET bridgeProxyEnvVars :
          env.proxy = [n \in bridgeProxyEnvVars |-> IF n \in set THEN Proxy("http", n) ELSE Nothing]
    BY DEF Environments
  <2>2. env.proxy[name] = Proxy("http", name) \/ env.proxy[name] = Nothing
    BY <2>1, Zenon
  <2> HIDE DEF S, H
  <2> QED BY <1>2, <1>4, <2>2
<1> HIDE DEF S, H
<1> QED BY <1>3, <1>5, WaysAreProxied DEF EveryWayIsProxied

Names == {"private", "tmp", "cache", "state", "token", "cursor-sdk-bridge-a"}

LEMMA MachinesAre ==
  ASSUME NEW machine \in Machines
  PROVE  /\ IsMachine(machine, Names)
         /\ \A said \in Sayings(machine) \cup Foreign : said.file \in Seq(Names)
<1>1. /\ <<"tmp">> \in Seq(Names) /\ <<"tmp">> # <<>>
      /\ <<"cache", "state">> \in Seq(Names) /\ <<"cache", "state">> # <<>>
      /\ TokenDirs \subseteq Names /\ "private" \in Names
  BY DEF Names, TokenDirs
<1>2. TokenFiles \subseteq Seq(Names) /\ <<>> \notin TokenFiles
  BY DEF Names, TokenFiles
<1>3. PICK links \in Links :
        /\ machine.links = [from \in links |-> <<"private">> \o from]
        /\ machine.temp = <<"tmp">> /\ machine.state = <<"cache", "state">>
        /\ DOMAIN machine.files = {Moved(links, file) : file \in TokenFiles}
  <2>1. PICK links \in Links, shared \in BOOLEAN, words \in {NoText, "secret"}, found \in SUBSET Addresses :
            machine = Machine(links, shared, words, found)
    BY DEF Machines
  <2> QED BY <2>1, Zenon DEF Machine
<1>4. \E dirs \in SUBSET Names : links = {<<d>> : d \in dirs}
  <2>1. {"tmp"} \in SUBSET Names /\ {"cache"} \in SUBSET Names /\ {} \in SUBSET Names
    BY DEF Names
  <2>2. /\ {<<d>> : d \in {"tmp"}} = {<<"tmp">>} /\ {<<d>> : d \in {"cache"}} = {<<"cache">>}
        /\ {<<d>> : d \in {}} = {}
    OBVIOUS
  <2> QED BY <2>1, <2>2, Zenon DEF Links
<1>5. \A file \in TokenFiles : Moved(links, file) \in Seq(Names) /\ Moved(links, file) # <<>>
  <2> SUFFICES ASSUME NEW file \in TokenFiles
               PROVE  Moved(links, file) \in Seq(Names) /\ Moved(links, file) # <<>>
    OBVIOUS
  <2> DEFINE first == <<"private">>
  <2>1. first \in Seq(Names) /\ Len(first) = 1
    BY <1>1
  <2> HIDE DEF first
  <2>2. first \o file \in Seq(Names) /\ Len(first \o file) = 1 + Len(file) /\ Len(file) \in Nat
    BY <1>2, <2>1, ConcatProperties, LenProperties
  <2>3. first \o file # <<>>
    <3>1. Len(<<>>) = 0
      OBVIOUS
    <3> QED BY <2>2, <3>1
  <2> QED BY <1>2, <2>2, <2>3, Zenon DEF Moved, first
<1>6. IsMachine(machine, Names)
  <2>1. <<>> \notin DOMAIN machine.files
    BY <1>3, <1>5, Zenon
  <2>2. PICK dirs \in SUBSET Names : links = {<<d>> : d \in dirs}
    BY <1>4
  <2>3. machine.links = [from \in {<<d>> : d \in dirs} |-> <<"private">> \o from]
    BY <1>3, <2>2, Zenon
  <2> QED BY <1>1, <1>3, <2>1, <2>3, Zenon DEF IsMachine
<1>7. \A said \in Sayings(machine) \cup Foreign : said.file \in {<<>>} \cup TokenFiles \cup DOMAIN machine.files
  <2>1. \A said \in Sayings(machine) : said.file \in {<<>>} \cup TokenFiles \cup DOMAIN machine.files
    BY DEF Sayings, Said
  <2>2. \A said \in Foreign : said.file = <<>>
    BY DEF Foreign, Said
  <2> QED BY <2>1, <2>2
<1>8. <<>> \in Seq(Names)
  BY EmptySeq
<1> QED BY <1>2, <1>3, <1>5, <1>6, <1>7, <1>8, Zenon

LEMMA UnderstoodHere == BridgeIsUnderstood
BY MachinesAre, BridgesAreUnderstood, Zenon DEF BridgeIsUnderstood

LEMMA LastWordsHere == LastWordsAreKept
<1> DEFINE W == {"newline", "wrong", "x", "y", "z"}
           machine == CHOOSE m \in Machines : TRUE
           Lines == {Line("ready", Said(NoURL, "::1", 2, inline, <<>>), <<>>) : inline \in {"a", "b"}}
                    \cup {Line("ready", said, <<>>) : said \in Foreign}
                    \cup {Line("text", <<>>, text) : text \in {<<>>, <<"x">>, <<"y", "z">>}}
<1>1. \A line \in Lines : IsLine(line, W)
  <2>1. <<>> \in Seq(W) /\ <<"x">> \in Seq(W) /\ <<"y", "z">> \in Seq(W)
    OBVIOUS
  <2> HIDE DEF W
  <2>2. "ready" # "text"
    OBVIOUS
  <2>3. \A said : IsLine(Line("ready", said, <<>>), W)
    BY <2>1, <2>2 DEF IsLine, Line
  <2>4. \A text \in {<<>>, <<"x">>, <<"y", "z">>} : IsLine(Line("text", <<>>, text), W)
    BY <2>1 DEF IsLine, Line
  <2> QED BY <2>3, <2>4
<1>2. {"newline", "wrong"} \subseteq W
  OBVIOUS
<1> HIDE DEF W, machine, Lines
<1>3. \A lines \in BoundedSeq(Lines, 4) : lines \in Seq(Lines)
  <2> SUFFICES ASSUME NEW lines \in BoundedSeq(Lines, 4)
               PROVE  lines \in Seq(Lines)
    OBVIOUS
  <2>1. PICK m \in 0 .. 4 : lines \in [1 .. m -> Lines]
    BY Zenon DEF BoundedSeq, SeqOf
  <2>2. m \in Nat
    OBVIOUS
  <2> QED BY <2>1, <2>2
<1>4. \A lines \in BoundedSeq(Lines, 4) : EndIsKept(machine, lines)
  BY <1>1, <1>2, <1>3, LastWordsStay
<1> QED BY <1>4, Zenon DEF LastWordsAreKept, machine, Lines

\* A bridge that runs sends nothing past the proxy it was started for, is called where it says
\* and with its token, and what it writes is kept to its end, for any number of starts and any
\* length of the end.
THEOREM BridgesAreReached == StartSpec => []BridgeIsReached
<1>1. BridgeIsReached
  BY EveryWayHere, UnderstoodHere, LastWordsHere DEF BridgeIsReached
<1> QED BY <1>1, PTL
=============================================================================
