---------------------------- MODULE SessionCache ----------------------------
(***************************************************************************)
(* Agent reuse between the turns of a text-only conversation               *)
(* (auth-cursor/go/session.go and runOneShot in generate.go).              *)
(*                                                                         *)
(* A turn is one request without tools.  It asks to go on from a           *)
(* transcript: if the store holds an idle agent that has answered this     *)
(* transcript, the turn occupies it and sends it the new message alone,    *)
(* otherwise it creates an agent, and leaves it in the store when it is    *)
(* answered.  An agent is released (closed and deleted) when the store     *)
(* drops it.                                                               *)
(*                                                                         *)
(* A step is one critical section of sessionStore.mu, or one call to the   *)
(* bridge.  A releaseAgent that the code starts in a goroutine of its own  *)
(* is taken as done: nothing waits for it.  The turns are those of one     *)
(* credential, model, parameter and tool set; others have other keys.      *)
(***************************************************************************)
EXTENDS Lists

CONSTANTS
  Turns,      \* requests; an agent and its session entry go by the name of the turn that
              \* created them
  Processes,  \* bridge processes
  Exchanges,  \* a user message, with its images, and the answer to it
  TextOf,     \* the text of an exchange: one exchange stands for all those of its text
  MaxLength,  \* bound: the exchanges of a transcript a turn goes on from
  Limit,      \* sessionLimit
  None        \* Go's nil

ASSUME SessionAssumption ==
  /\ Exchanges # {}
  /\ TextOf \in [Exchanges -> Exchanges]
  /\ MaxLength \in Nat
  /\ Limit \in Nat \ {0}
  /\ None \notin Turns \cup Processes

VARIABLES
  store,    \* sessionStore
  entry,    \* [Turns -> sessionEntry]
  agent,    \* [Turns -> the state of the agent in the bridge]
  history,  \* [Turns -> the transcript the agent has seen]
  turn,     \* [Turns -> runOneShot and its local variables]
  life      \* [Processes -> bridgeProcess]

vars == <<store, entry, agent, history, turn, life>>

-----------------------------------------------------------------------------
Transcripts == UNION {[1 .. n -> Exchanges] : n \in 0 .. MaxLength}

\* sessionCacheKey is a hash of the rendered transcript, and that is of its text alone.
KeyOf(h) == [i \in DOMAIN h |-> TextOf[h[i]]]

Keys == UNION {[1 .. n -> Exchanges] : n \in 1 .. MaxLength + 1}

ASSUME KeyAssumption == None \notin Keys

TurnPcs == {"idle", "acquired", "hit", "sent", "missed", "created", "returned"}

Turn == [pc : TurnPcs, process : Processes \cup {None}, prefix : Transcripts,
         exchange : Exchanges, entry : Turns \cup {None}]

SessionTypeOK ==
  /\ store.byKey \in [Keys -> Turns \cup {None}]
  /\ store.order \in Seq(Turns)
  /\ entry \in [Turns -> [key : Keys \cup {None}, process : Processes \cup {None},
                          inUse : BOOLEAN]]
  /\ agent \in [Turns -> {"none", "live", "released"}]
  /\ history \in [Turns -> Seq(Exchanges)]
  /\ turn \in [Turns -> Turn]
  /\ life \in [Processes -> {"none", "alive", "stopping", "exited"}]

-----------------------------------------------------------------------------
(* The helpers that run under the store's lock. *)

Unmapped(byKey, e) == [k \in Keys |-> IF byKey[k] = e /\ entry[e].key = k THEN None ELSE byKey[k]]

\* removeSessionLocked
Removed(s, e) == [byKey |-> Unmapped(s.byKey, e), order |-> Without(s.order, {e})]

\* touchSessionLocked
Touched(order, e) == Append(Without(order, {e}), e)

\* evictOverflowLocked: the entries it drops, and the store without them.
Overflow(s) == {s.order[i] : i \in {j \in DOMAIN s.order : j <= Len(s.order) - Limit}}

WithoutOverflow(s) ==
  [byKey |-> [k \in Keys |-> IF s.byKey[k] \in Overflow(s) THEN None ELSE s.byKey[k]],
   order |-> Without(s.order, Overflow(s))]

Released(es) == [e \in Turns |-> IF e \in es /\ agent[e] = "live" THEN "released" ELSE agent[e]]

TurnAt(t, pc) == turn' = [turn EXCEPT ![t].pc = pc]

NoTurn == [pc |-> "idle", process |-> None, prefix |-> <<>>,
           exchange |-> CHOOSE x \in Exchanges : TRUE, entry |-> None]

\* runOneShot returns, with the answer or an error; its variables are gone.
Returns(t) == turn' = [turn EXCEPT ![t] = [NoTurn EXCEPT !.pc = "returned"]]

\* Variant: the entry is cleared.
Idle_Cleared(e) == entry' = [entry EXCEPT ![e] = None]

Idle(e) == entry' = [entry EXCEPT ![e].inUse = FALSE]

-----------------------------------------------------------------------------
(* runOneShot *)

\* acquireBridge, on behalf of a request that goes on from a transcript: the pool has at most
\* one bridge for its proxy, and starts one if it has none (BridgePool shows how).
Acquire(t, h, x, p) ==
  /\ turn[t].pc = "idle"
  /\ \/ life[p] = "alive"
     \/ life[p] = "none" /\ \A o \in Processes : life[o] # "alive"
  /\ life' = [life EXCEPT ![p] = "alive"]
  /\ turn' = [turn EXCEPT ![t] = [pc |-> "acquired", process |-> p, prefix |-> h,
                                  exchange |-> x, entry |-> None]]
  /\ UNCHANGED <<store, entry, agent, history>>

\* The entry occupySession finds under the request's key.
Found(t) == IF turn[t].prefix = <<>> THEN None ELSE store.byKey[KeyOf(turn[t].prefix)]

\* occupySession finds nothing, or an entry another turn is using.
Misses(t) ==
  /\ turn[t].pc = "acquired"
  /\ Found(t) # None => entry[Found(t)].inUse
  /\ TurnAt(t, "missed")
  /\ UNCHANGED <<store, entry, agent, history, life>>

FindsIdle(t) == turn[t].pc = "acquired" /\ Found(t) # None /\ ~entry[Found(t)].inUse

AliveProcess(p) == life[p] # "exited"

\* ... an entry whose bridge has exited ...
DropsDead(t) ==
  /\ FindsIdle(t)
  /\ ~AliveProcess(entry[Found(t)].process)
  /\ store' = Removed(store, Found(t))
  /\ TurnAt(t, "missed")
  /\ UNCHANGED <<entry, agent, history, life>>

\* ... one that was last used sessionTTL ago: there is no clock, any entry may be that old ...
DropsStale(t) ==
  /\ FindsIdle(t)
  /\ AliveProcess(entry[Found(t)].process)
  /\ store' = Removed(store, Found(t))
  /\ agent' = Released({Found(t)})
  /\ TurnAt(t, "missed")
  /\ UNCHANGED <<entry, history, life>>

\* Variant: an entry that is in use is occupied all the same.
Occupies_InUse(t) ==
  /\ turn[t].pc = "acquired"
  /\ Found(t) # None /\ AliveProcess(entry[Found(t)].process)
  /\ entry' = [entry EXCEPT ![Found(t)].inUse = TRUE]
  /\ store' = [store EXCEPT !.order = Touched(@, Found(t))]
  /\ turn' = [turn EXCEPT ![t].pc = "hit", ![t].entry = Found(t)]
  /\ UNCHANGED <<agent, history, life>>

\* ... or one it can occupy.
Occupies(t) ==
  /\ FindsIdle(t)
  /\ AliveProcess(entry[Found(t)].process)
  /\ entry' = [entry EXCEPT ![Found(t)].inUse = TRUE]
  /\ store' = [store EXCEPT !.order = Touched(@, Found(t))]
  /\ turn' = [turn EXCEPT ![t].pc = "hit", ![t].entry = Found(t)]
  /\ UNCHANGED <<agent, history, life>>

\* Variant: the entry is not released on this return.
OverBudget_KeepsInUse(t) ==
  /\ turn[t].pc = "hit"
  /\ Returns(t)
  /\ UNCHANGED <<store, entry, agent, history, life>>

\* The new message is over the budget: releaseSession(entry, true).
OverBudget(t) ==
  /\ turn[t].pc = "hit"
  /\ Idle(turn[t].entry)
  /\ store' = [store EXCEPT !.order = Touched(@, turn[t].entry)]
  /\ Returns(t)
  /\ UNCHANGED <<agent, history, life>>

\* The Send is on its way to the agent.
Send(t) ==
  /\ turn[t].pc = "hit"
  /\ history' = [history EXCEPT ![turn[t].entry] = Append(@, turn[t].exchange)]
  /\ TurnAt(t, "sent")
  /\ UNCHANGED <<store, entry, agent, life>>

\* Variant: a failed turn keeps the agent.
HitFails_Keeps(t) ==
  /\ turn[t].pc \in {"hit", "sent"}
  /\ Idle(turn[t].entry)
  /\ store' = [store EXCEPT !.order = Touched(@, turn[t].entry)]
  /\ Returns(t)
  /\ UNCHANGED <<agent, history, life>>

\* An image cannot be had, or the Send or its run fails: releaseSession(entry, false).
HitFails(t) ==
  LET e == turn[t].entry IN
  /\ turn[t].pc \in {"hit", "sent"}
  /\ \/ /\ store.byKey[entry[e].key] = e
        /\ store' = Removed(store, e)
        /\ agent' = Released({e})
     \/ /\ store.byKey[entry[e].key] # e
        /\ UNCHANGED <<store, agent>>
  /\ Returns(t)
  /\ UNCHANGED <<entry, history, life>>

AnswerKey(t) == KeyOf(Append(turn[t].prefix, turn[t].exchange))

\* Variant: the entry is not put back among the ordered ones.
Rekey_Untouched(t) ==
  LET e == turn[t].entry
      unmapped == [store EXCEPT !.byKey = Unmapped(@, e)]
      stolen == unmapped.byKey[AnswerKey(t)]
      cleared == IF stolen = None THEN unmapped ELSE Removed(unmapped, stolen)
  IN /\ turn[t].pc = "sent"
     /\ store' = [cleared EXCEPT !.byKey[AnswerKey(t)] = e]
     /\ agent' = Released({stolen})
     /\ entry' = [entry EXCEPT ![e].key = AnswerKey(t), ![e].inUse = FALSE]
     /\ Returns(t)
     /\ UNCHANGED <<history, life>>

\* rekeySession: the agent that answered moves to the key of the longer transcript, and
\* whatever had this key is dropped.
Rekey(t) ==
  LET e == turn[t].entry
      unmapped == [store EXCEPT !.byKey = Unmapped(@, e)]
      stolen == unmapped.byKey[AnswerKey(t)]
      cleared == IF stolen = None THEN unmapped ELSE Removed(unmapped, stolen)
  IN /\ turn[t].pc = "sent"
     /\ store' = [byKey |-> [cleared.byKey EXCEPT ![AnswerKey(t)] = e],
                  order |-> Touched(cleared.order, e)]
     /\ agent' = Released({stolen})
     /\ entry' = [entry EXCEPT ![e].key = AnswerKey(t), ![e].inUse = FALSE]
     /\ Returns(t)
     /\ UNCHANGED <<history, life>>

\* After a miss: the whole transcript is over the budget, or createAgent fails.
MissFails(t) ==
  /\ turn[t].pc = "missed"
  /\ Returns(t)
  /\ UNCHANGED <<store, entry, agent, history, life>>

\* createAgent, and a Send of the whole transcript.
Create(t) ==
  /\ turn[t].pc = "missed"
  /\ agent' = [agent EXCEPT ![t] = "live"]
  /\ history' = [history EXCEPT ![t] = Append(turn[t].prefix, turn[t].exchange)]
  /\ TurnAt(t, "created")
  /\ UNCHANGED <<store, entry, life>>

OneShotFails(t) ==
  /\ turn[t].pc = "created"
  /\ agent' = Released({t})
  /\ Returns(t)
  /\ UNCHANGED <<store, entry, history, life>>

Existing(t) == store.byKey[AnswerKey(t)]

\* rememberSession refuses: another turn is using the entry that has the key.
Refused(t) ==
  /\ turn[t].pc = "created"
  /\ Existing(t) # None /\ entry[Existing(t)].inUse
  /\ agent' = Released({t})
  /\ Returns(t)
  /\ UNCHANGED <<store, entry, history, life>>

\* Variant: what the store drops is not released.
Remember_NoRelease(t) ==
  LET idle == IF Existing(t) = None THEN store ELSE Removed(store, Existing(t))
      grown == [byKey |-> [idle.byKey EXCEPT ![AnswerKey(t)] = t],
                order |-> Append(idle.order, t)]
  IN /\ turn[t].pc = "created"
     /\ Existing(t) # None => ~entry[Existing(t)].inUse
     /\ entry' = [entry EXCEPT ![t] = [key |-> AnswerKey(t), process |-> turn[t].process,
                                       inUse |-> FALSE]]
     /\ store' = WithoutOverflow(grown)
     /\ agent' = Released({Existing(t)})
     /\ Returns(t)
     /\ UNCHANGED <<history, life>>

\* rememberSession: the new agent takes the key, an idle one that had it and the oldest ones
\* over the limit are dropped.
Remember(t) ==
  LET idle == IF Existing(t) = None THEN store ELSE Removed(store, Existing(t))
      grown == [byKey |-> [idle.byKey EXCEPT ![AnswerKey(t)] = t],
                order |-> Append(idle.order, t)]
  IN /\ turn[t].pc = "created"
     /\ Existing(t) # None => ~entry[Existing(t)].inUse
     /\ entry' = [entry EXCEPT ![t] = [key |-> AnswerKey(t), process |-> turn[t].process,
                                       inUse |-> FALSE]]
     /\ store' = WithoutOverflow(grown)
     /\ agent' = Released({Existing(t)} \cup Overflow(grown))
     /\ Returns(t)
     /\ UNCHANGED <<history, life>>

-----------------------------------------------------------------------------
(* The plugin and its bridges *)

\* quiesce: evictAllSessions.
EvictAllSessions ==
  /\ store' = [byKey |-> [k \in Keys |-> None], order |-> <<>>]
  /\ agent' = Released(ToSet(store.order))
  /\ UNCHANGED <<entry, history, turn, life>>

\* bridgeProcess.stop: evictSessionsForProcess, and a Shutdown afterwards.
StopProcess(p) ==
  LET victims == {e \in ToSet(store.order) : entry[e].process = p} IN
  /\ life[p] = "alive"
  /\ store' = [byKey |-> [k \in Keys |->
                            IF store.byKey[k] \in victims THEN None ELSE store.byKey[k]],
               order |-> Without(store.order, victims)]
  /\ agent' = Released(victims)
  /\ life' = [life EXCEPT ![p] = "stopping"]
  /\ UNCHANGED <<entry, history, turn>>

\* A bridge exits, with its agents: stopped or by itself.
ProcessExits(p) ==
  /\ life[p] \in {"alive", "stopping"}
  /\ life' = [life EXCEPT ![p] = "exited"]
  /\ UNCHANGED <<store, entry, agent, history, turn>>

-----------------------------------------------------------------------------
SessionInit ==
  /\ store = [byKey |-> [k \in Keys |-> None], order |-> <<>>]
  /\ entry = [t \in Turns |-> [key |-> None, process |-> None, inUse |-> FALSE]]
  /\ agent = [t \in Turns |-> "none"]
  /\ history = [t \in Turns |-> <<>>]
  /\ turn = [t \in Turns |-> NoTurn]
  /\ life = [p \in Processes |-> "none"]

TurnStep(t) ==
  \/ \E h \in Transcripts, x \in Exchanges, p \in Processes : Acquire(t, h, x, p)
  \/ Misses(t) \/ DropsDead(t) \/ DropsStale(t)
  \/ Occupies(t) \/ OverBudget(t) \/ Send(t) \/ HitFails(t) \/ Rekey(t)
  \/ MissFails(t) \/ Create(t) \/ OneShotFails(t) \/ Refused(t) \/ Remember(t)

\* Turns alone: no bridge exits or is stopped, the plugin is not quiesced.
ServeNext == \E t \in Turns : TurnStep(t)

SessionNext ==
  \/ ServeNext
  \/ EvictAllSessions
  \/ \E p \in Processes : StopProcess(p) \/ ProcessExits(p)

SessionSpec == SessionInit /\ [][SessionNext]_vars

ServeSpec == SessionInit /\ [][ServeNext]_vars

-----------------------------------------------------------------------------
(* Safety. *)

Holds(t, e) == turn[t].pc \in {"hit", "sent"} /\ turn[t].entry = e

Cached(e) == entry[e].key # None /\ store.byKey[entry[e].key] = e

\* Two turns never run on one agent, whatever the store evicts, moves or takes back meanwhile.
ExclusiveUse ==
  \A t, u \in Turns, e \in Turns : (t # u /\ Holds(t, e)) => ~Holds(u, e)

\* A reused agent has seen what the client says it has: the transcript the request goes on
\* from, all of it and nothing more.  An agent that failed in the middle of a turn is not
\* reused.  (It holds if the text of an exchange tells exchanges apart: see ImagesAreSeen.)
HitContinuesTranscript ==
  \A t \in Turns : turn[t].pc = "sent" =>
    history[turn[t].entry] = Append(turn[t].prefix, turn[t].exchange)

\* An agent is not left behind in a bridge that runs: someone holds it or can still drop it.
NoAgentLeaked ==
  \A e \in Turns : agent[e] = "live" =>
    \/ Cached(e) \/ turn[e].pc = "created" \/ \E t \in Turns : Holds(t, e)
    \/ entry[e].process # None /\ life[entry[e].process] = "exited"

\* What can be looked up can be evicted: the map's entries are in the order, once each, and
\* know their key.
CachedIsOrdered ==
  /\ IsInjective(store.order)
  /\ \A k \in Keys : store.byKey[k] # None =>
       store.byKey[k] \in ToSet(store.order) /\ entry[store.byKey[k]].key = k

\* An entry is not in use for ever: the turn that occupied it is still there.
OccupiedIsHeld ==
  \A e \in Turns : (Cached(e) /\ entry[e].inUse) => \E t \in Turns : Holds(t, e)

\* Map, order and use of the entries agree, so that whatever has a key can be found, evicted and,
\* when its turn is over, used again; and no live agent has neither a key nor a turn.  (The order
\* may have more: see CacheIsBounded.)
CacheIsConsistent == SessionTypeOK /\ CachedIsOrdered /\ OccupiedIsHeld /\ NoAgentLeaked

(* What the code or its comments say, and some interleaving refutes. *)

\* session.go:120: the agent that is still running a key is not stolen.
RunningAgentKept ==
  \A t \in Turns : turn[t].pc = "sent" => agent[turn[t].entry] = "live"

\* evictOverflowLocked keeps the order within sessionLimit, but is called by rememberSession
\* alone: a turn that puts back what was evicted meanwhile makes the order longer
\* (session.go:143, 160).
CacheIsBounded == Len(store.order) <= Limit

\* session.go:69: the agent's prior transcript matches the request, its images included.
ImagesAreSeen == HitContinuesTranscript
=============================================================================
