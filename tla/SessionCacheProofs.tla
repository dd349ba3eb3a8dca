------------------------- MODULE SessionCacheProofs -------------------------
(***************************************************************************)
(* Theorems about the session store, for every set of turns, processes and *)
(* exchanges, every MaxLength and every Limit.  What they say of the turns *)
(* rests on the store's map and the entries; the order and the processes   *)
(* are needed to show that no agent is left behind.                        *)
(***************************************************************************)
EXTENDS SessionCache, ListTheorems, TLAPS

USE SessionAssumption

Entry == [key : Keys \cup {None}, process : Processes \cup {None}, inUse : BOOLEAN]

StoreFits ==
  /\ store = [byKey |-> store.byKey, order |-> store.order]
  /\ store.byKey \in [Keys -> Turns \cup {None}]

\* What can be looked up belongs to a turn that is over, and knows its key.
MappedFits ==
  \A k \in Keys : store.byKey[k] # None =>
    turn[store.byKey[k]].pc = "returned" /\ entry[store.byKey[k]].key = k

\* So does what a turn runs on, which is marked as used.
HeldFits ==
  \A t \in Turns : turn[t].pc \in {"hit", "sent"} =>
    /\ turn[t].entry \in Turns
    /\ entry[turn[t].entry].inUse /\ turn[turn[t].entry].pc = "returned"

SessionInv ==
  /\ StoreFits /\ entry \in [Turns -> Entry] /\ turn \in [Turns -> Turn]
  /\ MappedFits /\ HeldFits
  /\ ExclusiveUse /\ OccupiedIsHeld

(***************************************************************************)
(* The order, and the agents.  Every entry in it belongs to a turn that is *)
(* over, so that a new one is not there yet.  A live agent is in the map   *)
(* even while a turn holds it: who takes an entry out of the map, whether  *)
(* it is in use or not, releases its agent or finds that its bridge has    *)
(* exited.                                                                 *)
(***************************************************************************)
Orders(s) ==
  /\ s.order \in Seq(Turns) /\ IsInjective(s.order)
  /\ \A k \in Keys : s.byKey[k] # None => s.byKey[k] \in ToSet(s.order)

OrderInv ==
  Orders(store) /\ \A e \in ToSet(store.order) : turn[e].pc = "returned"

BridgesFit ==
  /\ \A t \in Turns : turn[t].pc \notin {"idle", "returned"} => turn[t].process \in Processes
  /\ \A t \in Turns : turn[t].pc \in {"hit", "sent"} => entry[turn[t].entry].process \in Processes
  /\ \A k \in Keys : store.byKey[k] # None => entry[store.byKey[k]].process \in Processes

Exited(e) == entry[e].process # None /\ life[entry[e].process] = "exited"

LiveIsKept ==
  \A e \in Turns : agent[e] = "live" => Cached(e) \/ turn[e].pc = "created" \/ Exited(e)

AgentInv ==
  /\ agent \in [Turns -> {"none", "live", "released"}]
  /\ life \in [Processes -> {"none", "alive", "stopping", "exited"}]
  /\ history \in [Turns -> Seq(Exchanges)]
  /\ BridgesFit /\ LiveIsKept

(***************************************************************************)
(* Keys and transcripts.                                                   *)
(***************************************************************************)
LEMMA TranscriptIsSeq ==
  ASSUME NEW h \in Transcripts
  PROVE  h \in Seq(Exchanges) /\ Len(h) <= MaxLength
<1>1. PICK n \in 0 .. MaxLength : h \in [1 .. n -> Exchanges]
  BY DEF Transcripts
<1>2. h \in Seq(Exchanges)
  BY <1>1, IsASeq
<1> QED BY <1>1, <1>2

\* A transcript that has grown by an exchange has a key.
LEMMA GrownHasKey ==
  ASSUME NEW h \in Transcripts, NEW x \in Exchanges
  PROVE  KeyOf(Append(h, x)) \in Keys
<1>1. h \in Seq(Exchanges) /\ Len(h) <= MaxLength
  BY TranscriptIsSeq
<1>2. /\ Append(h, x) \in Seq(Exchanges) /\ Len(Append(h, x)) = Len(h) + 1
      /\ DOMAIN Append(h, x) = 1 .. Len(h) + 1
  BY <1>1, AppendProperties
<1>3. KeyOf(Append(h, x)) \in [1 .. Len(h) + 1 -> Exchanges]
  BY <1>2 DEF KeyOf
<1>4. Len(h) + 1 \in 1 .. MaxLength + 1
  BY <1>1
<1> QED BY <1>3, <1>4 DEF Keys

LEMMA FoundKey ==
  ASSUME NEW h \in Transcripts, h # <<>>
  PROVE  KeyOf(h) \in Keys
<1>1. PICK n \in 0 .. MaxLength : h \in [1 .. n -> Exchanges]
  BY DEF Transcripts
<1>2. h \in Seq(Exchanges) /\ Len(h) = n
  BY <1>1, IsASeq
<1>3. n # 0
  BY <1>2, EmptySeq
<1>4. KeyOf(h) \in [1 .. n -> Exchanges]
  BY <1>1 DEF KeyOf
<1> QED BY <1>3, <1>4 DEF Keys

LEMMA AnswerHasKey ==
  ASSUME turn \in [Turns -> Turn], NEW t \in Turns
  PROVE  AnswerKey(t) \in Keys
BY GrownHasKey DEF AnswerKey, Turn

LEMMA NoTurnType == NoTurn \in Turn
<1>1. (CHOOSE x \in Exchanges : TRUE) \in Exchanges
  OBVIOUS
<1>2. <<>> \in Transcripts
  <2>1. <<>> \in [1 .. 0 -> Exchanges]
    OBVIOUS
  <2> QED BY <2>1 DEF Transcripts
<1> QED BY <1>1, <1>2 DEF NoTurn, Turn, TurnPcs

\* What a return leaves of the turn.
LEMMA ReturnsFits ==
  ASSUME turn \in [Turns -> Turn], NEW t \in Turns, Returns(t)
  PROVE  /\ turn' \in [Turns -> Turn] /\ turn'[t].pc = "returned"
         /\ \A u \in Turns \ {t} : turn'[u] = turn[u]
<1>1. [NoTurn EXCEPT !.pc = "returned"] \in Turn
  BY NoTurnType DEF Turn, TurnPcs
<1>2. [NoTurn EXCEPT !.pc = "returned"].pc = "returned"
  BY DEF NoTurn
<1> QED BY <1>1, <1>2 DEF Returns

LEMMA TurnAtFits ==
  ASSUME turn \in [Turns -> Turn], NEW t \in Turns, NEW pc \in TurnPcs, TurnAt(t, pc)
  PROVE  /\ turn' \in [Turns -> Turn]
         /\ turn'[t] = [turn[t] EXCEPT !.pc = pc] /\ turn'[t].pc = pc
         /\ turn'[t].process = turn[t].process
         /\ turn'[t].entry = turn[t].entry /\ turn'[t].prefix = turn[t].prefix
         /\ turn'[t].exchange = turn[t].exchange
         /\ \A u \in Turns \ {t} : turn'[u] = turn[u]
<1>1. turn[t] \in Turn
  OBVIOUS
<1>2. [turn[t] EXCEPT !.pc = pc] \in Turn
  BY <1>1 DEF Turn
<1> QED BY <1>1, <1>2 DEF TurnAt, Turn

(***************************************************************************)
(* What the store's helpers do to its map.                                 *)
(***************************************************************************)
Shrinks(byKey, from) ==
  byKey \in [Keys -> Turns \cup {None}] /\ \A k \in Keys : byKey[k] \in {from[k], None}

LEMMA RemovedShrinks ==
  ASSUME NEW s, s.byKey \in [Keys -> Turns \cup {None}], NEW e
  PROVE  Shrinks(Removed(s, e).byKey, s.byKey)
BY DEF Removed, Unmapped, Shrinks

LEMMA WithoutOverflowShrinks ==
  ASSUME NEW s, s.byKey \in [Keys -> Turns \cup {None}]
  PROVE  Shrinks(WithoutOverflow(s).byKey, s.byKey)
BY DEF WithoutOverflow, Shrinks

(***************************************************************************)
(* Steps that leave the entries alone, and every turn that holds one.      *)
(***************************************************************************)
LEMMA NoHolderMoves ==
  ASSUME SessionInv, entry' = entry, turn' \in [Turns -> Turn],
         store' = [byKey |-> store'.byKey, order |-> store'.order],
         Shrinks(store'.byKey, store.byKey),
         \A u \in Turns :
           \/ turn'[u] = turn[u]
           \/ turn[u].pc \notin {"hit", "sent", "returned"} /\ turn'[u].pc \notin {"hit", "sent"}
  PROVE  SessionInv'
<1>1. StoreFits' /\ (entry \in [Turns -> Entry])' /\ (turn \in [Turns -> Turn])'
  BY DEF SessionInv, StoreFits, Shrinks
<1>2. \A u \in Turns : turn[u].pc = "returned" => turn'[u].pc = "returned"
  OBVIOUS
<1>3. MappedFits'
  BY <1>2 DEF SessionInv, StoreFits, MappedFits, Shrinks
<1>4. \A u \in Turns : turn'[u].pc \in {"hit", "sent"} => turn'[u] = turn[u]
  OBVIOUS
<1>5. HeldFits'
  BY <1>2, <1>4 DEF SessionInv, HeldFits
<1>6. \A u, e \in Turns : Holds(u, e)' <=> Holds(u, e)
  BY DEF Holds
<1>7. ExclusiveUse'
  BY <1>6 DEF SessionInv, ExclusiveUse
<1>8. OccupiedIsHeld'
  <2>1. ASSUME NEW e \in Turns, Cached(e)'
        PROVE  Cached(e)
    <3>1. entry[e].key # None /\ store'.byKey[entry[e].key] = e
      BY <2>1 DEF Cached
    <3>2. entry[e].key \in Keys
      BY <3>1 DEF SessionInv, Entry
    <3> QED BY <3>1, <3>2 DEF Cached, Shrinks
  <2> QED BY <1>6, <2>1 DEF SessionInv, OccupiedIsHeld
<1> QED BY <1>1, <1>3, <1>5, <1>7, <1>8 DEF SessionInv

LEMMA StepQuiet ==
  ASSUME SessionInv, NEW t \in Turns,
         \/ \E h \in Transcripts, x \in Exchanges, p \in Processes : Acquire(t, h, x, p)
         \/ Misses(t) \/ MissFails(t) \/ Create(t) \/ OneShotFails(t) \/ Refused(t)
  PROVE  SessionInv'
<1>1. turn \in [Turns -> Turn] /\ StoreFits
  BY DEF SessionInv
<1>2. store' = store /\ entry' = entry
  BY DEF Acquire, Misses, MissFails, Create, OneShotFails, Refused
<1>3. turn' \in [Turns -> Turn] /\ \A u \in Turns \ {t} : turn'[u] = turn[u]
  <2>1. ASSUME NEW h \in Transcripts, NEW x \in Exchanges, NEW p \in Processes,
               Acquire(t, h, x, p)
        PROVE  turn' \in [Turns -> Turn] /\ \A u \in Turns \ {t} : turn'[u] = turn[u]
    BY <1>1, <2>1 DEF Acquire, Turn, TurnPcs
  <2>2. CASE Misses(t)
    BY <1>1, <2>2, TurnAtFits DEF Misses, TurnPcs
  <2>3. CASE Create(t)
    BY <1>1, <2>3, TurnAtFits DEF Create, TurnPcs
  <2>4. CASE MissFails(t) \/ OneShotFails(t) \/ Refused(t)
    BY <1>1, <2>4, ReturnsFits DEF MissFails, OneShotFails, Refused
  <2> QED BY <2>1, <2>2, <2>3, <2>4
<1>4. turn[t].pc \notin {"hit", "sent", "returned"} /\ turn'[t].pc \notin {"hit", "sent"}
  <2>1. ASSUME NEW h \in Transcripts, NEW x \in Exchanges, NEW p \in Processes,
               Acquire(t, h, x, p)
        PROVE  turn[t].pc = "idle" /\ turn'[t].pc = "acquired"
    BY <1>1, <2>1 DEF Acquire, Turn
  <2>2. CASE Misses(t)
    BY <1>1, <2>2, TurnAtFits DEF Misses, TurnPcs
  <2>3. CASE Create(t)
    BY <1>1, <2>3, TurnAtFits DEF Create, TurnPcs
  <2>4. CASE MissFails(t) \/ OneShotFails(t) \/ Refused(t)
    BY <1>1, <2>4, ReturnsFits DEF MissFails, OneShotFails, Refused
  <2> QED BY <2>1, <2>2, <2>3, <2>4
<1>5. Shrinks(store'.byKey, store.byKey)
     /\ store' = [byKey |-> store'.byKey, order |-> store'.order]
  BY <1>1, <1>2 DEF StoreFits, Shrinks
<1> QED BY <1>2, <1>3, <1>4, <1>5, NoHolderMoves

LEMMA StepDrops ==
  ASSUME SessionInv, NEW t \in Turns, DropsDead(t) \/ DropsStale(t)
  PROVE  SessionInv'
<1>1. turn \in [Turns -> Turn] /\ StoreFits
  BY DEF SessionInv
<1>2. /\ store' = Removed(store, Found(t)) /\ entry' = entry
      /\ turn[t].pc = "acquired" /\ TurnAt(t, "missed")
  BY DEF DropsDead, DropsStale, FindsIdle
<1>3. /\ turn' \in [Turns -> Turn] /\ turn'[t].pc = "missed"
      /\ \A u \in Turns \ {t} : turn'[u] = turn[u]
  BY <1>1, <1>2, TurnAtFits DEF TurnPcs
<1>4. Shrinks(store'.byKey, store.byKey)
  BY <1>1, <1>2, RemovedShrinks DEF StoreFits
<1>5. store' = [byKey |-> store'.byKey, order |-> store'.order]
  BY <1>2 DEF Removed
<1> QED BY <1>2, <1>3, <1>4, <1>5, NoHolderMoves

LEMMA StepBridges ==
  ASSUME SessionInv,
         EvictAllSessions \/ \E p \in Processes : StopProcess(p) \/ ProcessExits(p)
  PROVE  SessionInv'
<1>1. turn' = turn /\ entry' = entry /\ turn \in [Turns -> Turn] /\ StoreFits
  BY DEF SessionInv, EvictAllSessions, StopProcess, ProcessExits
<1>2. Shrinks(store'.byKey, store.byKey)
     /\ store' = [byKey |-> store'.byKey, order |-> store'.order]
  <2>1. CASE EvictAllSessions
    BY <2>1 DEF EvictAllSessions, Shrinks
  <2>2. ASSUME NEW p \in Processes, StopProcess(p)
        PROVE  /\ Shrinks(store'.byKey, store.byKey)
               /\ store' = [byKey |-> store'.byKey, order |-> store'.order]
    BY <1>1, <2>2 DEF StopProcess, Shrinks, StoreFits
  <2>3. ASSUME NEW p \in Processes, ProcessExits(p)
        PROVE  /\ Shrinks(store'.byKey, store.byKey)
               /\ store' = [byKey |-> store'.byKey, order |-> store'.order]
    BY <1>1, <2>3 DEF ProcessExits, Shrinks, StoreFits
  <2> QED BY <2>1, <2>2, <2>3
<1> QED BY <1>1, <1>2, NoHolderMoves

(***************************************************************************)
(* A turn that holds an entry lets it go, or goes on with it.              *)
(***************************************************************************)
LEMMA StepOverBudget ==
  ASSUME SessionInv, NEW t \in Turns, OverBudget(t)
  PROVE  SessionInv'
<1> DEFINE e == turn[t].entry
<1>1. /\ turn \in [Turns -> Turn] /\ entry \in [Turns -> Entry] /\ StoreFits
      /\ MappedFits /\ HeldFits /\ ExclusiveUse /\ OccupiedIsHeld
  BY DEF SessionInv
<1>2. Holds(t, e) /\ e \in Turns /\ turn[e].pc = "returned"
  BY <1>1 DEF OverBudget, Holds, HeldFits
<1>3. /\ turn' \in [Turns -> Turn] /\ turn'[t].pc = "returned"
      /\ \A u \in Turns \ {t} : turn'[u] = turn[u]
  BY <1>1, ReturnsFits DEF OverBudget
<1>4. /\ store' = [store EXCEPT !.order = Touched(@, e)]
      /\ entry' = [entry EXCEPT ![e].inUse = FALSE]
  BY DEF OverBudget, Idle
<1>5. store'.byKey = store.byKey /\ StoreFits'
  BY <1>1, <1>4 DEF StoreFits
<1>6. entry' \in [Turns -> Entry]
  BY <1>1, <1>4 DEF Entry
<1>7. /\ entry'[e].key = entry[e].key /\ ~entry'[e].inUse
      /\ \A f \in Turns \ {e} : entry'[f] = entry[f]
  BY <1>1, <1>2, <1>4 DEF Entry
<1>8. MappedFits'
  BY <1>1, <1>3, <1>5, <1>7 DEF MappedFits, StoreFits
<1>9. \A u, f \in Turns : Holds(u, f)' <=> (Holds(u, f) /\ u # t)
  BY <1>3 DEF Holds
<1>10. \A u \in Turns : Holds(u, e) => u = t
  BY <1>1, <1>2 DEF ExclusiveUse
<1>11. HeldFits'
  BY <1>1, <1>2, <1>3, <1>7, <1>10 DEF HeldFits, Holds
<1>12. ExclusiveUse'
  BY <1>1, <1>9 DEF ExclusiveUse
<1>13. OccupiedIsHeld'
  <2>1. ASSUME NEW f \in Turns, Cached(f)', entry'[f].inUse
        PROVE  f # e /\ Cached(f) /\ entry[f].inUse
    BY <1>5, <1>7, <2>1 DEF Cached
  <2>2. \A f \in Turns \ {e} : ~Holds(t, f)
    BY DEF Holds
  <2> QED BY <1>1, <1>9, <2>1, <2>2 DEF OccupiedIsHeld
<1> QED BY <1>3, <1>5, <1>6, <1>8, <1>11, <1>12, <1>13 DEF SessionInv

LEMMA StepSend ==
  ASSUME SessionInv, NEW t \in Turns, Send(t)
  PROVE  SessionInv'
<1>1. /\ turn \in [Turns -> Turn] /\ entry \in [Turns -> Entry] /\ StoreFits
      /\ MappedFits /\ HeldFits /\ ExclusiveUse /\ OccupiedIsHeld
  BY DEF SessionInv
<1>2. turn[t].pc = "hit" /\ TurnAt(t, "sent") /\ store' = store /\ entry' = entry
  BY DEF Send
<1>3. /\ turn' \in [Turns -> Turn] /\ turn'[t].pc = "sent"
      /\ turn'[t].entry = turn[t].entry
      /\ \A u \in Turns \ {t} : turn'[u] = turn[u]
  BY <1>1, <1>2, TurnAtFits DEF TurnPcs
<1>4. \A u, f \in Turns : Holds(u, f)' <=> Holds(u, f)
  BY <1>2, <1>3 DEF Holds
<1>5. StoreFits' /\ MappedFits'
  BY <1>1, <1>2, <1>3 DEF StoreFits, MappedFits
<1>6. HeldFits'
  BY <1>1, <1>2, <1>3 DEF HeldFits
<1>7. ExclusiveUse' /\ OccupiedIsHeld'
  BY <1>1, <1>2, <1>4 DEF ExclusiveUse, OccupiedIsHeld, Cached
<1> QED BY <1>1, <1>2, <1>3, <1>5, <1>6, <1>7 DEF SessionInv

LEMMA StepHitFails ==
  ASSUME SessionInv, NEW t \in Turns, HitFails(t)
  PROVE  SessionInv'
<1> DEFINE e == turn[t].entry
<1>1. /\ turn \in [Turns -> Turn] /\ entry \in [Turns -> Entry] /\ StoreFits
      /\ MappedFits /\ HeldFits /\ ExclusiveUse /\ OccupiedIsHeld
  BY DEF SessionInv
<1>2. Holds(t, e) /\ e \in Turns /\ turn[e].pc = "returned"
  BY <1>1 DEF HitFails, Holds, HeldFits
<1>3. /\ turn' \in [Turns -> Turn] /\ turn'[t].pc = "returned"
      /\ \A u \in Turns \ {t} : turn'[u] = turn[u]
  BY <1>1, ReturnsFits DEF HitFails
<1>4. entry' = entry /\ (store' = store \/ store' = Removed(store, e))
  BY DEF HitFails
<1>5. Shrinks(store'.byKey, store.byKey) /\ StoreFits'
  <2>1. Shrinks(Removed(store, e).byKey, store.byKey)
    BY <1>1, RemovedShrinks DEF StoreFits
  <2> QED BY <1>1, <1>4, <2>1 DEF StoreFits, Shrinks, Removed
<1>6. MappedFits'
  BY <1>1, <1>3, <1>4, <1>5 DEF MappedFits, Shrinks
<1>7. \A u, f \in Turns : Holds(u, f)' <=> (Holds(u, f) /\ u # t)
  BY <1>3 DEF Holds
<1>8. HeldFits'
  BY <1>1, <1>3, <1>4 DEF HeldFits
<1>9. ExclusiveUse'
  BY <1>1, <1>7 DEF ExclusiveUse
<1>10. OccupiedIsHeld'
  <2>1. ASSUME NEW f \in Turns, Cached(f)'
        PROVE  f # e /\ Cached(f)
    <3>1. entry[f].key \in Keys /\ store'.byKey[entry[f].key] = f
      BY <1>1, <1>4, <2>1 DEF Cached, Entry
    <3>2. Cached(f)
      BY <1>4, <1>5, <2>1, <3>1 DEF Shrinks, Cached
    <3>3. f # e
      BY <3>1, <3>2 DEF HitFails, Removed, Unmapped, Cached
    <3> QED BY <3>2, <3>3
  <2>2. \A f \in Turns \ {e} : ~Holds(t, f)
    BY DEF Holds
  <2> QED BY <1>1, <1>4, <1>7, <2>1, <2>2 DEF OccupiedIsHeld
<1> QED BY <1>1, <1>3, <1>4, <1>5, <1>6, <1>8, <1>9, <1>10 DEF SessionInv

LEMMA StepOccupies ==
  ASSUME SessionInv, NEW t \in Turns, Occupies(t)
  PROVE  SessionInv'
<1> DEFINE e == Found(t)
<1>1. /\ turn \in [Turns -> Turn] /\ entry \in [Turns -> Entry] /\ StoreFits
      /\ MappedFits /\ HeldFits /\ ExclusiveUse /\ OccupiedIsHeld
  BY DEF SessionInv
<1>2. turn[t].pc = "acquired" /\ e # None /\ ~entry[e].inUse
  BY DEF Occupies, FindsIdle
<1>3. e \in Turns /\ turn[e].pc = "returned"
  <2>1. turn[t].prefix \in Transcripts /\ turn[t].prefix # <<>>
    BY <1>1, <1>2 DEF Found, Turn
  <2>2. KeyOf(turn[t].prefix) \in Keys /\ e = store.byKey[KeyOf(turn[t].prefix)]
    BY <2>1, FoundKey DEF Found
  <2> HIDE DEF e
  <2> QED BY <1>1, <1>2, <2>2 DEF StoreFits, MappedFits
<1>4. /\ entry' = [entry EXCEPT ![e].inUse = TRUE]
      /\ store' = [store EXCEPT !.order = Touched(@, e)]
      /\ turn' = [turn EXCEPT ![t].pc = "hit", ![t].entry = e]
  BY DEF Occupies
<1> HIDE DEF e
<1>5. store'.byKey = store.byKey /\ StoreFits'
  BY <1>1, <1>4 DEF StoreFits
<1>6. /\ entry' \in [Turns -> Entry] /\ entry'[e].key = entry[e].key /\ entry'[e].inUse
      /\ \A f \in Turns \ {e} : entry'[f] = entry[f]
  BY <1>1, <1>3, <1>4 DEF Entry
<1>7. /\ turn' \in [Turns -> Turn] /\ turn'[t].pc = "hit" /\ turn'[t].entry = e
      /\ \A u \in Turns \ {t} : turn'[u] = turn[u]
  <2>1. turn[t] \in Turn
    BY <1>1
  <2>2. turn' = [turn EXCEPT ![t] = [turn[t] EXCEPT !.pc = "hit", !.entry = e]]
    BY <1>1, <1>4, <2>1 DEF Turn
  <2>3. [turn[t] EXCEPT !.pc = "hit", !.entry = e] \in Turn
    BY <1>3, <2>1 DEF Turn, TurnPcs
  <2>4. [turn[t] EXCEPT !.pc = "hit", !.entry = e].pc = "hit"
        /\ [turn[t] EXCEPT !.pc = "hit", !.entry = e].entry = e
    BY <2>1 DEF Turn
  <2> QED BY <1>1, <2>2, <2>3, <2>4
<1>8. e # t
  BY <1>2, <1>3
<1>9. MappedFits'
  BY <1>1, <1>2, <1>5, <1>6, <1>7 DEF MappedFits, StoreFits
<1>10. HeldFits'
  BY <1>1, <1>2, <1>3, <1>6, <1>7, <1>8 DEF HeldFits
<1>11. \A u \in Turns : ~Holds(u, e)
  BY <1>1, <1>2, <1>3 DEF HeldFits, Holds
<1>12. \A u, f \in Turns : Holds(u, f)' <=> (Holds(u, f) \/ (u = t /\ f = e))
  BY <1>2, <1>7 DEF Holds
<1>13. ExclusiveUse'
  <2> SUFFICES ASSUME NEW u \in Turns, NEW v \in Turns, NEW f \in Turns, u # v,
                      Holds(u, f)', Holds(v, f)'
               PROVE  FALSE
    BY DEF ExclusiveUse
  <2>1. (Holds(u, f) \/ (u = t /\ f = e)) /\ (Holds(v, f) \/ (v = t /\ f = e))
    BY <1>12
  <2> QED BY <1>1, <1>11, <2>1 DEF ExclusiveUse
<1>14. OccupiedIsHeld'
  BY <1>1, <1>3, <1>5, <1>6, <1>12 DEF OccupiedIsHeld, Cached
<1> QED BY <1>5, <1>6, <1>7, <1>9, <1>10, <1>13, <1>14 DEF SessionInv

\* The map after a Rekey: the entry is found under its new key alone.
LEMMA RekeyMaps ==
  ASSUME SessionInv, NEW t \in Turns, Rekey(t)
  PROVE  /\ StoreFits' /\ store'.byKey[AnswerKey(t)] = turn[t].entry
         /\ \A k \in Keys \ {AnswerKey(t)} :
              store'.byKey[k] \in {store.byKey[k], None} /\ store'.byKey[k] # turn[t].entry
<1> DEFINE e == turn[t].entry
           unmapped == [store EXCEPT !.byKey = Unmapped(@, e)]
           stolen == unmapped.byKey[AnswerKey(t)]
           cleared == IF stolen = None THEN unmapped ELSE Removed(unmapped, stolen)
<1>1. /\ turn \in [Turns -> Turn] /\ StoreFits /\ MappedFits /\ HeldFits /\ AnswerKey(t) \in Keys
  BY AnswerHasKey DEF SessionInv
<1>2. e \in Turns /\ e # None
  BY <1>1 DEF Rekey, HeldFits
<1>3. store' = [byKey |-> [cleared.byKey EXCEPT ![AnswerKey(t)] = e],
                order |-> Touched(cleared.order, e)]
  BY DEF Rekey
<1>4. unmapped.byKey = Unmapped(store.byKey, e)
  BY <1>1 DEF StoreFits
<1>5. /\ unmapped.byKey \in [Keys -> Turns \cup {None}]
      /\ \A k \in Keys : unmapped.byKey[k] \in {store.byKey[k], None} /\ unmapped.byKey[k] # e
  BY <1>1, <1>2, <1>4 DEF Unmapped, StoreFits, MappedFits
<1>6. Shrinks(cleared.byKey, unmapped.byKey)
  <2>1. Shrinks(Removed(unmapped, stolen).byKey, unmapped.byKey)
    <3> HIDE DEF unmapped, stolen
    <3> QED BY <1>5, RemovedShrinks
  <2> QED BY <1>5, <2>1 DEF Shrinks
<1> HIDE DEF unmapped, cleared, stolen
<1>7. cleared.byKey \in [Keys -> Turns \cup {None}]
  BY <1>6 DEF Shrinks
<1>8. \A k \in Keys : cleared.byKey[k] \in {store.byKey[k], None} /\ cleared.byKey[k] # e
  BY <1>2, <1>5, <1>6 DEF Shrinks
<1>9. store'.byKey = [cleared.byKey EXCEPT ![AnswerKey(t)] = e] /\ StoreFits'
  BY <1>1, <1>2, <1>3, <1>7 DEF StoreFits
<1> QED BY <1>1, <1>7, <1>8, <1>9

LEMMA StepRekey ==
  ASSUME SessionInv, NEW t \in Turns, Rekey(t)
  PROVE  SessionInv'
<1> DEFINE e == turn[t].entry
<1>1. /\ turn \in [Turns -> Turn] /\ entry \in [Turns -> Entry] /\ StoreFits
      /\ MappedFits /\ HeldFits /\ ExclusiveUse /\ OccupiedIsHeld
      /\ AnswerKey(t) \in Keys
  BY AnswerHasKey DEF SessionInv
<1>2. Holds(t, e) /\ e \in Turns /\ turn[e].pc = "returned"
  BY <1>1 DEF Rekey, Holds, HeldFits
<1>3. /\ turn' \in [Turns -> Turn] /\ turn'[t].pc = "returned"
      /\ \A u \in Turns \ {t} : turn'[u] = turn[u]
  BY <1>1, ReturnsFits DEF Rekey
<1>4. entry' = [entry EXCEPT ![e].key = AnswerKey(t), ![e].inUse = FALSE]
  BY DEF Rekey
<1>5. /\ entry' \in [Turns -> Entry] /\ entry'[e].key = AnswerKey(t) /\ ~entry'[e].inUse
      /\ \A f \in Turns \ {e} : entry'[f] = entry[f]
  BY <1>1, <1>2, <1>4 DEF Entry
<1>6. /\ StoreFits' /\ store'.byKey[AnswerKey(t)] = e
      /\ \A k \in Keys \ {AnswerKey(t)} :
           store'.byKey[k] \in {store.byKey[k], None} /\ store'.byKey[k] # e
  BY RekeyMaps
<1>7. MappedFits'
  <2> SUFFICES ASSUME NEW k \in Keys, store'.byKey[k] # None
               PROVE  turn'[store'.byKey[k]].pc = "returned" /\ entry'[store'.byKey[k]].key = k
    BY DEF MappedFits
  <2>1. CASE k = AnswerKey(t)
    BY <1>2, <1>3, <1>5, <1>6, <2>1
  <2>2. CASE k # AnswerKey(t)
    <3>1. store'.byKey[k] = store.byKey[k] /\ store.byKey[k] \in Turns \ {e}
      BY <1>1, <1>6, <2>2 DEF StoreFits
    <3> QED BY <1>1, <1>3, <1>5, <3>1 DEF MappedFits
  <2> QED BY <2>1, <2>2
<1>8. \A u, f \in Turns : Holds(u, f)' <=> (Holds(u, f) /\ u # t)
  BY <1>3 DEF Holds
<1>9. \A u \in Turns : Holds(u, e) => u = t
  BY <1>1, <1>2 DEF ExclusiveUse
<1>10. HeldFits'
  BY <1>1, <1>2, <1>3, <1>5, <1>9 DEF HeldFits, Holds
<1>11. ExclusiveUse'
  BY <1>1, <1>8 DEF ExclusiveUse
<1>12. OccupiedIsHeld'
  <2>1. ASSUME NEW f \in Turns, Cached(f)', entry'[f].inUse
        PROVE  f # e /\ Cached(f) /\ entry[f].inUse
    <3>1. f # e
      BY <1>5, <2>1
    <3>2. entry'[f] = entry[f] /\ entry[f].key \in Keys /\ store'.byKey[entry[f].key] = f
      BY <1>1, <1>5, <2>1, <3>1 DEF Cached, Entry
    <3>3. store.byKey[entry[f].key] = f
      BY <1>6, <3>1, <3>2
    <3> QED BY <2>1, <3>1, <3>2, <3>3 DEF Cached
  <2>2. \A f \in Turns \ {e} : ~Holds(t, f)
    BY DEF Holds
  <2> QED BY <1>1, <1>8, <2>1, <2>2 DEF OccupiedIsHeld
<1> QED BY <1>3, <1>5, <1>6, <1>7, <1>10, <1>11, <1>12 DEF SessionInv

\* The map after a Remember: the new entry is found under its key, if anywhere.
LEMMA RememberMaps ==
  ASSUME SessionInv, NEW t \in Turns, Remember(t)
  PROVE  /\ StoreFits' /\ store'.byKey[AnswerKey(t)] \in {t, None}
         /\ \A k \in Keys \ {AnswerKey(t)} :
              store'.byKey[k] \in {store.byKey[k], None} /\ store'.byKey[k] # t
<1> DEFINE idle == IF Existing(t) = None THEN store ELSE Removed(store, Existing(t))
           grown == [byKey |-> [idle.byKey EXCEPT ![AnswerKey(t)] = t],
                     order |-> Append(idle.order, t)]
<1>1. turn \in [Turns -> Turn] /\ StoreFits /\ MappedFits /\ AnswerKey(t) \in Keys
  BY AnswerHasKey DEF SessionInv
<1>2. store' = WithoutOverflow(grown) /\ turn[t].pc = "created"
  BY DEF Remember
<1>3. Shrinks(idle.byKey, store.byKey)
  <2>1. Shrinks(Removed(store, Existing(t)).byKey, store.byKey)
    BY <1>1, RemovedShrinks DEF StoreFits
  <2> QED BY <1>1, <2>1 DEF Shrinks, StoreFits
<1> HIDE DEF idle
<1>4. grown.byKey = [idle.byKey EXCEPT ![AnswerKey(t)] = t]
  OBVIOUS
<1> HIDE DEF grown
<1>5. grown.byKey \in [Keys -> Turns \cup {None}]
  BY <1>3, <1>4 DEF Shrinks
<1>6. Shrinks(store'.byKey, grown.byKey)
  BY <1>2, <1>5, WithoutOverflowShrinks
<1>7. StoreFits'
  BY <1>2, <1>6 DEF StoreFits, WithoutOverflow, Shrinks
<1>8. ASSUME NEW k \in Keys \ {AnswerKey(t)}
      PROVE  store'.byKey[k] \in {store.byKey[k], None} /\ store'.byKey[k] # t
  <2>1. grown.byKey[k] = idle.byKey[k]
    BY <1>3, <1>4, <1>8 DEF Shrinks
  <2>2. store.byKey[k] # t /\ t # None
    BY <1>1, <1>2, <1>8 DEF MappedFits
  <2> QED BY <1>3, <1>6, <1>8, <2>1, <2>2 DEF Shrinks
<1>9. grown.byKey[AnswerKey(t)] = t
  BY <1>1, <1>3, <1>4 DEF Shrinks
<1> QED BY <1>1, <1>6, <1>7, <1>8, <1>9 DEF Shrinks

LEMMA StepRemember ==
  ASSUME SessionInv, NEW t \in Turns, Remember(t)
  PROVE  SessionInv'
<1>1. /\ turn \in [Turns -> Turn] /\ entry \in [Turns -> Entry] /\ StoreFits
      /\ MappedFits /\ HeldFits /\ ExclusiveUse /\ OccupiedIsHeld
      /\ AnswerKey(t) \in Keys
  BY AnswerHasKey DEF SessionInv
<1>2. turn[t].pc = "created" /\ turn[t].process \in Processes \cup {None}
  BY <1>1 DEF Remember, Turn
<1>3. /\ turn' \in [Turns -> Turn] /\ turn'[t].pc = "returned"
      /\ \A u \in Turns \ {t} : turn'[u] = turn[u]
  BY <1>1, ReturnsFits DEF Remember
<1>4. entry' = [entry EXCEPT ![t] = [key |-> AnswerKey(t), process |-> turn[t].process,
                                     inUse |-> FALSE]]
  BY DEF Remember
<1>5. /\ entry' \in [Turns -> Entry] /\ entry'[t].key = AnswerKey(t) /\ ~entry'[t].inUse
      /\ \A f \in Turns \ {t} : entry'[f] = entry[f]
  BY <1>1, <1>2, <1>4 DEF Entry
<1>6. /\ StoreFits' /\ store'.byKey[AnswerKey(t)] \in {t, None}
      /\ \A k \in Keys \ {AnswerKey(t)} :
           store'.byKey[k] \in {store.byKey[k], None} /\ store'.byKey[k] # t
  BY RememberMaps
<1>7. MappedFits'
  <2> SUFFICES ASSUME NEW k \in Keys, store'.byKey[k] # None
               PROVE  turn'[store'.byKey[k]].pc = "returned" /\ entry'[store'.byKey[k]].key = k
    BY DEF MappedFits
  <2>1. CASE k = AnswerKey(t)
    BY <1>3, <1>5, <1>6, <2>1
  <2>2. CASE k # AnswerKey(t)
    <3>1. store'.byKey[k] = store.byKey[k] /\ store.byKey[k] \in Turns \ {t}
      BY <1>1, <1>6, <2>2 DEF StoreFits
    <3> QED BY <1>1, <1>3, <1>5, <3>1 DEF MappedFits
  <2> QED BY <2>1, <2>2
<1>8. \A u, f \in Turns : Holds(u, f)' <=> Holds(u, f)
  BY <1>2, <1>3 DEF Holds
<1>9. HeldFits'
  BY <1>1, <1>2, <1>3, <1>5 DEF HeldFits
<1>10. ExclusiveUse'
  BY <1>1, <1>8 DEF ExclusiveUse
<1>11. OccupiedIsHeld'
  <2>1. ASSUME NEW f \in Turns, Cached(f)', entry'[f].inUse
        PROVE  Cached(f) /\ entry[f].inUse
    <3>1. f # t
      BY <1>5, <2>1
    <3>2. entry'[f] = entry[f] /\ entry[f].key \in Keys /\ store'.byKey[entry[f].key] = f
      BY <1>1, <1>5, <2>1, <3>1 DEF Cached, Entry
    <3>3. store.byKey[entry[f].key] = f
      BY <1>6, <3>1, <3>2
    <3> QED BY <2>1, <3>2, <3>3 DEF Cached
  <2> QED BY <1>1, <1>8, <2>1 DEF OccupiedIsHeld
<1> QED BY <1>3, <1>5, <1>6, <1>7, <1>9, <1>10, <1>11 DEF SessionInv

-----------------------------------------------------------------------------
LEMMA SessionInvInit == SessionInit => SessionInv
<1> SUFFICES ASSUME SessionInit
             PROVE  SessionInv
  OBVIOUS
<1>1. \A t \in Turns : turn[t] = NoTurn /\ turn[t].pc = "idle"
  BY DEF SessionInit, NoTurn
<1>2. turn \in [Turns -> Turn]
  BY NoTurnType DEF SessionInit
<1>3. StoreFits /\ MappedFits /\ entry \in [Turns -> Entry]
  BY DEF SessionInit, StoreFits, MappedFits, Entry
<1>4. HeldFits /\ ExclusiveUse /\ OccupiedIsHeld
  BY <1>1 DEF SessionInit, HeldFits, ExclusiveUse, OccupiedIsHeld, Holds, Cached
<1> QED BY <1>2, <1>3, <1>4 DEF SessionInv

LEMMA SessionInvStep == SessionInv /\ [SessionNext]_vars => SessionInv'
<1> SUFFICES ASSUME SessionInv, [SessionNext]_vars
             PROVE  SessionInv'
  OBVIOUS
<1>1. ASSUME NEW t \in Turns, TurnStep(t)
      PROVE  SessionInv'
  BY <1>1, StepQuiet, StepDrops, StepOccupies, StepOverBudget, StepSend, StepHitFails,
     StepRekey, StepRemember DEF TurnStep
<1>2. CASE UNCHANGED vars
  BY <1>2 DEF vars, SessionInv, StoreFits, MappedFits, HeldFits, ExclusiveUse,
     OccupiedIsHeld, Holds, Cached
<1> QED BY <1>1, <1>2, StepBridges DEF SessionNext, ServeNext

LEMMA SessionInvAlways == SessionSpec => []SessionInv
BY SessionInvInit, SessionInvStep, PTL DEF SessionSpec

\* Two turns never run on one agent (occupySession, releaseSession, rekeySession and
\* rememberSession), however many turns, keys and bridges there are.
THEOREM AgentsAreExclusive == SessionSpec => []ExclusiveUse
<1>1. SessionInv => ExclusiveUse
  BY DEF SessionInv
<1> QED BY <1>1, SessionInvAlways, PTL

\* An entry that can be looked up and is in use has a turn that will let it go: no key is
\* lost to later turns.
THEOREM NoKeyIsLost == SessionSpec => []OccupiedIsHeld
<1>1. SessionInv => OccupiedIsHeld
  BY DEF SessionInv
<1> QED BY <1>1, SessionInvAlways, PTL

-----------------------------------------------------------------------------
(***************************************************************************)
(* What a reused agent has seen.  An agent is found under the key of the   *)
(* transcript it has seen, except while a turn on it is under way, and if  *)
(* texts tell exchanges apart, keys tell transcripts apart.                *)
(***************************************************************************)
TextTells == \A x, y \in Exchanges : TextOf[x] = TextOf[y] => x = y

Sending(e) == \E t \in Turns : turn[t].pc = "sent" /\ turn[t].entry = e

NewHeard ==
  \A t \in Turns : turn[t].pc = "created" =>
    history[t] = Append(turn[t].prefix, turn[t].exchange)

HitHeard == \A t \in Turns : turn[t].pc = "hit" => history[turn[t].entry] = turn[t].prefix

KeyTells ==
  \A k \in Keys, e \in Turns : (store.byKey[k] = e /\ ~Sending(e)) => KeyOf(history[e]) = k

HeardInv ==
  /\ history \in [Turns -> Seq(Exchanges)]
  /\ NewHeard /\ HitHeard /\ HitContinuesTranscript /\ KeyTells

LEMMA KeysTellTranscripts ==
  ASSUME TextTells, NEW g \in Seq(Exchanges), NEW h \in Seq(Exchanges), KeyOf(g) = KeyOf(h)
  PROVE  g = h
<1>1. DOMAIN g = 1 .. Len(g) /\ DOMAIN h = 1 .. Len(h) /\ Len(g) \in Nat /\ Len(h) \in Nat
  OBVIOUS
<1>2. DOMAIN KeyOf(g) = DOMAIN g /\ DOMAIN KeyOf(h) = DOMAIN h
  BY DEF KeyOf
<1>3. 1 .. Len(g) = 1 .. Len(h)
  BY <1>1, <1>2
<1>4. Len(g) = Len(h)
  <2>1. CASE Len(g) < Len(h)
    <3>1. Len(h) \in 1 .. Len(h) /\ Len(h) \notin 1 .. Len(g)
      BY <1>1, <2>1
    <3> QED BY <1>3, <3>1
  <2>2. CASE Len(h) < Len(g)
    <3>1. Len(g) \in 1 .. Len(g) /\ Len(g) \notin 1 .. Len(h)
      BY <1>1, <2>2
    <3> QED BY <1>3, <3>1
  <2>3. \A m, n \in Nat : m < n \/ n < m \/ m = n
    OBVIOUS
  <2> QED BY <1>1, <2>1, <2>2, <2>3
<1>5. ASSUME NEW i \in 1 .. Len(g)
      PROVE  g[i] = h[i]
  <2>1. KeyOf(g)[i] = TextOf[g[i]] /\ KeyOf(h)[i] = TextOf[h[i]]
    BY <1>1, <1>3 DEF KeyOf
  <2>2. g[i] \in Exchanges /\ h[i] \in Exchanges
    BY <1>3, ElementOfSeq
  <2> QED BY <2>1, <2>2 DEF TextTells
<1> QED BY <1>4, <1>5, SeqEqual

\* A step that creates and sends nothing, and after which no turn is where it was not.
LEMMA NobodyHears ==
  ASSUME SessionInv, HeardInv, history' = history,
         \A k \in Keys : store'.byKey[k] \in {store.byKey[k], None},
         \A u \in Turns :
           \/ turn'[u] = turn[u]
           \/ /\ turn'[u].pc \notin {"created", "hit", "sent"}
              /\ turn[u].pc = "sent" => \A k \in Keys : store'.byKey[k] # turn[u].entry
  PROVE  HeardInv'
<1>1. NewHeard' /\ HitHeard' /\ HitContinuesTranscript'
  BY DEF HeardInv, NewHeard, HitHeard, HitContinuesTranscript
<1>2. KeyTells'
  <2> SUFFICES ASSUME NEW k \in Keys, NEW e \in Turns, store'.byKey[k] = e, ~Sending(e)'
               PROVE  KeyOf(history'[e]) = k
    BY DEF KeyTells
  <2>1. store.byKey[k] = e
    OBVIOUS
  <2>2. ~Sending(e)
    BY DEF Sending
  <2> QED BY <2>1, <2>2 DEF HeardInv, KeyTells
<1> QED BY <1>1, <1>2 DEF HeardInv

LEMMA HeardQuiet ==
  ASSUME SessionInv, HeardInv, NEW t \in Turns,
         \/ \E h \in Transcripts, x \in Exchanges, p \in Processes : Acquire(t, h, x, p)
         \/ Misses(t) \/ MissFails(t) \/ OneShotFails(t) \/ Refused(t)
         \/ DropsDead(t) \/ DropsStale(t) \/ OverBudget(t)
  PROVE  HeardInv'
<1>1. turn \in [Turns -> Turn] /\ StoreFits /\ entry \in [Turns -> Entry]
  BY DEF SessionInv
<1>2. history' = history
  BY DEF Acquire, Misses, MissFails, OneShotFails, Refused, DropsDead, DropsStale, OverBudget
<1>3. \A k \in Keys : store'.byKey[k] \in {store.byKey[k], None}
  <2>1. CASE DropsDead(t) \/ DropsStale(t)
    <3>1. Shrinks(Removed(store, Found(t)).byKey, store.byKey)
      BY <1>1, RemovedShrinks DEF StoreFits
    <3> QED BY <2>1, <3>1 DEF DropsDead, DropsStale, Shrinks
  <2>2. CASE OverBudget(t)
    BY <1>1, <2>2 DEF OverBudget, StoreFits
  <2> QED BY <2>1, <2>2 DEF Acquire, Misses, MissFails, OneShotFails, Refused
<1>4. \A u \in Turns \ {t} : turn'[u] = turn[u]
  <2>1. CASE Misses(t) \/ DropsDead(t) \/ DropsStale(t)
    BY <1>1, <2>1, TurnAtFits DEF Misses, DropsDead, DropsStale, TurnPcs
  <2>2. CASE MissFails(t) \/ OneShotFails(t) \/ Refused(t) \/ OverBudget(t)
    BY <1>1, <2>2, ReturnsFits DEF MissFails, OneShotFails, Refused, OverBudget
  <2> QED BY <1>1, <2>1, <2>2 DEF Acquire
<1>5. turn'[t].pc \notin {"created", "hit", "sent"} /\ turn[t].pc # "sent"
  <2>1. CASE Misses(t) \/ DropsDead(t) \/ DropsStale(t)
    BY <1>1, <2>1, TurnAtFits DEF Misses, DropsDead, DropsStale, FindsIdle, TurnPcs
  <2>2. CASE MissFails(t) \/ OneShotFails(t) \/ Refused(t) \/ OverBudget(t)
    BY <1>1, <2>2, ReturnsFits DEF MissFails, OneShotFails, Refused, OverBudget
  <2> QED BY <1>1, <2>1, <2>2 DEF Acquire
<1> QED BY <1>2, <1>3, <1>4, <1>5, NobodyHears

LEMMA HeardBridges ==
  ASSUME SessionInv, HeardInv,
         EvictAllSessions \/ \E p \in Processes : StopProcess(p) \/ ProcessExits(p)
  PROVE  HeardInv'
<1>1. turn' = turn /\ history' = history
  BY DEF EvictAllSessions, StopProcess, ProcessExits
<1>2. \A k \in Keys : store'.byKey[k] \in {store.byKey[k], None}
  <2>1. CASE EvictAllSessions
    BY <2>1 DEF EvictAllSessions
  <2>2. ASSUME NEW p \in Processes, StopProcess(p) \/ ProcessExits(p)
        PROVE  \A k \in Keys : store'.byKey[k] \in {store.byKey[k], None}
    BY <2>2 DEF StopProcess, ProcessExits
  <2> QED BY <2>1, <2>2
<1> QED BY <1>1, <1>2, NobodyHears

\* An agent that fails in the middle of a turn is not found again.
LEMMA HeardHitFails ==
  ASSUME SessionInv, HeardInv, NEW t \in Turns, HitFails(t)
  PROVE  HeardInv'
<1>1. turn \in [Turns -> Turn] /\ StoreFits /\ entry \in [Turns -> Entry]
  BY DEF SessionInv
<1>2. /\ turn'[t].pc = "returned" /\ \A u \in Turns \ {t} : turn'[u] = turn[u]
      /\ entry' = entry /\ history' = history
  BY <1>1, ReturnsFits DEF HitFails
<1>3. \A k \in Keys : store'.byKey[k] \in {store.byKey[k], None}
  <2>1. Shrinks(Removed(store, turn[t].entry).byKey, store.byKey)
    BY <1>1, RemovedShrinks DEF StoreFits
  <2> QED BY <2>1 DEF HitFails, Shrinks
<1>4. ASSUME NEW k \in Keys, store'.byKey[k] = turn[t].entry
      PROVE  FALSE
  <2>1. turn[t].entry \in Turns
    BY DEF SessionInv, HeldFits, HitFails
  <2>2. store.byKey[k] = turn[t].entry /\ entry[turn[t].entry].key = k
    BY <1>3, <1>4, <2>1 DEF SessionInv, MappedFits
  <2> QED BY <1>4, <2>1, <2>2 DEF HitFails, Removed, Unmapped
<1> QED BY <1>2, <1>3, <1>4, NobodyHears

LEMMA HeardCreate ==
  ASSUME SessionInv, HeardInv, NEW t \in Turns, Create(t)
  PROVE  HeardInv'
<1>1. /\ turn \in [Turns -> Turn] /\ StoreFits /\ MappedFits /\ HeldFits
      /\ entry \in [Turns -> Entry] /\ history \in [Turns -> Seq(Exchanges)]
  BY DEF SessionInv, HeardInv
<1>2. turn[t].pc = "missed" /\ TurnAt(t, "created") /\ store' = store /\ entry' = entry
  BY DEF Create
<1>3. /\ turn'[t].pc = "created" /\ turn'[t].prefix = turn[t].prefix
      /\ turn'[t].exchange = turn[t].exchange
      /\ \A u \in Turns \ {t} : turn'[u] = turn[u]
  BY <1>1, <1>2, TurnAtFits DEF TurnPcs
<1>4. turn[t].prefix \in Seq(Exchanges) /\ turn[t].exchange \in Exchanges
  BY <1>1, TranscriptIsSeq DEF Turn
<1>5. Append(turn[t].prefix, turn[t].exchange) \in Seq(Exchanges)
  BY <1>4, AppendProperties
<1>6. history' = [history EXCEPT ![t] = Append(turn[t].prefix, turn[t].exchange)]
  BY DEF Create
<1>7. /\ history' \in [Turns -> Seq(Exchanges)]
      /\ history'[t] = Append(turn[t].prefix, turn[t].exchange)
      /\ \A e \in Turns \ {t} : history'[e] = history[e]
  BY <1>1, <1>5, <1>6
<1>8. \A u \in Turns : turn'[u].pc \in {"hit", "sent"} =>
        turn'[u] = turn[u] /\ turn[u].entry \in Turns \ {t}
  BY <1>1, <1>2, <1>3 DEF HeldFits
<1>9. NewHeard'
  BY <1>3, <1>7 DEF HeardInv, NewHeard
<1>10. HitHeard'
  <2> SUFFICES ASSUME NEW u \in Turns, turn'[u].pc = "hit"
               PROVE  history'[turn'[u].entry] = turn'[u].prefix
    BY DEF HitHeard
  <2>1. turn'[u] = turn[u] /\ turn[u].entry \in Turns \ {t}
    BY <1>8
  <2>2. history[turn[u].entry] = turn[u].prefix
    BY <2>1 DEF HeardInv, HitHeard
  <2> QED BY <1>7, <2>1, <2>2
<1>12. HitContinuesTranscript'
  <2> SUFFICES ASSUME NEW u \in Turns, turn'[u].pc = "sent"
               PROVE  history'[turn'[u].entry] = Append(turn'[u].prefix, turn'[u].exchange)
    BY DEF HitContinuesTranscript
  <2>1. turn'[u] = turn[u] /\ turn[u].entry \in Turns \ {t}
    BY <1>8
  <2>2. history[turn[u].entry] = Append(turn[u].prefix, turn[u].exchange)
    BY <2>1 DEF HeardInv, HitContinuesTranscript
  <2> QED BY <1>7, <2>1, <2>2
<1>11. KeyTells'
  <2> SUFFICES ASSUME NEW k \in Keys, NEW e \in Turns, store'.byKey[k] = e, ~Sending(e)'
               PROVE  KeyOf(history'[e]) = k
    BY DEF KeyTells
  <2>1. store.byKey[k] = e
    BY <1>2
  <2>2. ~Sending(e)
    BY <1>2, <1>3 DEF Sending
  <2>3. e # t
    BY <1>1, <1>2, <2>1 DEF MappedFits
  <2> QED BY <1>7, <2>1, <2>2, <2>3 DEF HeardInv, KeyTells
<1> QED BY <1>7, <1>9, <1>10, <1>11, <1>12 DEF HeardInv

\* The agent found under the key has seen the transcript that the request goes on from.
LEMMA HeardOccupies ==
  ASSUME TextTells, SessionInv, HeardInv, NEW t \in Turns, Occupies(t)
  PROVE  HeardInv'
<1>1. /\ turn \in [Turns -> Turn] /\ StoreFits /\ MappedFits /\ HeldFits
      /\ entry \in [Turns -> Entry] /\ history \in [Turns -> Seq(Exchanges)]
  BY DEF SessionInv, HeardInv
<1>2. /\ turn[t].pc = "acquired" /\ Found(t) # None /\ ~entry[Found(t)].inUse
      /\ entry' = [entry EXCEPT ![Found(t)].inUse = TRUE]
      /\ store' = [store EXCEPT !.order = Touched(@, Found(t))]
      /\ turn' = [turn EXCEPT ![t].pc = "hit", ![t].entry = Found(t)]
      /\ history' = history
  BY DEF Occupies, FindsIdle
<1>3. turn[t].prefix \in Transcripts /\ turn[t].prefix # <<>>
  BY <1>1, <1>2 DEF Found, Turn
<1>4. PICK k \in Keys : k = KeyOf(turn[t].prefix) /\ Found(t) = store.byKey[k]
  BY <1>3, FoundKey DEF Found
<1>5. PICK e \in Turns : e = Found(t)
  BY <1>1, <1>2, <1>4 DEF StoreFits
<1>6. store.byKey[k] = e
  BY <1>4, <1>5
<1>7. store'.byKey = store.byKey
  BY <1>1, <1>2 DEF StoreFits
<1>8. /\ turn'[t].pc = "hit" /\ turn'[t].entry = e /\ turn'[t].prefix = turn[t].prefix
      /\ \A u \in Turns \ {t} : turn'[u] = turn[u]
  BY <1>1, <1>2, <1>5 DEF Turn
<1>9. ~Sending(e)
  BY <1>1, <1>2, <1>5 DEF Sending, HeldFits
<1>10. history[e] = turn[t].prefix
  <2>1. KeyOf(history[e]) = KeyOf(turn[t].prefix)
    BY <1>4, <1>6, <1>9 DEF HeardInv, KeyTells
  <2> QED BY <1>1, <1>3, <2>1, TranscriptIsSeq, KeysTellTranscripts
<1>11. NewHeard' /\ HitHeard' /\ HitContinuesTranscript'
  <2>1. ASSUME NEW u \in Turns \ {t}
        PROVE  turn'[u] = turn[u] /\ history' = history
    BY <1>2, <1>8
  <2>2. NewHeard' /\ HitContinuesTranscript'
    BY <1>8, <2>1 DEF HeardInv, NewHeard, HitContinuesTranscript
  <2>3. ASSUME NEW u \in Turns, turn'[u].pc = "hit"
        PROVE  history'[turn'[u].entry] = turn'[u].prefix
    <3>1. CASE u = t
      BY <1>2, <1>8, <1>10, <3>1
    <3>2. CASE u # t
      BY <2>1, <2>3, <3>2 DEF HeardInv, HitHeard
    <3> QED BY <3>1, <3>2
  <2>4. HitHeard'
    BY <2>3 DEF HitHeard
  <2> QED BY <2>2, <2>4
<1>12. KeyTells'
  <2> SUFFICES ASSUME NEW l \in Keys, NEW f \in Turns, store'.byKey[l] = f, ~Sending(f)'
               PROVE  KeyOf(history'[f]) = l
    BY DEF KeyTells
  <2>1. store.byKey[l] = f
    BY <1>7
  <2>2. ~Sending(f)
    BY <1>2, <1>8 DEF Sending
  <2> QED BY <1>2, <2>1, <2>2 DEF HeardInv, KeyTells
<1> QED BY <1>1, <1>2, <1>11, <1>12 DEF HeardInv

LEMMA HeardSend ==
  ASSUME SessionInv, HeardInv, NEW t \in Turns, Send(t)
  PROVE  HeardInv'
<1>1. /\ turn \in [Turns -> Turn] /\ StoreFits /\ MappedFits /\ HeldFits /\ ExclusiveUse
      /\ entry \in [Turns -> Entry] /\ history \in [Turns -> Seq(Exchanges)]
  BY DEF SessionInv, HeardInv
<1>2. /\ turn[t].pc = "hit" /\ TurnAt(t, "sent") /\ store' = store /\ entry' = entry
      /\ history' = [history EXCEPT ![turn[t].entry] = Append(@, turn[t].exchange)]
  BY DEF Send
<1>3. PICK e \in Turns : e = turn[t].entry
  BY <1>1, <1>2 DEF HeldFits
<1>4. turn[e].pc = "returned" /\ Holds(t, e)
  BY <1>1, <1>2, <1>3 DEF HeldFits, Holds
<1>5. /\ turn'[t].pc = "sent" /\ turn'[t].entry = e /\ turn'[t].prefix = turn[t].prefix
      /\ turn'[t].exchange = turn[t].exchange
      /\ \A u \in Turns \ {t} : turn'[u] = turn[u]
  BY <1>1, <1>2, <1>3, TurnAtFits DEF TurnPcs
<1>6. turn[t].exchange \in Exchanges /\ history[e] \in Seq(Exchanges)
  BY <1>1 DEF Turn
<1>7. Append(history[e], turn[t].exchange) \in Seq(Exchanges)
  BY <1>6, AppendProperties
<1>8. /\ history' \in [Turns -> Seq(Exchanges)]
      /\ history'[e] = Append(history[e], turn[t].exchange)
      /\ \A f \in Turns \ {e} : history'[f] = history[f]
  BY <1>1, <1>2, <1>3, <1>7
<1>9. history[e] = turn[t].prefix
  BY <1>2, <1>3 DEF HeardInv, HitHeard
<1>10. \A u \in Turns \ {t} : turn[u].pc \in {"hit", "sent"} => turn[u].entry \in Turns \ {e}
  BY <1>1, <1>4 DEF HeldFits, ExclusiveUse, Holds
<1>11. NewHeard'
  BY <1>4, <1>5, <1>8 DEF HeardInv, NewHeard
<1>12. HitHeard'
  <2> SUFFICES ASSUME NEW u \in Turns, turn'[u].pc = "hit"
               PROVE  history'[turn'[u].entry] = turn'[u].prefix
    BY DEF HitHeard
  <2>1. turn'[u] = turn[u] /\ turn[u].entry \in Turns \ {e}
    BY <1>5, <1>10
  <2>2. history[turn[u].entry] = turn[u].prefix
    BY <2>1 DEF HeardInv, HitHeard
  <2> QED BY <1>8, <2>1, <2>2
<1>14. HitContinuesTranscript'
  <2> SUFFICES ASSUME NEW u \in Turns, turn'[u].pc = "sent"
               PROVE  history'[turn'[u].entry] = Append(turn'[u].prefix, turn'[u].exchange)
    BY DEF HitContinuesTranscript
  <2>1. CASE u = t
    BY <1>5, <1>8, <1>9, <2>1
  <2>2. CASE u # t
    <3>1. turn'[u] = turn[u] /\ turn[u].entry \in Turns \ {e}
      BY <1>5, <1>10, <2>2
    <3>2. history[turn[u].entry] = Append(turn[u].prefix, turn[u].exchange)
      BY <3>1 DEF HeardInv, HitContinuesTranscript
    <3> QED BY <1>8, <3>1, <3>2
  <2> QED BY <2>1, <2>2
<1>13. KeyTells'
  <2> SUFFICES ASSUME NEW k \in Keys, NEW f \in Turns, store'.byKey[k] = f, ~Sending(f)'
               PROVE  KeyOf(history'[f]) = k
    BY DEF KeyTells
  <2>1. store.byKey[k] = f
    BY <1>2
  <2>2. f # e
    BY <1>5 DEF Sending
  <2>3. ~Sending(f)
    BY <1>2, <1>5 DEF Sending
  <2> QED BY <1>8, <2>1, <2>2, <2>3 DEF HeardInv, KeyTells
<1> QED BY <1>8, <1>11, <1>12, <1>13, <1>14 DEF HeardInv

\* The agent that answered is found under the key of the longer transcript, which it has seen.
LEMMA HeardRekey ==
  ASSUME SessionInv, HeardInv, NEW t \in Turns, Rekey(t)
  PROVE  HeardInv'
<1>1. /\ turn \in [Turns -> Turn] /\ StoreFits /\ HeldFits /\ ExclusiveUse
      /\ AnswerKey(t) \in Keys
  BY AnswerHasKey DEF SessionInv
<1>2. turn[t].pc = "sent" /\ history' = history
  BY DEF Rekey
<1>3. PICK e \in Turns : e = turn[t].entry
  BY <1>1, <1>2 DEF HeldFits
<1>4. turn'[t].pc = "returned" /\ \A u \in Turns \ {t} : turn'[u] = turn[u]
  BY <1>1, ReturnsFits DEF Rekey
<1>5. /\ store'.byKey[AnswerKey(t)] = e
      /\ \A k \in Keys \ {AnswerKey(t)} :
           store'.byKey[k] \in {store.byKey[k], None} /\ store'.byKey[k] # e
  BY <1>3, RekeyMaps
<1>6. history[e] = Append(turn[t].prefix, turn[t].exchange)
  BY <1>2, <1>3 DEF HeardInv, HitContinuesTranscript
<1>7. NewHeard' /\ HitHeard' /\ HitContinuesTranscript'
  BY <1>2, <1>4 DEF HeardInv, NewHeard, HitHeard, HitContinuesTranscript
<1>8. KeyTells'
  <2> SUFFICES ASSUME NEW k \in Keys, NEW f \in Turns, store'.byKey[k] = f, ~Sending(f)'
               PROVE  KeyOf(history'[f]) = k
    BY DEF KeyTells
  <2>1. CASE k = AnswerKey(t)
    BY <1>2, <1>5, <1>6, <2>1 DEF AnswerKey
  <2>2. CASE k # AnswerKey(t)
    <3>1. store.byKey[k] = f /\ f # e
      BY <1>5, <2>2
    <3>2. ~Sending(f)
      BY <1>3, <1>4, <3>1 DEF Sending
    <3> QED BY <1>2, <3>1, <3>2 DEF HeardInv, KeyTells
  <2> QED BY <2>1, <2>2
<1> QED BY <1>2, <1>7, <1>8 DEF HeardInv

LEMMA HeardRemember ==
  ASSUME SessionInv, HeardInv, NEW t \in Turns, Remember(t)
  PROVE  HeardInv'
<1>1. turn \in [Turns -> Turn] /\ StoreFits /\ AnswerKey(t) \in Keys
  BY AnswerHasKey DEF SessionInv
<1>2. turn[t].pc = "created" /\ history' = history
  BY DEF Remember
<1>3. turn'[t].pc = "returned" /\ \A u \in Turns \ {t} : turn'[u] = turn[u]
  BY <1>1, ReturnsFits DEF Remember
<1>4. /\ store'.byKey[AnswerKey(t)] \in {t, None}
      /\ \A k \in Keys \ {AnswerKey(t)} :
           store'.byKey[k] \in {store.byKey[k], None} /\ store'.byKey[k] # t
  BY RememberMaps
<1>5. history[t] = Append(turn[t].prefix, turn[t].exchange)
  BY <1>2 DEF HeardInv, NewHeard
<1>6. NewHeard' /\ HitHeard' /\ HitContinuesTranscript'
  BY <1>2, <1>3 DEF HeardInv, NewHeard, HitHeard, HitContinuesTranscript
<1>7. KeyTells'
  <2> SUFFICES ASSUME NEW k \in Keys, NEW f \in Turns, store'.byKey[k] = f, ~Sending(f)'
               PROVE  KeyOf(history'[f]) = k
    BY DEF KeyTells
  <2>1. CASE k = AnswerKey(t)
    BY <1>2, <1>4, <1>5, <2>1 DEF AnswerKey
  <2>2. CASE k # AnswerKey(t)
    <3>1. store.byKey[k] = f
      BY <1>4, <2>2
    <3>2. ~Sending(f)
      BY <1>2, <1>3 DEF Sending
    <3> QED BY <1>2, <3>1, <3>2 DEF HeardInv, KeyTells
  <2> QED BY <2>1, <2>2
<1> QED BY <1>2, <1>6, <1>7 DEF HeardInv

LEMMA HeardInvInit == SessionInit => HeardInv
<1> SUFFICES ASSUME SessionInit
             PROVE  HeardInv
  OBVIOUS
<1>1. \A t \in Turns : turn[t].pc = "idle"
  BY DEF SessionInit, NoTurn
<1>2. history \in [Turns -> Seq(Exchanges)]
  BY EmptySeq DEF SessionInit
<1>3. NewHeard /\ HitHeard /\ HitContinuesTranscript
  BY <1>1 DEF NewHeard, HitHeard, HitContinuesTranscript
<1>4. KeyTells
  BY DEF SessionInit, KeyTells
<1> QED BY <1>2, <1>3, <1>4 DEF HeardInv

LEMMA HeardInvStep ==
  ASSUME TextTells
  PROVE  SessionInv /\ HeardInv /\ [SessionNext]_vars => HeardInv'
<1> SUFFICES ASSUME SessionInv, HeardInv, [SessionNext]_vars
             PROVE  HeardInv'
  OBVIOUS
<1>1. ASSUME NEW t \in Turns, TurnStep(t)
      PROVE  HeardInv'
  BY <1>1, HeardQuiet, HeardCreate, HeardOccupies, HeardSend, HeardHitFails, HeardRekey,
     HeardRemember DEF TurnStep
<1>2. CASE UNCHANGED vars
  BY <1>2 DEF vars, HeardInv, NewHeard, HitHeard, HitContinuesTranscript, KeyTells, Sending
<1> QED BY <1>1, <1>2, HeardBridges DEF SessionNext, ServeNext

\* A turn that reuses an agent continues what this agent has seen, whatever the store drops,
\* moves and takes back meanwhile, and however often an agent was reused before: if texts tell
\* exchanges apart, which those with images do not (occupySession, rekeySession).
THEOREM ReusedAgentsHeardAll ==
  ASSUME TextTells
  PROVE  SessionSpec => []HitContinuesTranscript
<1>1. HeardInv => HitContinuesTranscript
  BY DEF HeardInv
<1>2. SessionInv /\ HeardInv /\ [SessionNext]_vars => HeardInv'
  BY HeardInvStep
<1> QED BY <1>1, <1>2, HeardInvInit, SessionInvAlways, PTL DEF SessionSpec

(***************************************************************************)
(* What the store's helpers do to the order.                               *)
(***************************************************************************)
LEMMA TouchedOrders ==
  ASSUME NEW order \in Seq(Turns), IsInjective(order), NEW e \in Turns
  PROVE  /\ Touched(order, e) \in Seq(Turns) /\ IsInjective(Touched(order, e))
         /\ ToSet(Touched(order, e)) = ToSet(order) \cup {e}
<1> DEFINE rest == Without(order, {e})
<1>1. rest \in Seq(Turns) /\ IsInjective(rest) /\ ToSet(rest) = ToSet(order) \ {e}
  BY WithoutKeeps
<1> HIDE DEF rest
<1>2. e \notin ToSet(rest)
  BY <1>1
<1>3. /\ Append(rest, e) \in Seq(Turns) /\ IsInjective(Append(rest, e))
      /\ ToSet(Append(rest, e)) = ToSet(rest) \cup {e}
  BY <1>1, <1>2, AppendSet
<1>4. Touched(order, e) = Append(rest, e)
  BY DEF Touched, rest
<1> QED BY <1>1, <1>3, <1>4

\* An entry that is removed is found under no key: it was under its own alone.
LEMMA RemovedOrders ==
  ASSUME NEW s, s.byKey \in [Keys -> Turns \cup {None}], Orders(s), NEW e \in Turns,
         \A k \in Keys : s.byKey[k] = e => entry[e].key = k
  PROVE  /\ Orders(Removed(s, e)) /\ ToSet(Removed(s, e).order) = ToSet(s.order) \ {e}
         /\ \A k \in Keys :
              Removed(s, e).byKey[k] = IF s.byKey[k] = e THEN None ELSE s.byKey[k]
<1> DEFINE rest == Without(s.order, {e})
<1>1. rest \in Seq(Turns) /\ IsInjective(rest) /\ ToSet(rest) = ToSet(s.order) \ {e}
  BY WithoutKeeps DEF Orders
<1>2. Removed(s, e).order = rest
  BY DEF Removed
<1> HIDE DEF rest
<1>3. \A k \in Keys : Removed(s, e).byKey[k] = IF s.byKey[k] = e THEN None ELSE s.byKey[k]
  BY DEF Removed, Unmapped
<1>4. \A k \in Keys : Removed(s, e).byKey[k] # None => Removed(s, e).byKey[k] \in ToSet(rest)
  BY <1>1, <1>3 DEF Orders
<1> QED BY <1>1, <1>2, <1>3, <1>4 DEF Orders

LEMMA WithoutOverflowOrders ==
  ASSUME NEW s, s.byKey \in [Keys -> Turns \cup {None}], Orders(s)
  PROVE  /\ Orders(WithoutOverflow(s))
         /\ ToSet(WithoutOverflow(s).order) = ToSet(s.order) \ Overflow(s)
         /\ \A k \in Keys : WithoutOverflow(s).byKey[k]
                              = IF s.byKey[k] \in Overflow(s) THEN None ELSE s.byKey[k]
<1> DEFINE rest == Without(s.order, Overflow(s))
<1>1. /\ rest \in Seq(Turns) /\ IsInjective(rest)
      /\ ToSet(rest) = ToSet(s.order) \ Overflow(s)
  BY WithoutKeeps DEF Orders
<1>2. WithoutOverflow(s).order = rest
  BY DEF WithoutOverflow
<1> HIDE DEF rest
<1>3. \A k \in Keys : WithoutOverflow(s).byKey[k]
                        = IF s.byKey[k] \in Overflow(s) THEN None ELSE s.byKey[k]
  BY DEF WithoutOverflow
<1>4. \A k \in Keys : WithoutOverflow(s).byKey[k] # None => WithoutOverflow(s).byKey[k] \in ToSet(rest)
  BY <1>1, <1>3 DEF Orders
<1> QED BY <1>1, <1>2, <1>3, <1>4 DEF Orders

LEMMA ReleasedAgents ==
  ASSUME agent \in [Turns -> {"none", "live", "released"}], NEW es
  PROVE  /\ Released(es) \in [Turns -> {"none", "live", "released"}]
         /\ \A e \in Turns : Released(es)[e] = "live" => agent[e] = "live" /\ e \notin es
BY DEF Released

\* Who comes into the order is a turn that is over, and no turn begins again.
LEMMA OrderStep ==
  ASSUME OrderInv, Orders(store'),
         \A u \in Turns : turn[u].pc = "returned" => turn'[u].pc = "returned",
         \A e \in ToSet(store'.order) : e \in ToSet(store.order) \/ turn'[e].pc = "returned"
  PROVE  OrderInv'
<1>1. \A e \in ToSet(store.order) : e \in Turns
  BY DEF OrderInv, Orders, ToSet
<1>2. \A e \in ToSet(store'.order) : turn'[e].pc = "returned"
  BY <1>1 DEF OrderInv
<1> QED BY <1>2 DEF OrderInv, Orders

\* A live agent stays where it can be found, or its bridge has exited.
LEMMA LiveStep ==
  ASSUME AgentInv, agent' \in [Turns -> {"none", "live", "released"}],
         life' \in [Processes -> {"none", "alive", "stopping", "exited"}],
         history' \in [Turns -> Seq(Exchanges)], BridgesFit',
         entry \in [Turns -> Entry],
         \A p \in Processes : life[p] = "exited" => life'[p] = "exited",
         \A e \in Turns : agent'[e] = "live" =>
           \/ Cached(e)' \/ turn'[e].pc = "created" \/ Exited(e)'
           \/ /\ agent[e] = "live" /\ entry'[e].process = entry[e].process
              /\ Cached(e) => Cached(e)' \/ Exited(e)'
              /\ turn[e].pc = "created" => turn'[e].pc = "created" \/ Cached(e)'
  PROVE  AgentInv'
<1>1. ASSUME NEW e \in Turns, agent'[e] = "live"
      PROVE  Cached(e)' \/ turn'[e].pc = "created" \/ Exited(e)'
  <2>1. Exited(e) /\ entry'[e].process = entry[e].process => Exited(e)'
    BY DEF Exited, Entry
  <2> QED BY <1>1, <2>1 DEF AgentInv, LiveIsKept
<1>2. LiveIsKept'
  BY <1>1 DEF LiveIsKept
<1> QED BY <1>2 DEF AgentInv

-----------------------------------------------------------------------------
(***************************************************************************)
(* The order and the agents, step by step.                                 *)
(***************************************************************************)
LEMMA AgentQuiet ==
  ASSUME SessionInv, OrderInv, AgentInv, NEW t \in Turns,
         \/ \E h \in Transcripts, x \in Exchanges, p \in Processes : Acquire(t, h, x, p)
         \/ Misses(t) \/ MissFails(t) \/ Create(t) \/ OneShotFails(t) \/ Refused(t) \/ Send(t)
  PROVE  OrderInv' /\ AgentInv'
<1>1. /\ turn \in [Turns -> Turn] /\ entry \in [Turns -> Entry] /\ StoreFits /\ HeldFits
      /\ agent \in [Turns -> {"none", "live", "released"}]
      /\ life \in [Processes -> {"none", "alive", "stopping", "exited"}]
      /\ history \in [Turns -> Seq(Exchanges)] /\ BridgesFit
  BY DEF SessionInv, AgentInv
<1>2. store' = store /\ entry' = entry
  BY DEF Acquire, Misses, MissFails, Create, OneShotFails, Refused, Send
<1> DEFINE TurnMoves ==
             /\ turn[t].pc # "returned" /\ \A u \in Turns \ {t} : turn'[u] = turn[u]
             /\ turn'[t].pc \notin {"idle", "returned"} => turn'[t].process \in Processes
             /\ turn'[t].pc \in {"hit", "sent"} =>
                  turn[t].pc = "hit" /\ turn'[t].entry = turn[t].entry
             /\ turn[t].pc = "created" => OneShotFails(t) \/ Refused(t)
             /\ Create(t) => turn'[t].pc = "created"
           LifeGoesOn ==
             /\ life' \in [Processes -> {"none", "alive", "stopping", "exited"}]
             /\ \A p \in Processes : life[p] = "exited" => life'[p] = "exited"
<1>3. TurnMoves
  <2>1. ASSUME NEW h \in Transcripts, NEW x \in Exchanges, NEW p \in Processes,
               Acquire(t, h, x, p)
        PROVE  TurnMoves
    <3>1. /\ turn'[t].pc = "acquired" /\ turn'[t].process = p /\ turn[t].pc = "idle"
          /\ \A u \in Turns \ {t} : turn'[u] = turn[u]
      BY <1>1, <2>1 DEF Acquire
    <3> QED BY <3>1 DEF Create
  <2>2. CASE Misses(t)
    <3>1. /\ turn'[t].pc = "missed" /\ turn'[t].process = turn[t].process
          /\ turn[t].pc = "acquired" /\ \A u \in Turns \ {t} : turn'[u] = turn[u]
      BY <1>1, <2>2, TurnAtFits DEF Misses, TurnPcs
    <3> QED BY <1>1, <3>1 DEF Create, BridgesFit
  <2>3. CASE Create(t)
    <3>1. /\ turn'[t].pc = "created" /\ turn'[t].process = turn[t].process
          /\ turn[t].pc = "missed" /\ \A u \in Turns \ {t} : turn'[u] = turn[u]
      BY <1>1, <2>3, TurnAtFits DEF Create, TurnPcs
    <3> QED BY <1>1, <3>1 DEF BridgesFit
  <2>4. CASE MissFails(t) \/ OneShotFails(t) \/ Refused(t)
    <3>1. /\ turn'[t].pc = "returned" /\ turn[t].pc \in {"missed", "created"}
          /\ \A u \in Turns \ {t} : turn'[u] = turn[u]
      BY <1>1, <2>4, ReturnsFits DEF MissFails, OneShotFails, Refused
    <3>2. ~Create(t) /\ (turn[t].pc = "created" => ~MissFails(t))
      <4>1. [NoTurn EXCEPT !.pc = "returned"].pc = "returned"
        BY DEF NoTurn
      <4>2. Create(t) => turn'[t].pc = "created"
        BY <1>1, TurnAtFits DEF Create, TurnPcs
      <4> QED BY <3>1, <4>2 DEF MissFails
    <3> QED BY <2>4, <3>1, <3>2
  <2>5. CASE Send(t)
    <3>1. /\ turn'[t].pc = "sent" /\ turn'[t].process = turn[t].process
          /\ turn'[t].entry = turn[t].entry
          /\ turn[t].pc = "hit" /\ \A u \in Turns \ {t} : turn'[u] = turn[u]
      BY <1>1, <2>5, TurnAtFits DEF Send, TurnPcs
    <3> QED BY <1>1, <3>1 DEF Create, BridgesFit
  <2> QED BY <2>1, <2>2, <2>3, <2>4, <2>5
<1>4. BridgesFit'
  BY <1>1, <1>2, <1>3 DEF BridgesFit
<1>5. OrderInv'
  BY <1>2, <1>3, OrderStep DEF OrderInv
<1>6. LifeGoesOn
  <2>1. ASSUME NEW p \in Processes, life' = [life EXCEPT ![p] = "alive"], life[p] # "exited"
        PROVE  LifeGoesOn
    BY <1>1, <2>1
  <2>2. ASSUME life' = life
        PROVE  LifeGoesOn
    BY <1>1, <2>2
  <2> QED BY <2>1, <2>2 DEF Acquire, Misses, MissFails, Create, OneShotFails, Refused, Send
<1>7. history' \in [Turns -> Seq(Exchanges)]
  <2>1. turn[t].prefix \in Seq(Exchanges) /\ turn[t].exchange \in Exchanges
    BY <1>1, TranscriptIsSeq DEF Turn
  <2>2. CASE Create(t)
    BY <1>1, <2>1, <2>2, AppendProperties DEF Create
  <2>3. CASE Send(t)
    <3>1. turn[t].entry \in Turns
      BY <1>1, <2>3 DEF Send, HeldFits
    <3>2. Append(history[turn[t].entry], turn[t].exchange) \in Seq(Exchanges)
      BY <1>1, <2>1, <3>1, AppendProperties
    <3> QED BY <1>1, <2>3, <3>2 DEF Send
  <2>4. CASE history' = history
    BY <1>1, <2>4
  <2> QED BY <2>2, <2>3, <2>4 DEF Acquire, Misses, MissFails, OneShotFails, Refused
<1>8. /\ agent' \in [Turns -> {"none", "live", "released"}]
      /\ \A e \in Turns : agent'[e] = "live" => turn'[e].pc = "created" \/ agent[e] = "live"
      /\ turn[t].pc = "created" => agent'[t] # "live"
  <2>1. CASE Create(t)
    BY <1>1, <1>3, <2>1 DEF Create
  <2>2. CASE OneShotFails(t) \/ Refused(t)
    BY <1>1, <2>2, ReleasedAgents DEF OneShotFails, Refused
  <2>3. CASE agent' = agent /\ turn[t].pc # "created"
    BY <1>1, <2>3
  <2> QED BY <1>3, <2>1, <2>2, <2>3 DEF Acquire, Misses, MissFails, Send
<1>9. \A e \in Turns : Cached(e)' <=> Cached(e)
  BY <1>2 DEF Cached
<1>10. \A e \in Turns : agent'[e] = "live" =>
         \/ turn'[e].pc = "created"
         \/ /\ agent[e] = "live" /\ entry'[e].process = entry[e].process
            /\ Cached(e) => Cached(e)'
            /\ turn[e].pc = "created" => turn'[e].pc = "created"
  BY <1>2, <1>3, <1>8, <1>9
<1>11. AgentInv'
  BY <1>1, <1>4, <1>6, <1>7, <1>8, <1>10, LiveStep
<1> QED BY <1>5, <1>11

\* Entries leave the store, for turns that fail or miss and for the plugin and its bridges.
LEMMA EntriesDropped ==
  ASSUME SessionInv, OrderInv, AgentInv, NEW gone,
         entry' = entry, history' = history,
         life' \in [Processes -> {"none", "alive", "stopping", "exited"}],
         \A p \in Processes : life[p] = "exited" => life'[p] = "exited",
         agent' \in [Turns -> {"none", "live", "released"}],
         \A e \in Turns : agent'[e] = "live" => agent[e] = "live" /\ (e \notin gone \/ Exited(e)),
         Orders(store'), ToSet(store'.order) \subseteq ToSet(store.order),
         \A k \in Keys :
           store'.byKey[k] = IF store.byKey[k] \in gone THEN None ELSE store.byKey[k],
         \A u \in Turns :
           \/ turn'[u] = turn[u]
           \/ /\ turn[u].pc \notin {"idle", "created", "returned"}
              /\ \/ turn'[u].pc = "returned"
                 \/ turn'[u].pc = "missed" /\ turn'[u].process = turn[u].process
  PROVE  OrderInv' /\ AgentInv'
<1>1. entry \in [Turns -> Entry] /\ BridgesFit
  BY DEF SessionInv, AgentInv
<1>2. OrderInv'
  BY OrderStep DEF OrderInv
<1>3. BridgesFit'
  <2>1. \A u \in Turns : turn'[u].pc \notin {"idle", "returned"} => turn'[u].process \in Processes
    BY <1>1 DEF BridgesFit
  <2>2. \A u \in Turns : turn'[u].pc \in {"hit", "sent"} => turn'[u] = turn[u]
    OBVIOUS
  <2>3. \A k \in Keys : store'.byKey[k] # None => store'.byKey[k] = store.byKey[k]
    OBVIOUS
  <2> QED BY <1>1, <2>1, <2>2, <2>3 DEF BridgesFit
<1>4. history' \in [Turns -> Seq(Exchanges)]
  BY DEF AgentInv
<1>5. ASSUME NEW e \in Turns, agent'[e] = "live"
      PROVE  \/ Exited(e)'
             \/ /\ agent[e] = "live" /\ entry'[e].process = entry[e].process
                /\ Cached(e) => Cached(e)'
                /\ turn[e].pc = "created" => turn'[e].pc = "created"
  <2>1. CASE Exited(e)
    <3>1. entry[e].process \in Processes
      BY <1>1, <2>1 DEF Exited, Entry
    <3> QED BY <2>1, <3>1 DEF Exited
  <2>2. CASE e \notin gone
    <3>1. ASSUME Cached(e)
          PROVE  Cached(e)'
      <4>1. entry[e].key \in Keys
        BY <1>1, <3>1 DEF Cached, Entry
      <4> QED BY <2>2, <3>1, <4>1 DEF Cached
    <3> QED BY <1>5, <3>1
  <2> QED BY <1>5, <2>1, <2>2
<1>6. AgentInv'
  BY <1>1, <1>3, <1>4, <1>5, LiveStep
<1> QED BY <1>2, <1>6

LEMMA AgentDrops ==
  ASSUME SessionInv, OrderInv, AgentInv, NEW t \in Turns, DropsDead(t) \/ DropsStale(t)
  PROVE  OrderInv' /\ AgentInv'
<1>1. /\ turn \in [Turns -> Turn] /\ entry \in [Turns -> Entry] /\ StoreFits /\ MappedFits
      /\ agent \in [Turns -> {"none", "live", "released"}]
      /\ life \in [Processes -> {"none", "alive", "stopping", "exited"}]
      /\ BridgesFit /\ Orders(store)
  BY DEF SessionInv, AgentInv, OrderInv
<1>2. /\ store' = Removed(store, Found(t)) /\ entry' = entry /\ history' = history /\ life' = life
      /\ turn[t].pc = "acquired" /\ Found(t) # None /\ TurnAt(t, "missed")
  BY DEF DropsDead, DropsStale, FindsIdle
<1>3. PICK k \in Keys : Found(t) = store.byKey[k]
  BY <1>1, <1>2, FoundKey DEF Found, Turn
<1>4. PICK e \in Turns : e = Found(t)
  BY <1>1, <1>2, <1>3 DEF StoreFits
<1>5. entry[e].process \in Processes
  BY <1>1, <1>2, <1>3, <1>4 DEF BridgesFit
<1>6. /\ Orders(store') /\ ToSet(store'.order) = ToSet(store.order) \ {e}
      /\ \A l \in Keys : store'.byKey[l] = IF store.byKey[l] = e THEN None ELSE store.byKey[l]
  <2>1. \A l \in Keys : store.byKey[l] = e => entry[e].key = l
    BY <1>2, <1>4, <1>1 DEF MappedFits
  <2>2. /\ Orders(Removed(store, e)) /\ ToSet(Removed(store, e).order) = ToSet(store.order) \ {e}
        /\ \A l \in Keys : Removed(store, e).byKey[l]
                             = IF store.byKey[l] = e THEN None ELSE store.byKey[l]
    BY <1>1, <2>1, RemovedOrders DEF StoreFits
  <2>3. store' = Removed(store, e)
    BY <1>2, <1>4
  <2> QED BY <2>2, <2>3
<1>7. /\ turn'[t].pc = "missed" /\ turn'[t].process = turn[t].process
      /\ \A u \in Turns \ {t} : turn'[u] = turn[u]
  BY <1>1, <1>2, TurnAtFits DEF TurnPcs
<1>8. /\ agent' \in [Turns -> {"none", "live", "released"}]
      /\ \A f \in Turns : agent'[f] = "live" => agent[f] = "live" /\ (f \notin {e} \/ Exited(f))
  <2>1. CASE DropsDead(t)
    <3>1. Exited(e) /\ agent' = agent
      BY <1>4, <1>5, <2>1 DEF DropsDead, AliveProcess, Exited
    <3> QED BY <1>1, <3>1
  <2>2. CASE DropsStale(t)
    <3>1. agent' = Released({e})
      BY <1>4, <2>2 DEF DropsStale
    <3> QED BY <1>1, <3>1, ReleasedAgents
  <2> QED BY <2>1, <2>2
<1>9. /\ ToSet(store'.order) \subseteq ToSet(store.order)
      /\ \A l \in Keys : store'.byKey[l] = IF store.byKey[l] \in {e} THEN None ELSE store.byKey[l]
  BY <1>6
<1> QED BY <1>1, <1>2, <1>6, <1>7, <1>8, <1>9, EntriesDropped

LEMMA AgentHitFails ==
  ASSUME SessionInv, OrderInv, AgentInv, NEW t \in Turns, HitFails(t)
  PROVE  OrderInv' /\ AgentInv'
<1>1. /\ turn \in [Turns -> Turn] /\ entry \in [Turns -> Entry] /\ StoreFits /\ MappedFits
      /\ HeldFits /\ agent \in [Turns -> {"none", "live", "released"}]
      /\ life \in [Processes -> {"none", "alive", "stopping", "exited"}]
      /\ Orders(store)
  BY DEF SessionInv, AgentInv, OrderInv
<1>2. /\ entry' = entry /\ history' = history /\ life' = life
      /\ turn[t].pc \in {"hit", "sent"}
  BY DEF HitFails
<1>3. PICK e \in Turns : e = turn[t].entry
  BY <1>1, <1>2 DEF HeldFits
<1>4. turn'[t].pc = "returned" /\ \A u \in Turns \ {t} : turn'[u] = turn[u]
  BY <1>1, ReturnsFits DEF HitFails
<1>5. CASE store' = Removed(store, e) /\ agent' = Released({e})
  <2>1. \A l \in Keys : store.byKey[l] = e => entry[e].key = l
    BY <1>1 DEF MappedFits
  <2>2. /\ Orders(Removed(store, e)) /\ ToSet(Removed(store, e).order) = ToSet(store.order) \ {e}
        /\ \A l \in Keys : Removed(store, e).byKey[l]
                             = IF store.byKey[l] = e THEN None ELSE store.byKey[l]
    BY <1>1, <2>1, RemovedOrders DEF StoreFits
  <2>3. /\ Orders(store') /\ ToSet(store'.order) \subseteq ToSet(store.order)
        /\ \A l \in Keys : store'.byKey[l] = IF store.byKey[l] \in {e} THEN None ELSE store.byKey[l]
    BY <1>5, <2>2
  <2>4. /\ agent' \in [Turns -> {"none", "live", "released"}]
        /\ \A f \in Turns : agent'[f] = "live" => agent[f] = "live" /\ (f \notin {e} \/ Exited(f))
    BY <1>1, <1>5, ReleasedAgents
  <2> QED BY <1>1, <1>2, <1>4, <2>3, <2>4, EntriesDropped
<1>6. CASE store' = store /\ agent' = agent
  <2> DEFINE gone == {}
  <2>1. /\ Orders(store') /\ ToSet(store'.order) \subseteq ToSet(store.order)
        /\ \A l \in Keys : store'.byKey[l] = IF store.byKey[l] \in gone THEN None ELSE store.byKey[l]
        /\ agent' \in [Turns -> {"none", "live", "released"}]
        /\ \A f \in Turns : agent'[f] = "live" => agent[f] = "live" /\ (f \notin gone \/ Exited(f))
    BY <1>1, <1>6
  <2> HIDE DEF gone
  <2> QED BY <1>1, <1>2, <1>4, <2>1, EntriesDropped
<1> QED BY <1>3, <1>5, <1>6 DEF HitFails

LEMMA AgentBridges ==
  ASSUME SessionInv, OrderInv, AgentInv,
         EvictAllSessions \/ \E p \in Processes : StopProcess(p) \/ ProcessExits(p)
  PROVE  OrderInv' /\ AgentInv'
<1>1. /\ entry \in [Turns -> Entry] /\ StoreFits
      /\ agent \in [Turns -> {"none", "live", "released"}]
      /\ life \in [Processes -> {"none", "alive", "stopping", "exited"}]
      /\ Orders(store)
  BY DEF SessionInv, AgentInv, OrderInv
<1>2. turn' = turn /\ entry' = entry /\ history' = history
  BY DEF EvictAllSessions, StopProcess, ProcessExits
<1>3. CASE EvictAllSessions
  <2>1. /\ store' = [byKey |-> [k \in Keys |-> None], order |-> <<>>]
        /\ agent' = Released(ToSet(store.order)) /\ life' = life
    BY <1>3 DEF EvictAllSessions
  <2>2. /\ Orders(store') /\ ToSet(store'.order) \subseteq ToSet(store.order)
        /\ \A k \in Keys :
             store'.byKey[k] = IF store.byKey[k] \in ToSet(store.order) THEN None ELSE store.byKey[k]
    <3>1. <<>> \in Seq(Turns) /\ ToSet(<<>>) = {} /\ IsInjective(<<>>)
      BY DEF ToSet, IsInjective
    <3>2. store'.order = <<>> /\ \A k \in Keys : store'.byKey[k] = None
      BY <2>1
    <3> QED BY <1>1, <3>1, <3>2 DEF Orders
  <2>3. /\ agent' \in [Turns -> {"none", "live", "released"}]
        /\ \A e \in Turns :
             agent'[e] = "live" => agent[e] = "live" /\ (e \notin ToSet(store.order) \/ Exited(e))
    BY <1>1, <2>1, ReleasedAgents
  <2> QED BY <1>1, <1>2, <2>1, <2>2, <2>3, EntriesDropped
<1>4. ASSUME NEW p \in Processes, StopProcess(p)
      PROVE  OrderInv' /\ AgentInv'
  <2> DEFINE victims == {e \in ToSet(store.order) : entry[e].process = p}
  <2>1. /\ store' = [byKey |-> [k \in Keys |->
                                  IF store.byKey[k] \in victims THEN None ELSE store.byKey[k]],
                     order |-> Without(store.order, victims)]
        /\ agent' = Released(victims) /\ life' = [life EXCEPT ![p] = "stopping"]
        /\ life[p] = "alive"
    BY <1>4 DEF StopProcess
  <2> HIDE DEF victims
  <2>2. /\ store'.order = Without(store.order, victims)
        /\ \A k \in Keys :
             store'.byKey[k] = IF store.byKey[k] \in victims THEN None ELSE store.byKey[k]
    BY <2>1
  <2>3. /\ store'.order \in Seq(Turns) /\ IsInjective(store'.order)
        /\ ToSet(store'.order) = ToSet(store.order) \ victims
    BY <1>1, <2>2, WithoutKeeps DEF Orders
  <2>4. Orders(store') /\ ToSet(store'.order) \subseteq ToSet(store.order)
    BY <1>1, <2>2, <2>3 DEF Orders
  <2>5. /\ agent' \in [Turns -> {"none", "live", "released"}]
        /\ \A e \in Turns : agent'[e] = "live" => agent[e] = "live" /\ (e \notin victims \/ Exited(e))
    BY <1>1, <2>1, ReleasedAgents
  <2>6. /\ life' \in [Processes -> {"none", "alive", "stopping", "exited"}]
        /\ \A q \in Processes : life[q] = "exited" => life'[q] = "exited"
    BY <1>1, <2>1
  <2> QED BY <1>2, <2>2, <2>4, <2>5, <2>6, EntriesDropped
<1>5. ASSUME NEW p \in Processes, ProcessExits(p)
      PROVE  OrderInv' /\ AgentInv'
  <2> DEFINE gone == {}
  <2>1. store' = store /\ agent' = agent /\ life' = [life EXCEPT ![p] = "exited"]
    BY <1>5 DEF ProcessExits
  <2>2. /\ Orders(store') /\ ToSet(store'.order) \subseteq ToSet(store.order)
        /\ \A k \in Keys : store'.byKey[k] = IF store.byKey[k] \in gone THEN None ELSE store.byKey[k]
        /\ agent' \in [Turns -> {"none", "live", "released"}]
        /\ \A e \in Turns : agent'[e] = "live" => agent[e] = "live" /\ (e \notin gone \/ Exited(e))
    BY <1>1, <2>1
  <2>3. /\ life' \in [Processes -> {"none", "alive", "stopping", "exited"}]
        /\ \A q \in Processes : life[q] = "exited" => life'[q] = "exited"
    BY <1>1, <2>1
  <2> HIDE DEF gone
  <2> QED BY <1>2, <2>2, <2>3, EntriesDropped
<1> QED BY <1>3, <1>4, <1>5

\* An entry is used again: by the turn that occupies it, or by one that has let it go.
LEMMA EntryTouched ==
  ASSUME SessionInv, OrderInv, AgentInv, NEW t \in Turns, NEW e \in Turns, NEW b \in BOOLEAN,
         turn[e].pc = "returned", entry[e].process \in Processes,
         store' = [store EXCEPT !.order = Touched(@, e)],
         entry' = [entry EXCEPT ![e].inUse = b],
         history' = history, agent' = agent, life' = life,
         turn[t].pc \in {"acquired", "hit"}, \A u \in Turns \ {t} : turn'[u] = turn[u],
         \/ turn'[t].pc = "returned"
         \/ turn'[t].pc = "hit" /\ turn'[t].process = turn[t].process /\ turn'[t].entry = e
  PROVE  OrderInv' /\ AgentInv'
<1>1. /\ entry \in [Turns -> Entry] /\ StoreFits /\ HeldFits /\ Orders(store)
      /\ agent \in [Turns -> {"none", "live", "released"}]
      /\ life \in [Processes -> {"none", "alive", "stopping", "exited"}]
      /\ history \in [Turns -> Seq(Exchanges)] /\ BridgesFit
  BY DEF SessionInv, AgentInv, OrderInv
<1>2. store'.byKey = store.byKey /\ store'.order = Touched(store.order, e)
  BY <1>1 DEF StoreFits
<1>3. /\ store'.order \in Seq(Turns) /\ IsInjective(store'.order)
      /\ ToSet(store'.order) = ToSet(store.order) \cup {e}
  <2>1. /\ Touched(store.order, e) \in Seq(Turns) /\ IsInjective(Touched(store.order, e))
        /\ ToSet(Touched(store.order, e)) = ToSet(store.order) \cup {e}
    BY <1>1, TouchedOrders DEF Orders
  <2> QED BY <1>2, <2>1
<1>4. Orders(store')
  BY <1>1, <1>2, <1>3 DEF Orders
<1>5. OrderInv'
  <2>1. \A f \in ToSet(store'.order) : f \in ToSet(store.order) \/ turn'[f].pc = "returned"
    BY <1>3
  <2> QED BY <1>4, <2>1, OrderStep
<1>6. \A f \in Turns : entry'[f].key = entry[f].key /\ entry'[f].process = entry[f].process
  BY <1>1 DEF Entry
<1>7. \A f \in Turns : Cached(f)' <=> Cached(f)
  BY <1>2, <1>6 DEF Cached
<1>8. BridgesFit'
  <2>1. turn'[t].pc \in {"hit", "sent"} => turn'[t].entry = e
    OBVIOUS
  <2>2. ASSUME NEW u \in Turns \ {t}, turn'[u].pc \in {"hit", "sent"}
        PROVE  turn'[u].entry \in Turns /\ entry[turn'[u].entry].process \in Processes
    BY <1>1, <2>2 DEF HeldFits, BridgesFit
  <2>3. \A u \in Turns : turn'[u].pc \in {"hit", "sent"} =>
          entry'[turn'[u].entry].process \in Processes
    BY <1>6, <2>1, <2>2
  <2>4. \A u \in Turns : turn'[u].pc \notin {"idle", "returned"} => turn'[u].process \in Processes
    BY <1>1 DEF BridgesFit
  <2>5. \A k \in Keys : store'.byKey[k] # None => entry'[store'.byKey[k]].process \in Processes
    BY <1>1, <1>2, <1>6 DEF BridgesFit, StoreFits
  <2> QED BY <2>3, <2>4, <2>5 DEF BridgesFit
<1>9. \A f \in Turns : agent'[f] = "live" =>
        /\ agent[f] = "live" /\ entry'[f].process = entry[f].process
        /\ Cached(f) => Cached(f)'
        /\ turn[f].pc = "created" => turn'[f].pc = "created"
  BY <1>6, <1>7
<1>10. /\ agent' \in [Turns -> {"none", "live", "released"}]
       /\ life' \in [Processes -> {"none", "alive", "stopping", "exited"}]
       /\ history' \in [Turns -> Seq(Exchanges)]
       /\ \A p \in Processes : life[p] = "exited" => life'[p] = "exited"
  BY <1>1
<1>11. AgentInv'
  BY <1>1, <1>8, <1>9, <1>10, LiveStep
<1> QED BY <1>5, <1>11

LEMMA AgentOccupies ==
  ASSUME SessionInv, OrderInv, AgentInv, NEW t \in Turns, Occupies(t)
  PROVE  OrderInv' /\ AgentInv'
<1>1. /\ turn \in [Turns -> Turn] /\ StoreFits /\ MappedFits /\ BridgesFit
  BY DEF SessionInv, AgentInv
<1>2. turn[t].pc = "acquired" /\ Found(t) # None
  BY DEF Occupies, FindsIdle
<1>3. PICK k \in Keys : Found(t) = store.byKey[k]
  BY <1>1, <1>2, FoundKey DEF Found, Turn
<1>4. PICK e \in Turns : e = Found(t)
  BY <1>1, <1>2, <1>3 DEF StoreFits
<1>5. turn[e].pc = "returned" /\ entry[e].process \in Processes
  BY <1>1, <1>2, <1>3, <1>4 DEF MappedFits, BridgesFit
<1>6. /\ entry' = [entry EXCEPT ![e].inUse = TRUE]
      /\ store' = [store EXCEPT !.order = Touched(@, e)]
      /\ turn' = [turn EXCEPT ![t].pc = "hit", ![t].entry = e]
      /\ history' = history /\ agent' = agent /\ life' = life
  BY <1>4 DEF Occupies
<1>7. /\ turn'[t].pc = "hit" /\ turn'[t].process = turn[t].process /\ turn'[t].entry = e
      /\ \A u \in Turns \ {t} : turn'[u] = turn[u]
  BY <1>1, <1>6 DEF Turn
<1> QED BY <1>2, <1>5, <1>6, <1>7, EntryTouched

LEMMA AgentOverBudget ==
  ASSUME SessionInv, OrderInv, AgentInv, NEW t \in Turns, OverBudget(t)
  PROVE  OrderInv' /\ AgentInv'
<1>1. turn \in [Turns -> Turn] /\ HeldFits /\ BridgesFit
  BY DEF SessionInv, AgentInv
<1>2. turn[t].pc = "hit"
  BY DEF OverBudget
<1>3. PICK e \in Turns : e = turn[t].entry
  BY <1>1, <1>2 DEF HeldFits
<1>4. turn[e].pc = "returned" /\ entry[e].process \in Processes
  BY <1>1, <1>2, <1>3 DEF HeldFits, BridgesFit
<1>5. /\ entry' = [entry EXCEPT ![e].inUse = FALSE]
      /\ store' = [store EXCEPT !.order = Touched(@, e)]
      /\ history' = history /\ agent' = agent /\ life' = life
  BY <1>3 DEF OverBudget, Idle
<1>6. turn'[t].pc = "returned" /\ \A u \in Turns \ {t} : turn'[u] = turn[u]
  BY <1>1, ReturnsFits DEF OverBudget
<1> QED BY <1>2, <1>4, <1>5, <1>6, EntryTouched

\* The agent that answered is found under its new key, and the others where they were: but for
\* the one that had this key, which is released.
LEMMA AgentRekey ==
  ASSUME SessionInv, OrderInv, AgentInv, NEW t \in Turns, Rekey(t)
  PROVE  OrderInv' /\ AgentInv'
<1>1. /\ turn \in [Turns -> Turn] /\ entry \in [Turns -> Entry] /\ StoreFits /\ MappedFits
      /\ HeldFits /\ ExclusiveUse /\ Orders(store)
      /\ agent \in [Turns -> {"none", "live", "released"}]
      /\ life \in [Processes -> {"none", "alive", "stopping", "exited"}]
      /\ history \in [Turns -> Seq(Exchanges)] /\ BridgesFit
  BY DEF SessionInv, AgentInv, OrderInv
<1>2. PICK a \in Keys : a = AnswerKey(t)
  BY <1>1, AnswerHasKey
<1>3. turn[t].pc = "sent" /\ history' = history /\ life' = life
  BY DEF Rekey
<1>4. PICK e \in Turns : e = turn[t].entry
  BY <1>1, <1>3 DEF HeldFits
<1> DEFINE unmapped == [store EXCEPT !.byKey = Unmapped(@, e)]
           stolen == unmapped.byKey[a]
           cleared == IF stolen = None THEN unmapped ELSE Removed(unmapped, stolen)
<1>5. /\ store' = [byKey |-> [cleared.byKey EXCEPT ![a] = e],
                   order |-> Touched(cleared.order, e)]
      /\ agent' = Released({stolen})
      /\ entry' = [entry EXCEPT ![e].key = a, ![e].inUse = FALSE]
  BY <1>2, <1>4 DEF Rekey
<1>6. /\ unmapped.byKey \in [Keys -> Turns \cup {None}] /\ unmapped.order = store.order
      /\ \A k \in Keys : unmapped.byKey[k] = IF store.byKey[k] = e THEN None ELSE store.byKey[k]
  BY <1>1 DEF StoreFits, MappedFits, Unmapped
<1> HIDE DEF unmapped
<1>7. Orders(unmapped)
  BY <1>1, <1>6 DEF Orders
<1>8. stolen \in Turns \cup {None}
  BY <1>6
<1>9. /\ Orders(cleared) /\ ToSet(cleared.order) \subseteq ToSet(store.order)
      /\ \A k \in Keys :
           cleared.byKey[k] = IF unmapped.byKey[k] = stolen THEN None ELSE unmapped.byKey[k]
      /\ cleared.byKey \in [Keys -> Turns \cup {None}]
  <2>1. CASE stolen = None
    <3>1. cleared = unmapped
      BY <2>1
    <3> QED BY <1>6, <1>7, <2>1, <3>1
  <2>2. CASE stolen # None
    <3>1. PICK s \in Turns : s = stolen
      BY <1>8, <2>2
    <3>2. \A k \in Keys : unmapped.byKey[k] = s => entry[s].key = k
      BY <1>1, <1>6 DEF MappedFits
    <3>3. /\ Orders(Removed(unmapped, s))
          /\ ToSet(Removed(unmapped, s).order) = ToSet(unmapped.order) \ {s}
          /\ \A k \in Keys : Removed(unmapped, s).byKey[k]
                               = IF unmapped.byKey[k] = s THEN None ELSE unmapped.byKey[k]
      BY <1>6, <1>7, <3>2, RemovedOrders
    <3>4. Removed(unmapped, s).byKey \in [Keys -> Turns \cup {None}]
      BY <1>6, RemovedShrinks DEF Shrinks
    <3>5. cleared = Removed(unmapped, s)
      BY <2>2, <3>1
    <3> QED BY <1>6, <3>1, <3>3, <3>4, <3>5
  <2> QED BY <2>1, <2>2
<1> HIDE DEF cleared
<1>10. /\ store'.byKey[a] = e /\ store'.order = Touched(cleared.order, e)
       /\ \A k \in Keys \ {a} : store'.byKey[k] = cleared.byKey[k]
  BY <1>5, <1>9
<1>11. /\ store'.order \in Seq(Turns) /\ IsInjective(store'.order)
       /\ ToSet(store'.order) = ToSet(cleared.order) \cup {e}
  BY <1>9, <1>10, TouchedOrders DEF Orders
<1>12. Orders(store')
  BY <1>9, <1>10, <1>11 DEF Orders
<1>13. turn'[t].pc = "returned" /\ \A u \in Turns \ {t} : turn'[u] = turn[u]
  BY <1>1, ReturnsFits DEF Rekey
<1>14. turn[e].pc = "returned" /\ entry[e].process \in Processes
  BY <1>1, <1>3, <1>4 DEF HeldFits, BridgesFit
<1>15. OrderInv'
  <2>1. \A f \in ToSet(store'.order) : f \in ToSet(store.order) \/ turn'[f].pc = "returned"
    BY <1>9, <1>11, <1>13, <1>14
  <2>2. \A u \in Turns : turn[u].pc = "returned" => turn'[u].pc = "returned"
    BY <1>13
  <2> QED BY <1>12, <2>1, <2>2, OrderStep
<1>16. /\ entry'[e].key = a /\ entry'[e].process = entry[e].process
       /\ \A f \in Turns \ {e} : entry'[f] = entry[f]
  BY <1>1, <1>5 DEF Entry
<1>17. BridgesFit'
  <2>1. \A f \in Turns : entry'[f].process = entry[f].process
    BY <1>16
  <2>2. \A k \in Keys : store'.byKey[k] \in {store.byKey[k], None, e}
    BY <1>6, <1>9, <1>10
  <2>3. \A u \in Turns : turn'[u].pc \in {"hit", "sent"} =>
          turn'[u] = turn[u] /\ turn[u].entry \in Turns
    BY <1>1, <1>13 DEF HeldFits
  <2>4. ASSUME NEW k \in Keys, store'.byKey[k] # None
        PROVE  entry'[store'.byKey[k]].process \in Processes
    <3>1. CASE store'.byKey[k] = e
      BY <1>14, <1>16, <3>1
    <3>2. CASE store'.byKey[k] # e
      <4>1. store'.byKey[k] = store.byKey[k] /\ store.byKey[k] \in Turns
        BY <1>1, <2>2, <2>4, <3>2 DEF StoreFits
      <4>2. entry[store.byKey[k]].process \in Processes
        BY <1>1, <2>4, <4>1 DEF BridgesFit
      <4> QED BY <2>1, <4>1, <4>2
    <3> QED BY <3>1, <3>2
  <2>5. \A u \in Turns : turn'[u].pc \in {"hit", "sent"} =>
          entry'[turn'[u].entry].process \in Processes
    BY <1>1, <2>1, <2>3 DEF BridgesFit
  <2>6. \A u \in Turns : turn'[u].pc \notin {"idle", "returned"} => turn'[u].process \in Processes
    BY <1>1, <1>13 DEF BridgesFit
  <2> QED BY <2>4, <2>5, <2>6 DEF BridgesFit
<1>18. /\ agent' \in [Turns -> {"none", "live", "released"}]
       /\ \A f \in Turns : agent'[f] = "live" => agent[f] = "live" /\ f # stolen
  <2> HIDE DEF stolen
  <2> QED BY <1>1, <1>5, ReleasedAgents
<1>19. ASSUME NEW f \in Turns, agent'[f] = "live"
       PROVE  \/ Cached(f)'
              \/ /\ agent[f] = "live" /\ entry'[f].process = entry[f].process
                 /\ Cached(f) => Cached(f)'
                 /\ turn[f].pc = "created" => turn'[f].pc = "created"
  <2>1. CASE f = e
    BY <1>10, <1>16, <2>1, KeyAssumption DEF Cached
  <2>2. CASE f # e
    <3>1. ASSUME Cached(f)
          PROVE  Cached(f)'
      <4>1. PICK k \in Keys : k = entry[f].key /\ store.byKey[k] = f
        BY <1>1, <3>1 DEF Cached, Entry
      <4>2. unmapped.byKey[k] = f /\ f # stolen
        BY <1>6, <1>18, <1>19, <2>2, <4>1
      <4>3. k # a
        BY <4>2
      <4>4. store'.byKey[k] = f
        BY <1>9, <1>10, <4>2, <4>3
      <4> QED BY <1>16, <2>2, <3>1, <4>1, <4>4 DEF Cached
    <3>2. f # t \/ turn[f].pc # "created"
      BY <1>3
    <3> QED BY <1>13, <1>16, <1>18, <1>19, <2>2, <3>1, <3>2
  <2> QED BY <2>1, <2>2
<1>20. /\ life' \in [Processes -> {"none", "alive", "stopping", "exited"}]
       /\ history' \in [Turns -> Seq(Exchanges)]
       /\ \A p \in Processes : life[p] = "exited" => life'[p] = "exited"
  BY <1>1, <1>3
<1>21. AgentInv'
  BY <1>1, <1>17, <1>18, <1>19, <1>20, LiveStep
<1> QED BY <1>15, <1>21

\* A new agent is found under its key, unless it is dropped at once; whatever is dropped for it
\* is released.
LEMMA AgentRemember ==
  ASSUME SessionInv, OrderInv, AgentInv, NEW t \in Turns, Remember(t)
  PROVE  OrderInv' /\ AgentInv'
<1>1. /\ turn \in [Turns -> Turn] /\ entry \in [Turns -> Entry] /\ StoreFits /\ MappedFits
      /\ HeldFits /\ Orders(store)
      /\ agent \in [Turns -> {"none", "live", "released"}]
      /\ life \in [Processes -> {"none", "alive", "stopping", "exited"}]
      /\ history \in [Turns -> Seq(Exchanges)] /\ BridgesFit
  BY DEF SessionInv, AgentInv, OrderInv
<1>2. PICK a \in Keys : a = AnswerKey(t)
  BY <1>1, AnswerHasKey
<1>3. turn[t].pc = "created" /\ history' = history /\ life' = life
  BY DEF Remember
<1> DEFINE old == Existing(t)
           idle == IF old = None THEN store ELSE Removed(store, old)
           grown == [byKey |-> [idle.byKey EXCEPT ![a] = t], order |-> Append(idle.order, t)]
<1>4. old = store.byKey[a] /\ old \in Turns \cup {None}
  BY <1>1, <1>2 DEF Existing, StoreFits
<1>5. /\ store' = WithoutOverflow(grown)
      /\ agent' = Released({old} \cup Overflow(grown))
      /\ entry' = [entry EXCEPT ![t] = [key |-> a, process |-> turn[t].process,
                                        inUse |-> FALSE]]
  BY <1>2 DEF Remember
<1> HIDE DEF old
<1>6. /\ Orders(idle) /\ ToSet(idle.order) \subseteq ToSet(store.order)
      /\ \A k \in Keys : idle.byKey[k] = IF store.byKey[k] = old THEN None ELSE store.byKey[k]
      /\ idle.byKey \in [Keys -> Turns \cup {None}]
  <2>1. CASE old = None
    <3>1. idle = store
      BY <2>1
    <3> QED BY <1>1, <2>1, <3>1 DEF StoreFits
  <2>2. CASE old # None
    <3>1. PICK s \in Turns : s = old
      BY <1>4, <2>2
    <3>2. \A k \in Keys : store.byKey[k] = s => entry[s].key = k
      BY <1>1 DEF MappedFits
    <3>3. /\ Orders(Removed(store, s))
          /\ ToSet(Removed(store, s).order) = ToSet(store.order) \ {s}
          /\ \A k \in Keys : Removed(store, s).byKey[k]
                               = IF store.byKey[k] = s THEN None ELSE store.byKey[k]
      BY <1>1, <3>2, RemovedOrders DEF StoreFits
    <3>4. Removed(store, s).byKey \in [Keys -> Turns \cup {None}]
      BY <1>1, RemovedShrinks DEF Shrinks, StoreFits
    <3>5. idle = Removed(store, s)
      BY <2>2, <3>1
    <3> QED BY <3>1, <3>3, <3>4, <3>5
  <2> QED BY <2>1, <2>2
<1> HIDE DEF idle
<1>7. t \notin ToSet(idle.order)
  BY <1>3, <1>6 DEF OrderInv
<1>8. /\ grown.order \in Seq(Turns) /\ IsInjective(grown.order)
      /\ ToSet(grown.order) = ToSet(idle.order) \cup {t}
  BY <1>6, <1>7, AppendSet DEF Orders
<1>9. /\ grown.byKey \in [Keys -> Turns \cup {None}] /\ grown.byKey[a] = t
      /\ \A k \in Keys \ {a} : grown.byKey[k] = idle.byKey[k]
  BY <1>6
<1> HIDE DEF grown
<1>10. Orders(grown)
  BY <1>6, <1>8, <1>9 DEF Orders
<1>11. /\ Orders(store') /\ ToSet(store'.order) = ToSet(grown.order) \ Overflow(grown)
       /\ \A k \in Keys :
            store'.byKey[k] = IF grown.byKey[k] \in Overflow(grown) THEN None ELSE grown.byKey[k]
  BY <1>5, <1>9, <1>10, WithoutOverflowOrders
<1>12. turn'[t].pc = "returned" /\ \A u \in Turns \ {t} : turn'[u] = turn[u]
  BY <1>1, ReturnsFits DEF Remember
<1>13. OrderInv'
  <2>1. \A f \in ToSet(store'.order) : f \in ToSet(store.order) \/ turn'[f].pc = "returned"
    BY <1>6, <1>8, <1>11, <1>12
  <2>2. \A u \in Turns : turn[u].pc = "returned" => turn'[u].pc = "returned"
    BY <1>12
  <2> QED BY <1>11, <2>1, <2>2, OrderStep
<1>14. turn[t].process \in Processes
  BY <1>1, <1>3 DEF BridgesFit
<1>15. /\ entry'[t].key = a /\ entry'[t].process \in Processes
       /\ \A f \in Turns \ {t} : entry'[f] = entry[f]
  BY <1>1, <1>5, <1>14
<1>16. BridgesFit'
  <2>1. \A k \in Keys : store'.byKey[k] \in {store.byKey[k], None, t}
    BY <1>6, <1>9, <1>11
  <2>2. \A u \in Turns : turn'[u].pc \in {"hit", "sent"} =>
          turn'[u] = turn[u] /\ turn[u].entry \in Turns \ {t}
    BY <1>1, <1>3, <1>12 DEF HeldFits
  <2>3. \A k \in Keys : store'.byKey[k] # None => entry'[store'.byKey[k]].process \in Processes
    BY <1>1, <1>15, <2>1 DEF BridgesFit, StoreFits
  <2>4. \A u \in Turns : turn'[u].pc \in {"hit", "sent"} =>
          entry'[turn'[u].entry].process \in Processes
    BY <1>1, <1>15, <2>2 DEF BridgesFit
  <2>5. \A u \in Turns : turn'[u].pc \notin {"idle", "returned"} => turn'[u].process \in Processes
    BY <1>1, <1>12 DEF BridgesFit
  <2> QED BY <2>3, <2>4, <2>5 DEF BridgesFit
<1>17. /\ agent' \in [Turns -> {"none", "live", "released"}]
       /\ \A f \in Turns : agent'[f] = "live" => agent[f] = "live" /\ f # old /\ f \notin Overflow(grown)
  BY <1>1, <1>5, ReleasedAgents
<1>18. ASSUME NEW f \in Turns, agent'[f] = "live"
       PROVE  \/ Cached(f)'
              \/ /\ agent[f] = "live" /\ entry'[f].process = entry[f].process
                 /\ Cached(f) => Cached(f)'
                 /\ turn[f].pc = "created" => turn'[f].pc = "created"
  <2>1. CASE f = t
    <3>1. store'.byKey[a] = t
      BY <1>9, <1>11, <1>17, <1>18, <2>1
    <3> QED BY <1>15, <2>1, <3>1, KeyAssumption DEF Cached
  <2>2. CASE f # t
    <3>1. ASSUME Cached(f)
          PROVE  Cached(f)'
      <4>1. PICK k \in Keys : k = entry[f].key /\ store.byKey[k] = f
        BY <1>1, <3>1 DEF Cached, Entry
      <4>2. f # old /\ k # a
        BY <1>4, <1>17, <1>18, <4>1
      <4>3. store'.byKey[k] = f
        BY <1>6, <1>9, <1>11, <1>17, <1>18, <4>1, <4>2
      <4> QED BY <1>15, <2>2, <3>1, <4>1, <4>3 DEF Cached
    <3> QED BY <1>12, <1>15, <1>17, <1>18, <2>2, <3>1
  <2> QED BY <2>1, <2>2
<1>19. /\ life' \in [Processes -> {"none", "alive", "stopping", "exited"}]
       /\ history' \in [Turns -> Seq(Exchanges)]
       /\ \A p \in Processes : life[p] = "exited" => life'[p] = "exited"
  BY <1>1, <1>3
<1>20. AgentInv'
  BY <1>1, <1>16, <1>17, <1>18, <1>19, LiveStep
<1> QED BY <1>13, <1>20

LEMMA AgentInvInit == SessionInit => OrderInv /\ AgentInv
<1> SUFFICES ASSUME SessionInit
             PROVE  OrderInv /\ AgentInv
  OBVIOUS
<1>1. \A t \in Turns : turn[t].pc = "idle"
  BY DEF SessionInit, NoTurn
<1>2. <<>> \in Seq(Turns) /\ ToSet(<<>>) = {} /\ IsInjective(<<>>)
  BY DEF ToSet, IsInjective
<1>3. store.order = <<>> /\ \A k \in Keys : store.byKey[k] = None
  BY DEF SessionInit
<1>4. OrderInv
  BY <1>2, <1>3 DEF OrderInv, Orders
<1>5. history \in [Turns -> Seq(Exchanges)]
  BY EmptySeq DEF SessionInit
<1>6. BridgesFit /\ LiveIsKept
  BY <1>1, <1>3 DEF SessionInit, BridgesFit, LiveIsKept
<1>7. /\ agent \in [Turns -> {"none", "live", "released"}]
      /\ life \in [Processes -> {"none", "alive", "stopping", "exited"}]
  BY DEF SessionInit
<1> QED BY <1>4, <1>5, <1>6, <1>7 DEF AgentInv

LEMMA AgentInvStep ==
  SessionInv /\ OrderInv /\ AgentInv /\ [SessionNext]_vars => OrderInv' /\ AgentInv'
<1> SUFFICES ASSUME SessionInv, OrderInv, AgentInv, [SessionNext]_vars
             PROVE  OrderInv' /\ AgentInv'
  OBVIOUS
<1>1. ASSUME NEW t \in Turns, TurnStep(t)
      PROVE  OrderInv' /\ AgentInv'
  BY <1>1, AgentQuiet, AgentDrops, AgentOccupies, AgentOverBudget, AgentHitFails, AgentRekey,
     AgentRemember DEF TurnStep
<1>2. CASE UNCHANGED vars
  BY <1>2 DEF vars, OrderInv, Orders, AgentInv, BridgesFit, LiveIsKept, Cached, Exited
<1> QED BY <1>1, <1>2, AgentBridges DEF SessionNext, ServeNext

\* Map, order and use of the entries agree whatever turns, evictions and exits of bridges come
\* between each other, so that what has a key can be evicted and used again, and no agent is left
\* behind in a bridge that runs (rememberSession, rekeySession, releaseSession,
\* evictSessionsForProcess).  Nothing is said of how many there are (CacheIsBounded).
THEOREM CacheStaysConsistent == SessionSpec => []CacheIsConsistent
<1>1. SessionInv /\ OrderInv /\ AgentInv => CacheIsConsistent
  <2> SUFFICES ASSUME SessionInv, OrderInv, AgentInv
               PROVE  CacheIsConsistent
    OBVIOUS
  <2>1. SessionTypeOK
    BY DEF SessionTypeOK, SessionInv, StoreFits, Entry, OrderInv, Orders, AgentInv
  <2>2. CachedIsOrdered
    BY DEF CachedIsOrdered, SessionInv, MappedFits, OrderInv, Orders
  <2>3. OccupiedIsHeld
    BY DEF SessionInv
  <2>4. NoAgentLeaked
    BY DEF NoAgentLeaked, AgentInv, LiveIsKept, Exited
  <2> QED BY <2>1, <2>2, <2>3, <2>4 DEF CacheIsConsistent
<1> QED BY <1>1, AgentInvInit, AgentInvStep, SessionInvAlways, PTL DEF SessionSpec
=============================================================================
