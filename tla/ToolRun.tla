------------------------------ MODULE ToolRun ------------------------------
(***************************************************************************)
(* The tool relay of the cursor plugin (auth-cursor/go/tools.go).          *)
(*                                                                         *)
(* A tool run keeps one upstream Send stream alive across several HTTP     *)
(* turns of a client.  While a turn waits, the bridge calls back into the  *)
(* plugin for every tool the agent wants (CallCustomTool); the callback    *)
(* parks, a timer batches the parked calls into the answer of the turn     *)
(* (announceBatch), and a later HTTP turn brings the results (deliver).    *)
(* Every path that ends a run goes through one teardown (sync.Once).       *)
(*                                                                         *)
(* Goroutines: one per turn (HTTP request), one per callback, the stream   *)
(* reader of each run, the two timers of each run, and the goroutine that  *)
(* runs the teardown.  A step of this module is one critical section of    *)
(* run.mu or of toolRegistry.mu, or one channel operation.                 *)
(***************************************************************************)
EXTENDS Naturals, FiniteSets

CONSTANTS
  Runs,       \* tool runs, each with the agent createAgent made for it
  Turns,      \* HTTP turns (executor requests)
  Calls,      \* CallCustomTool invocations; each one has its own exposed call id
  Deltas,     \* text deltas the bridge may stream
  Processes,  \* bridge processes
  ProcessOf,  \* the bridge process a run lives on
  None        \* Go's nil

ASSUME ConstantsAssumption ==
  /\ None \notin Runs \cup Turns \cup Calls
  /\ ProcessOf \in [Runs -> Processes]

VARIABLES
  run,        \* [Runs -> fields of toolRun guarded by run.mu]
  timedOut,   \* runs whose result timer has fired and has yet to run its function
  announcer,  \* [Runs -> announceBatch between its critical sections]
  reader,     \* [Runs -> readStream goroutine]
  teardown,   \* [Runs -> progress of finishOnce / teardown, and its local variables]
  turn,       \* [Turns -> HTTP turn with its turnWaiter]
  call,       \* [Calls -> CallCustomTool goroutine with its toolCallRecord]
  stopping,   \* runs a quiesce or a bridge stop has snapshotted and will abort
  byAgentID,        \* runs in toolRegistry.byAgentID
  byExposedCallID   \* toolRegistry.byExposedCallID

registry == <<byAgentID, byExposedCallID>>

vars == <<run, timedOut, announcer, reader, teardown, turn, call, stopping, registry>>

-----------------------------------------------------------------------------
(* What the variables hold. *)

Timers == {"batch", "result"}

Run == [finished : BOOLEAN, waiter : Turns \cup {None},
        calls : SUBSET Calls, fresh : SUBSET Calls, announced : SUBSET Calls,
        text : SUBSET Deltas, timers : SUBSET Timers]

AnswerKinds == {"none", "calls", "final", "failed", "timeout", "cancelled", "rejected"}

Answer == [kind : AnswerKinds, batch : SUBSET Calls, text : SUBSET Deltas]

Announcer == [stage : {"idle", "taken", "registered"}, waiter : Turns \cup {None},
              answer : Answer]

ReaderPcs == {"unborn", "starting", "reading", "delta", "failing", "completing", "exited"}

Reader == [pc : ReaderPcs, waiter : Turns \cup {None}, text : SUBSET Deltas, seen : SUBSET Deltas]

Stages == {"none", "marked", "cancelled", "unregistered", "released", "done"}

Teardown == [stage : Stages, waiter : Turns \cup {None}, answer : Answer, releases : Nat]

TurnPcs == {"idle", "fresh", "registered", "attached", "found", "delivering",
            "replying", "detaching", "waiting", "handover",
            "aborting", "failing", "draining", "returned"}

Turn == [pc : TurnPcs, run : Runs \cup {None}, ids : SUBSET Calls,
         answer : Answer, sends : Nat, streamed : SUBSET Deltas,
         waited : BOOLEAN]

CallPcs == {"idle", "found", "parked", "aborting", "answered", "failed"}

Call == [pc : CallPcs, run : Runs \cup {None}, reply : Turns \cup {None}, result : Turns \cup {None}]

\* One type invariant for the whole module.
TypeOK ==
  /\ run \in [Runs -> Run]
  /\ timedOut \in SUBSET Runs
  /\ announcer \in [Runs -> Announcer]
  /\ reader \in [Runs -> Reader]
  /\ teardown \in [Runs -> Teardown]
  /\ turn \in [Turns -> Turn]
  /\ call \in [Calls -> Call]
  /\ stopping \in SUBSET Runs
  /\ byAgentID \in SUBSET Runs
  /\ byExposedCallID \in [Calls -> Runs \cup {None}]

-----------------------------------------------------------------------------
(* Helpers on the values. *)

NoAnswer == [kind |-> "none", batch |-> {}, text |-> {}]

Failure(kind) == [kind |-> kind, batch |-> {}, text |-> {}]

\* scheduleAnnounceLocked: arm the batch timer when a waiter can be answered.
Scheduled(rr) ==
  IF ~rr.finished /\ rr.waiter # None /\ rr.announced = {} /\ rr.fresh # {}
  THEN [rr EXCEPT !.timers = @ \cup {"batch"}]
  ELSE rr

\* Variant: attachWaiter without its check of finished.
MayAttach_Finished(r) == run[r].waiter = None

\* The append of CallCustomTool.
WithCall(rr, c) == Scheduled([rr EXCEPT !.calls = @ \cup {c}, !.fresh = @ \cup {c}])

\* attachWaiter refuses a finished run and a run that already has a waiter.
MayAttach(r) == ~run[r].finished /\ run[r].waiter = None

Attached(rr, q) == Scheduled([rr EXCEPT !.waiter = q])

\* The condition under which announceBatch has a batch and someone to answer.
MayAnnounce(rr) ==
  ~rr.finished /\ rr.waiter # None /\ rr.announced = {} /\ rr.fresh # {}

\* Variants of the next definition: the waiter stays attached; rec.announced is not set;
\* no result timer is armed.
Taken_KeepsWaiter(rr) ==
  [rr EXCEPT !.announced = rr.fresh, !.fresh = {}, !.text = {},
             !.timers = (@ \ {"batch"}) \cup {"result"}]

Taken_KeepsFresh(rr) ==
  [rr EXCEPT !.announced = rr.fresh, !.text = {}, !.waiter = None,
             !.timers = (@ \ {"batch"}) \cup {"result"}]

Taken_NoDeadline(rr) ==
  [rr EXCEPT !.announced = rr.fresh, !.fresh = {}, !.text = {}, !.waiter = None,
             !.timers = @ \ {"batch"}]

\* The first critical section of announceBatch.
Taken(rr) ==
  [rr EXCEPT !.announced = rr.fresh, !.fresh = {}, !.text = {}, !.waiter = None,
             !.timers = (@ \ {"batch"}) \cup {"result"}]

\* Variant: deliver does not reschedule the calls that came in meanwhile.
Delivered_NoSchedule(rr) == [rr EXCEPT !.announced = {}, !.timers = @ \ {"result"}]

\* The successful critical section of deliver.
Delivered(rr) == Scheduled([rr EXCEPT !.announced = {}, !.timers = @ \ {"result"}])

\* Variant: deliver accepts part of the batch.
MayDeliver_Part(r, ids) ==
  /\ ~run[r].finished
  /\ run[r].announced # {}
  /\ ids \subseteq run[r].announced

\* deliver takes exactly the announced batch, all of it at once.
MayDeliver(r, ids) ==
  /\ ~run[r].finished
  /\ run[r].announced # {}
  /\ ids = run[r].announced

\* The critical section of teardown.
Finished(rr) == [rr EXCEPT !.finished = TRUE, !.waiter = None, !.timers = {}]

Owners(ids) == {byExposedCallID[c] : c \in ids} \ {None}

\* Calls a client has been told of, by a turn that has returned.
Known == UNION {turn[q].answer.batch : q \in {p \in Turns : turn[p].pc = "returned"}}

\* Updates of one record, and of the program counter alone.
RunBecomes(r, rr) == run' = [run EXCEPT ![r] = rr]
TurnBecomes(q, t) == turn' = [turn EXCEPT ![q] = t]
CallBecomes(c, k) == call' = [call EXCEPT ![c] = k]
ReaderBecomes(r, v) == reader' = [reader EXCEPT ![r] = v]
AnnouncerBecomes(r, a) == announcer' = [announcer EXCEPT ![r] = a]
TeardownBecomes(r, d) == teardown' = [teardown EXCEPT ![r] = d]

TurnAt(q, pc) == TurnBecomes(q, [turn[q] EXCEPT !.pc = pc])
CallAt(c, pc) == CallBecomes(c, [call[c] EXCEPT !.pc = pc])
ReaderAt(r, pc) == ReaderBecomes(r, [reader[r] EXCEPT !.pc = pc])
TeardownAt(r, stage) == TeardownBecomes(r, [teardown[r] EXCEPT !.stage = stage])

\* A channel send on turnWaiter.done.
Send(q, answer) ==
  TurnBecomes(q, [turn[q] EXCEPT !.answer = answer, !.sends = @ + 1])

\* A turn that leaves with an error of its own making.
Reject(q, kind) ==
  TurnBecomes(q, [turn[q] EXCEPT !.pc = "returned", !.answer = Failure(kind)])

\* sync.Once admits the first abort or complete; teardown then marks the run finished.
Begin(r, answer) ==
  /\ teardown[r].stage = "none"
  /\ RunBecomes(r, Finished(run[r]))
  /\ TeardownBecomes(r, [teardown[r] EXCEPT !.stage = "marked", !.waiter = run[r].waiter,
                                            !.answer = answer])

-----------------------------------------------------------------------------
(* Starting a run: runGenerate and startToolRun.  A failure before            *)
(* registerToolRun (no bridge, bad image, createAgent refused) leaves nothing  *)
(* behind and is not a step.                                                  *)

StartRun(q, r) ==
  /\ turn[q].pc \in {"idle", "fresh"}
  /\ reader[r].pc = "unborn"
  /\ TurnBecomes(q, [turn[q] EXCEPT !.pc = "registered", !.run = r])
  /\ ReaderAt(r, "starting")
  /\ byAgentID' = byAgentID \cup {r}
  /\ UNCHANGED <<run, timedOut, announcer, teardown, call, stopping, byExposedCallID>>

AttachStart(q) ==
  LET r == turn[q].run IN
  /\ turn[q].pc = "registered"
  /\ IF MayAttach(r)
     THEN /\ RunBecomes(r, Attached(run[r], q))
          /\ TurnAt(q, "attached")
     ELSE /\ TurnAt(q, "failing")
          /\ UNCHANGED run
  /\ UNCHANGED <<timedOut, announcer, reader, teardown, call, stopping, registry>>

\* openSend succeeds on a live context and readStream starts.
OpenSend(q) ==
  LET r == turn[q].run IN
  /\ turn[q].pc = "attached"
  /\ teardown[r].stage \in {"none", "marked"}
  /\ TurnAt(q, "waiting")
  /\ ReaderAt(r, "reading")
  /\ UNCHANGED <<run, timedOut, announcer, teardown, call, stopping, registry>>

\* openSend fails; the turn leaves through run.abort.
SendFails(q) ==
  /\ turn[q].pc = "attached"
  /\ TurnAt(q, "failing")
  /\ UNCHANGED <<run, timedOut, announcer, reader, teardown, call, stopping, registry>>

-----------------------------------------------------------------------------
(* Resuming a run: resumeToolRun. *)

\* lookupResumeRun, on the ids of a request's tool results.  A request may always be
\* refused: for a repeated id, for a credential that is not the run's, and, as the second
\* disjunct leaves no other way, for a partial hit and for hits of two runs.
LookupResume(q, ids) ==
  LET hits == {c \in ids : byExposedCallID[c] # None} IN
  /\ turn[q].pc = "idle"
  /\ ids # {}
  /\ \/ /\ hits = {}
        /\ TurnBecomes(q, [turn[q] EXCEPT !.pc = "fresh", !.ids = ids])
     \/ Reject(q, "rejected")
     \/ /\ hits = ids
        /\ \E r \in Owners(ids) :
             /\ Owners(ids) = {r}
             /\ TurnBecomes(q, [turn[q] EXCEPT !.pc = "found", !.ids = ids, !.run = r])
  /\ UNCHANGED <<run, timedOut, announcer, reader, teardown, call, stopping, registry>>

AttachResume(q) ==
  LET r == turn[q].run IN
  /\ turn[q].pc = "found"
  /\ IF MayAttach(r)
     THEN /\ RunBecomes(r, Attached(run[r], q))
          /\ TurnAt(q, "delivering")
     ELSE /\ Reject(q, "rejected")
          /\ UNCHANGED run
  /\ UNCHANGED <<timedOut, announcer, reader, teardown, call, stopping, registry>>

\* deliver, up to the unlock of run.mu.
Deliver(q) ==
  LET r == turn[q].run IN
  /\ turn[q].pc = "delivering"
  /\ IF MayDeliver(r, turn[q].ids)
     THEN /\ RunBecomes(r, Delivered(run[r]))
          /\ TurnAt(q, "replying")
     ELSE /\ TurnAt(q, "detaching")
          /\ UNCHANGED run
  /\ UNCHANGED <<timedOut, announcer, reader, teardown, call, stopping, registry>>

\* deliver, the registry's critical section and the sends to the reply channels (of
\* capacity one, so that none of them blocks).
DeliverReply(q) ==
  /\ turn[q].pc = "replying"
  /\ byExposedCallID' = [c \in Calls |->
       IF c \in turn[q].ids /\ byExposedCallID[c] = turn[q].run
       THEN None ELSE byExposedCallID[c]]
  /\ call' = [c \in Calls |->
       IF c \in turn[q].ids /\ call[c].reply = None
       THEN [call[c] EXCEPT !.reply = q] ELSE call[c]]
  /\ TurnAt(q, "waiting")
  /\ UNCHANGED <<run, timedOut, announcer, reader, teardown, stopping, byAgentID>>

\* detachWaiter after a refused delivery; the turn returns without waitOn.
Detach(q) ==
  LET r == turn[q].run IN
  /\ turn[q].pc = "detaching"
  /\ RunBecomes(r, [run[r] EXCEPT !.waiter = IF @ = q THEN None ELSE @])
  /\ Reject(q, "rejected")
  /\ UNCHANGED <<timedOut, announcer, reader, teardown, call, stopping, registry>>

-----------------------------------------------------------------------------
(* Waiting for the answer: waitOn and await. *)

\* The receive from waiter.done.
ReceiveTurn(q) ==
  /\ turn[q].pc \in {"waiting", "handover"}
  /\ turn[q].answer # NoAnswer
  /\ TurnAt(q, "draining")
  /\ UNCHANGED <<run, timedOut, announcer, reader, teardown, call, stopping, registry>>

\* ctx.Done: the client went away, or a quiesce cancelled the request.  If the waiter
\* was already taken, its answer is on the way and is waited for.
CancelTurn(q) ==
  LET r == turn[q].run IN
  /\ turn[q].pc = "waiting"
  /\ IF run[r].waiter # q
     THEN /\ TurnAt(q, "handover")
          /\ UNCHANGED run
     ELSE /\ TurnBecomes(q, [turn[q] EXCEPT !.pc = "aborting", !.answer = Failure("cancelled")])
          /\ RunBecomes(r, [run[r] EXCEPT !.waiter = None])
  /\ UNCHANGED <<timedOut, announcer, reader, teardown, call, stopping, registry>>

\* run.abort called by the turn itself.
TurnAborts(q) ==
  /\ turn[q].pc \in {"aborting", "failing"}
  /\ Begin(turn[q].run, Failure("failed"))
  /\ UNCHANGED <<timedOut, announcer, reader, turn, call, stopping, registry>>

\* sync.Once.Do returns to a caller only when the teardown is over.
TurnAborted(q) ==
  /\ turn[q].pc \in {"aborting", "failing"}
  /\ teardown[turn[q].run].stage = "done"
  /\ \/ /\ turn[q].pc = "aborting"
        /\ TurnAt(q, "draining")
     \/ /\ turn[q].pc = "failing"
        /\ Reject(q, "failed")
  /\ UNCHANGED <<run, timedOut, announcer, reader, teardown, call, stopping, registry>>

\* Variant: waitOn returns without taking deltaMu.
DeltaMuFree_NotTaken(r) == r \in Runs

\* waitOn takes deltaMu once before it returns.
DeltaMuFree(r) == reader[r].pc # "delta"

ReturnTurn(q) ==
  /\ turn[q].pc = "draining"
  /\ DeltaMuFree(turn[q].run)
  /\ TurnBecomes(q, [turn[q] EXCEPT !.pc = "returned", !.waited = TRUE])
  /\ UNCHANGED <<run, timedOut, announcer, reader, teardown, call, stopping, registry>>

-----------------------------------------------------------------------------
(* Callbacks from the bridge: CallCustomTool. *)

\* The lookup in byAgentID.  The bridge calls back only for an agent it was sent to.
CallLookup(c, r) ==
  /\ call[c].pc = "idle"
  /\ reader[r].pc \notin {"unborn", "starting"}
  /\ CallBecomes(c, [call[c] EXCEPT !.run = r,
                                    !.pc = IF r \in byAgentID THEN "found" ELSE "failed"])
  /\ UNCHANGED <<run, timedOut, announcer, reader, teardown, turn, stopping, registry>>

\* A finished run and an undeclared tool name are refused; the rest park.
CallPark(c) ==
  LET r == call[c].run IN
  /\ call[c].pc = "found"
  /\ \/ /\ ~run[r].finished
        /\ RunBecomes(r, WithCall(run[r], c))
        /\ CallAt(c, "parked")
     \/ /\ CallAt(c, "failed")
        /\ UNCHANGED run
  /\ UNCHANGED <<timedOut, announcer, reader, teardown, turn, stopping, registry>>

\* The three branches of the select the callback parks in.
CallReplied(c) ==
  /\ call[c].pc = "parked"
  /\ call[c].reply # None
  /\ CallBecomes(c, [call[c] EXCEPT !.pc = "answered", !.result = call[c].reply])
  /\ UNCHANGED <<run, timedOut, announcer, reader, teardown, turn, stopping, registry>>

CallCancelled(c) ==
  /\ call[c].pc = "parked"
  /\ CallAt(c, "aborting")
  /\ UNCHANGED <<run, timedOut, announcer, reader, teardown, turn, stopping, registry>>

\* Variant: teardown forgets to cancel the run's context.
CtxDone_Forgotten(r) == r \notin Runs

CtxDone(r) == teardown[r].stage \notin {"none", "marked"}

\* Variant of CallRunDone: the end of the run is taken for a result.
CallRunDone_AsResult(c) ==
  /\ call[c].pc = "parked"
  /\ CtxDone(call[c].run)
  /\ CallAt(c, "answered")
  /\ UNCHANGED <<run, timedOut, announcer, reader, teardown, turn, stopping, registry>>

CallRunDone(c) ==
  /\ call[c].pc = "parked"
  /\ CtxDone(call[c].run)
  /\ CallAt(c, "failed")
  /\ UNCHANGED <<run, timedOut, announcer, reader, teardown, turn, stopping, registry>>

\* run.abort called by a callback whose own context ended.
CallAborts(c) ==
  /\ call[c].pc = "aborting"
  /\ Begin(call[c].run, Failure("failed"))
  /\ UNCHANGED <<timedOut, announcer, reader, turn, call, stopping, registry>>

CallAborted(c) ==
  /\ call[c].pc = "aborting"
  /\ teardown[call[c].run].stage = "done"
  /\ CallAt(c, "failed")
  /\ UNCHANGED <<run, timedOut, announcer, reader, teardown, turn, stopping, registry>>

-----------------------------------------------------------------------------
(* The timers of a run. *)

\* Variant of AnnounceTake: the text is read after it was reset.
AnnounceTake_TextAfterReset(r) ==
  /\ "batch" \in run[r].timers
  /\ IF MayAnnounce(run[r])
     THEN /\ RunBecomes(r, Taken(run[r]))
          /\ AnnouncerBecomes(r,
               [stage |-> "taken", waiter |-> run[r].waiter,
                answer |-> [kind |-> "calls", batch |-> run[r].fresh, text |-> {}]])
     ELSE /\ RunBecomes(r, [run[r] EXCEPT !.timers = @ \ {"batch"}])
          /\ UNCHANGED announcer
  /\ UNCHANGED <<timedOut, reader, teardown, turn, call, stopping, registry>>

\* announceBatch, the critical section of run.mu.  The function checks everything again,
\* so a firing that Stop missed does nothing more than one that is still armed would.
AnnounceTake(r) ==
  /\ "batch" \in run[r].timers
  /\ IF MayAnnounce(run[r])
     THEN /\ RunBecomes(r, Taken(run[r]))
          /\ AnnouncerBecomes(r,
               [stage |-> "taken", waiter |-> run[r].waiter,
                answer |-> [kind |-> "calls", batch |-> run[r].fresh, text |-> run[r].text]])
     ELSE /\ RunBecomes(r, [run[r] EXCEPT !.timers = @ \ {"batch"}])
          /\ UNCHANGED announcer
  /\ UNCHANGED <<timedOut, reader, teardown, turn, call, stopping, registry>>

\* announceBatch, the critical section of the registry.
AnnounceRegister(r) ==
  /\ announcer[r].stage = "taken"
  /\ byExposedCallID' = [c \in Calls |->
       IF c \in announcer[r].answer.batch THEN r ELSE byExposedCallID[c]]
  /\ AnnouncerBecomes(r, [announcer[r] EXCEPT !.stage = "registered"])
  /\ UNCHANGED <<run, timedOut, reader, teardown, turn, call, stopping, byAgentID>>

\* Variant of AnnounceAnswer: the turn may be answered before the ids are registered.
AnnounceAnswer_BeforeRegister(r) ==
  /\ announcer[r].stage # "idle"
  /\ Send(announcer[r].waiter, announcer[r].answer)
  /\ AnnouncerBecomes(r, [announcer[r] EXCEPT !.stage = "idle"])
  /\ UNCHANGED <<run, timedOut, reader, teardown, call, stopping, registry>>

\* announceBatch, the send to waiter.done.
AnnounceAnswer(r) ==
  /\ announcer[r].stage = "registered"
  /\ Send(announcer[r].waiter, announcer[r].answer)
  /\ AnnouncerBecomes(r, [announcer[r] EXCEPT !.stage = "idle"])
  /\ UNCHANGED <<run, timedOut, reader, teardown, call, stopping, registry>>

\* The result timer fires.  From here on Stop comes too late: deliver cannot hold back
\* the abort any more.
ResultTimerFires(r) ==
  /\ "result" \in run[r].timers
  /\ RunBecomes(r, [run[r] EXCEPT !.timers = @ \ {"result"}])
  /\ timedOut' = timedOut \cup {r}
  /\ UNCHANGED <<announcer, reader, teardown, turn, call, stopping, registry>>

TimeoutAborts(r) ==
  /\ r \in timedOut
  /\ Begin(r, Failure("timeout"))
  /\ timedOut' = timedOut \ {r}
  /\ UNCHANGED <<announcer, reader, turn, call, stopping, registry>>

-----------------------------------------------------------------------------
(* The stream reader: readStream. *)

\* A text delta.  Without a waiter it is dropped; otherwise it is recorded and
\* handed to the waiter's onDelta, with deltaMu held.
ReadDelta(r, d) ==
  LET q == run[r].waiter IN
  /\ reader[r].pc = "reading"
  /\ d \notin reader[r].seen
  /\ IF q = None
     THEN /\ ReaderBecomes(r, [reader[r] EXCEPT !.seen = @ \cup {d}])
          /\ UNCHANGED <<run, turn>>
     ELSE /\ RunBecomes(r, [run[r] EXCEPT !.text = @ \cup {d}])
          /\ TurnBecomes(q, [turn[q] EXCEPT !.streamed = @ \cup {d}])
          /\ ReaderBecomes(r, [reader[r] EXCEPT !.seen = @ \cup {d}, !.pc = "delta",
                                                !.waiter = q])
  /\ UNCHANGED <<timedOut, announcer, teardown, call, stopping, registry>>

\* onDelta returns, possibly with an error that ends the run.
DeltaDone(r) ==
  /\ reader[r].pc = "delta"
  /\ \E pc \in {"reading", "failing"} :
       ReaderBecomes(r, [reader[r] EXCEPT !.pc = pc, !.waiter = None])
  /\ UNCHANGED <<run, timedOut, announcer, teardown, turn, call, stopping, registry>>

\* Receive returns false: with a FINISHED result, or with an error, without a result
\* or with another status.
StreamEnds(r) ==
  /\ reader[r].pc = "reading"
  /\ \E pc \in {"completing", "failing"} :
       ReaderBecomes(r, [reader[r] EXCEPT !.pc = pc, !.text = run[r].text])
  /\ UNCHANGED <<run, timedOut, announcer, teardown, turn, call, stopping, registry>>

ReaderEndsRun(r) ==
  /\ \/ /\ reader[r].pc = "failing"
        /\ Begin(r, Failure("failed"))
     \/ /\ reader[r].pc = "completing"
        /\ Begin(r, [kind |-> "final", batch |-> {}, text |-> reader[r].text])
  /\ UNCHANGED <<timedOut, announcer, reader, turn, call, stopping, registry>>

ReaderExits(r) ==
  /\ reader[r].pc \in {"failing", "completing"}
  /\ teardown[r].stage = "done"
  /\ ReaderAt(r, "exited")
  /\ UNCHANGED <<run, timedOut, announcer, teardown, turn, call, stopping, registry>>

-----------------------------------------------------------------------------
(* teardown after its first critical section, one step per call it makes. *)

TeardownCancel(r) ==
  /\ teardown[r].stage = "marked"
  /\ TeardownAt(r, "cancelled")
  /\ UNCHANGED <<run, timedOut, announcer, reader, turn, call, stopping, registry>>

TeardownUnregister(r) ==
  /\ teardown[r].stage = "cancelled"
  /\ TeardownAt(r, "unregistered")
  /\ byAgentID' = byAgentID \ {r}
  /\ byExposedCallID' = [c \in Calls |->
       IF c \in run[r].calls /\ byExposedCallID[c] = r THEN None ELSE byExposedCallID[c]]
  /\ UNCHANGED <<run, timedOut, announcer, reader, turn, call, stopping>>

\* cancelRun, stream.Close and releaseAgent.
TeardownRelease(r) ==
  /\ teardown[r].stage = "unregistered"
  /\ TeardownBecomes(r, [teardown[r] EXCEPT !.stage = "released", !.releases = @ + 1])
  /\ UNCHANGED <<run, timedOut, announcer, reader, turn, call, stopping, registry>>

\* Variants of TeardownAnswer: the waiter hears before the agent is released; the waiter
\* is forgotten.
TeardownAnswer_BeforeRelease(r) ==
  /\ teardown[r].stage \in {"unregistered", "released"}
  /\ TeardownAt(r, "done")
  /\ IF teardown[r].waiter = None
     THEN UNCHANGED turn
     ELSE Send(teardown[r].waiter, teardown[r].answer)
  /\ UNCHANGED <<run, timedOut, announcer, reader, call, stopping, registry>>

TeardownAnswer_Silent(r) ==
  /\ teardown[r].stage = "released"
  /\ TeardownAt(r, "done")
  /\ UNCHANGED <<run, timedOut, announcer, reader, turn, call, stopping, registry>>

TeardownAnswer(r) ==
  /\ teardown[r].stage = "released"
  /\ TeardownAt(r, "done")
  /\ IF teardown[r].waiter = None
     THEN UNCHANGED turn
     ELSE Send(teardown[r].waiter, teardown[r].answer)
  /\ UNCHANGED <<run, timedOut, announcer, reader, call, stopping, registry>>

-----------------------------------------------------------------------------
(* Aborts from outside: a quiesce aborts every registered run, a bridge that   *)
(* stops aborts its own.  Both work from a snapshot of the registry.           *)

AbortParkedToolRuns ==
  /\ ~(byAgentID \subseteq stopping)
  /\ stopping' = stopping \cup byAgentID
  /\ UNCHANGED <<run, timedOut, announcer, reader, teardown, turn, call, registry>>

FailToolRunsForProcess(p) ==
  LET mine == {r \in byAgentID : ProcessOf[r] = p} IN
  /\ ~(mine \subseteq stopping)
  /\ stopping' = stopping \cup mine
  /\ UNCHANGED <<run, timedOut, announcer, reader, teardown, turn, call, registry>>

\* Variant of StopperAborts: only parked runs are aborted, not those with a turn waiting.
StopperAborts_ParkedOnly(r) ==
  /\ r \in stopping
  /\ run[r].waiter = None
  /\ Begin(r, Failure("failed"))
  /\ UNCHANGED <<timedOut, announcer, reader, turn, call, stopping, registry>>

StopperAborts(r) ==
  /\ r \in stopping
  /\ Begin(r, Failure("failed"))
  /\ UNCHANGED <<timedOut, announcer, reader, turn, call, stopping, registry>>

-----------------------------------------------------------------------------
(* The specification. *)

Init ==
  /\ run = [r \in Runs |->
       [finished |-> FALSE, waiter |-> None, calls |-> {}, fresh |-> {}, announced |-> {},
        text |-> {}, timers |-> {}]]
  /\ timedOut = {}
  /\ announcer = [r \in Runs |-> [stage |-> "idle", waiter |-> None, answer |-> NoAnswer]]
  /\ reader = [r \in Runs |-> [pc |-> "unborn", waiter |-> None, text |-> {}, seen |-> {}]]
  /\ teardown = [r \in Runs |->
       [stage |-> "none", waiter |-> None, answer |-> NoAnswer, releases |-> 0]]
  /\ turn = [q \in Turns |->
       [pc |-> "idle", run |-> None, ids |-> {}, answer |-> NoAnswer, sends |-> 0,
        streamed |-> {}, waited |-> FALSE]]
  /\ call = [c \in Calls |-> [pc |-> "idle", run |-> None, reply |-> None, result |-> None]]
  /\ stopping = {}
  /\ byAgentID = {}
  /\ byExposedCallID = [c \in Calls |-> None]

\* The steps of one turn once its request is there, without those of its peers.
TurnStep(q) ==
  \/ AttachStart(q) \/ OpenSend(q) \/ SendFails(q)
  \/ AttachResume(q) \/ Deliver(q) \/ DeliverReply(q) \/ Detach(q)
  \/ ReceiveTurn(q) \/ TurnAborts(q) \/ TurnAborted(q) \/ ReturnTurn(q)

CallStep(c) ==
  \/ CallPark(c) \/ CallReplied(c) \/ CallRunDone(c) \/ CallAborts(c) \/ CallAborted(c)

TeardownStep(r) ==
  \/ TeardownCancel(r) \/ TeardownUnregister(r) \/ TeardownRelease(r) \/ TeardownAnswer(r)

RunStep(r) ==
  \/ AnnounceTake(r) \/ AnnounceRegister(r) \/ AnnounceAnswer(r)
  \/ ResultTimerFires(r) \/ TimeoutAborts(r)
  \/ DeltaDone(r) \/ ReaderEndsRun(r) \/ ReaderExits(r)
  \/ TeardownStep(r) \/ StopperAborts(r)

\* What clients, the bridge and the host may do, and need not.
ClientStep(q) ==
  \/ \E r \in Runs : StartRun(q, r)
  \/ \E ids \in SUBSET Known : LookupResume(q, ids)
  \/ CancelTurn(q)

BridgeStep ==
  \/ \E c \in Calls, r \in Runs : CallLookup(c, r)
  \/ \E c \in Calls : CallCancelled(c)
  \/ \E r \in Runs, d \in Deltas : ReadDelta(r, d)
  \/ \E r \in Runs : StreamEnds(r)
  \/ AbortParkedToolRuns
  \/ \E p \in Processes : FailToolRunsForProcess(p)

Next ==
  \/ \E q \in Turns : TurnStep(q) \/ ClientStep(q)
  \/ \E c \in Calls : CallStep(c)
  \/ \E r \in Runs : RunStep(r)
  \/ BridgeStep

Spec == Init /\ [][Next]_vars

\* Go schedules every goroutine and timers fire; nothing is assumed of the client, and
\* of the bridge only that a Send call and an onDelta return.
Fairness ==
  /\ \A q \in Turns : WF_vars(TurnStep(q))
  /\ \A c \in Calls : WF_vars(CallStep(c))
  /\ \A r \in Runs : WF_vars(RunStep(r))

FairSpec == Spec /\ Fairness

-----------------------------------------------------------------------------
(* Safety. *)

\* A turn is answered at most once, whichever of the batch timer, the end of the
\* stream, an abort and a timeout get to its waiter: the channel holds one answer
\* (attachWaiter, tools.go) and a second send would have no receiver.
AnsweredOnce == \A q \in Turns : turn[q].sends <= 1

\* A call id a client holds and may answer always leads back to its run: the registry
\* has it before the client can have it, for as long as the run expects the result.
IdsResolve ==
  \A q \in Turns, r \in Runs :
    (turn[q].answer.kind = "calls" /\ teardown[r].stage \in {"none", "marked"}) =>
      \A c \in turn[q].answer.batch \cap run[r].announced : byExposedCallID[c] = r

\* A call reaches the client in one turn only, so that a client never runs a tool twice.
CallToldOnce ==
  \A q, p \in Turns : q # p => turn[q].answer.batch \cap turn[p].answer.batch = {}

\* A result reaches a callback only together with those of the whole batch some turn
\* announced, and from a turn of the callback's own run.
WholeBatchDelivered ==
  \A c \in Calls : call[c].reply # None =>
    LET q == call[c].reply IN
    /\ turn[q].run = call[c].run
    /\ \E p \in Turns : turn[p].pc = "returned" /\ turn[p].answer.batch = turn[q].ids
    /\ \A b \in turn[q].ids : call[b].reply = q

\* A batch is told once and answered as a whole: no tool runs twice, and none is left with the
\* callbacks of its batch answered in part.
BatchesAreWhole == CallToldOnce /\ WholeBatchDelivered

\* No delta callback is running for a turn that waitOn has returned: the caller may use
\* what onDelta wrote.
NoDeltaAfterWait ==
  \A r \in Runs : reader[r].pc = "delta" => ~turn[reader[r].waiter].waited

\* Everything streamed to a turn is in the text of its answer.
StreamedTextAnswered ==
  \A q \in Turns : turn[q].answer.kind \in {"calls", "final"} =>
    turn[q].streamed \subseteq turn[q].answer.text

\* A turn hears what is streamed to it before it returns, has all of it in its answer, and
\* hears nothing later.
DeltasEndWithTurn == NoDeltaAfterWait /\ StreamedTextAnswered

\* A turn that returns because its run ended, or that ended it, leaves nothing of it: the
\* run is out of byAgentID and its agent was released, once.
EndedTurnLeavesNoRun ==
  \A q \in Turns :
    (turn[q].pc = "returned" /\ turn[q].answer.kind \in {"final", "failed", "timeout", "cancelled"})
      => /\ turn[q].run \notin byAgentID
         /\ teardown[turn[q].run].releases = 1

\* A finished run has no waiter to leave hanging and no timer to fire.
FinishedRunIsQuiet ==
  \A r \in Runs : run[r].finished => run[r].waiter = None /\ run[r].timers = {}

\* No wake-up is lost: whenever a turn waits and calls are ready for it, the batch timer
\* is armed.
NoLostBatch ==
  \A r \in Runs : MayAnnounce(run[r]) => "batch" \in run[r].timers

\* Calls a client owes results for are on a deadline: they cannot park a callback, a
\* stream and an agent for good.
ParkedRunHasDeadline ==
  \A r \in Runs : (~run[r].finished /\ run[r].announced # {}) =>
    "result" \in run[r].timers \/ r \in timedOut

\* The timers of a run are those that what it waits for needs: the batch timer for a turn with
\* ready calls, the result timer for a client that owes results, none for a finished run.
TimersFit == FinishedRunIsQuiet /\ NoLostBatch /\ ParkedRunHasDeadline

(* Liveness. *)

\* Every callback the plugin has parked returns, without any help of client or bridge.
CallbackReturns ==
  \A c \in Calls : call[c].pc = "parked" ~> call[c].pc \in {"answered", "failed"}

\* Every run that a quiesce or the stop of its bridge found registered is torn down, turns
\* waiting or not, and whatever the bridge does.
StoppedRunsEnd ==
  \A r \in Runs : r \in stopping ~> teardown[r].stage = "done"

\* The bridge ends every stream it has opened.
StreamsEnd == \A r \in Runs : WF_vars(StreamEnds(r))

\* Every turn returns, provided the bridge ends its streams.
TurnReturns ==
  StreamsEnd => \A q \in Turns : turn[q].pc # "idle" ~> turn[q].pc \in {"fresh", "returned"}

\* Neither a turn of a client nor a callback of the bridge waits for ever.
NobodyWaitsForever == TurnReturns /\ CallbackReturns

(* What a test expects, and some interleaving refutes. *)

\* tools_test.go:310: the registry never holds a finished run once its teardown is over
\* and no announcement of it is under way.
RegistryHoldsNoFinishedRun ==
  \A r \in Runs : (teardown[r].stage = "done" /\ announcer[r].stage = "idle") =>
    \A c \in Calls : byExposedCallID[c] # r

-----------------------------------------------------------------------------
(* The relay refines the promise made for each call. *)

CallState(c) ==
  CASE call[c].pc \in {"idle", "found"}      -> "idle"
    [] call[c].pc \in {"parked", "aborting"} -> "open"
    [] OTHER                                 -> call[c].pc

\* Turns that have received a batch of calls for their client.
Told ==
  {q \in Turns : turn[q].pc \in {"draining", "returned"} /\ turn[q].answer.kind = "calls"}

Relay == INSTANCE CallRelay WITH
  state     <- [c \in Calls |-> CallState(c)],
  told      <- {turn[q].answer.batch : q \in Told},
  delivered <- {c \in Calls : call[c].reply # None}

\* The tool relay implements CallRelay.
RelayRefined == Relay!RelaySpec

=============================================================================
