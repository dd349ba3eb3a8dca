--------------------------- MODULE CursorRequest ---------------------------
(***************************************************************************)
(* Requests of the Cursor plugin from the host's call to the host's answer *)
(* (auth-cursor/go: executor.go, inflight.go and, in generate.go,          *)
(* runOneShot, sendAndConsume, consumeRunStream, cancelRun).               *)
(*                                                                         *)
(* A request without tools has an agent of its own or one a session kept,  *)
(* sends its prompt and reads the run's stream.  A request with tools is a *)
(* turn of the tool relay, of which only the answer matters here (ToolRun).*)
(* Which session is hit and under which key it is kept is SessionCache.    *)
(*                                                                         *)
(* A step is one call to the bridge or the host, one message of the run's  *)
(* stream, or one critical section of inFlight.mu.  "agent" and "run" are  *)
(* the bridge's: what it was asked for, and what it still executes.        *)
(***************************************************************************)
EXTENDS Integers, SequencesExt

CONSTANTS
  Requests,
  MaxDeltas,  \* bound: text deltas of one run
  MaxCalls    \* bound: tool calls in one answer of the tool relay

ASSUME CursorAssumption == MaxDeltas \in Nat /\ MaxCalls \in Nat

VARIABLES
  req,        \* [Requests -> the call of execute or the goroutine of executeStream]
  bridge,     \* [Requests -> the request's agent and run, as the bridge has them]
  got,        \* [Requests -> the chunks the host took, in order]
  inFlight,   \* inFlight.cancels
  snapshot,   \* requests whose cancel function a quiesce has copied and not yet called
  cancelled   \* requests whose context a quiesce has cancelled

cursorVars == <<req, bridge, got, inFlight, snapshot, cancelled>>

Pcs == {"idle", "acquiring", "preparing", "creating", "sending", "reviving", "resending",
        "consuming", "delta", "cancelling", "releasing", "keeping", "turn", "turnDelta",
        "answering", "terminating", "closing", "leaving", "ended"}

\* "hit": the agent is a session's.  "runID": a message of the run was read.
\* "result": the terminal result.  "calls": tool calls of the answer still to be emitted.
\* "outcome" is what runGenerate and the forwarder come to, "told" what the host was told.
Request == [pc : Pcs, kind : {"unary", "stream"}, framed : BOOLEAN, tools : BOOLEAN,
            hit : BOOLEAN, runID : BOOLEAN, result : {"none", "finished", "failed"},
            roleSent : BOOLEAN, calls : 0..MaxCalls, toolCalls : BOOLEAN,
            outcome : {"none", "complete", "error"}, told : {"none", "complete", "error"}]

Bridge == [agent : {"none", "open", "kept", "closed"}, run : {"none", "running", "over"},
           cancel : BOOLEAN, deltas : 0..MaxDeltas]

Chunk == [role : BOOLEAN, kind : {"delta", "call", "finish", "done"}, number : Nat]

CursorTypeOK ==
  /\ req \in [Requests -> Request]
  /\ bridge \in [Requests -> Bridge]
  /\ got \in [Requests -> Seq(Chunk)]
  /\ inFlight \in SUBSET Requests
  /\ snapshot \in SUBSET Requests
  /\ cancelled \in SUBSET Requests

ReqBecomes(r, value) == req' = [req EXCEPT ![r] = value]

ReqAt(r, pc) == ReqBecomes(r, [req[r] EXCEPT !.pc = pc])

BridgeBecomes(r, value) == bridge' = [bridge EXCEPT ![r] = value]

OnlyReq == UNCHANGED <<bridge, got, inFlight, snapshot, cancelled>>

OnlyReqAndBridge == UNCHANGED <<got, inFlight, snapshot, cancelled>>

-----------------------------------------------------------------------------
(* runOneShot up to the Send *)

New(kind, framed, tools) ==
  [pc |-> "acquiring", kind |-> kind, framed |-> framed, tools |-> tools, hit |-> FALSE,
   runID |-> FALSE, result |-> "none", roleSent |-> FALSE, calls |-> 0, toolCalls |-> FALSE,
   outcome |-> "none", told |-> "none"]

\* execute or executeStream has built the request.
Accept(r, kind, framed, tools) ==
  /\ req[r].pc = "idle"
  /\ ReqBecomes(r, New(kind, framed, tools))
  /\ inFlight' = inFlight \cup {r}
  /\ UNCHANGED <<bridge, got, snapshot, cancelled>>

\* runGenerate returns an error; a stream's is only the text it is closed with.
Failed(r) == ReqBecomes(r, [req[r] EXCEPT !.pc = "closing", !.outcome = "error"])

\* acquireBridge; then occupySession finds an agent or does not.
Acquire(r, hit) ==
  /\ req[r].pc = "acquiring"
  /\ hit => ~req[r].tools
  /\ ReqBecomes(r, [req[r] EXCEPT !.pc = IF req[r].tools THEN "turn" ELSE "preparing",
                                  !.hit = hit])
  /\ BridgeBecomes(r, [bridge[r] EXCEPT !.agent = IF hit THEN "open" ELSE "none"])
  /\ OnlyReqAndBridge

AcquireFails(r) ==
  /\ req[r].pc = "acquiring"
  /\ Failed(r)
  /\ OnlyReq

\* checkPromptBudget refuses: a session's agent has seen nothing and is put back.
OverBudget(r) ==
  /\ req[r].pc = "preparing"
  /\ Failed(r)
  /\ BridgeBecomes(r, [bridge[r] EXCEPT !.agent = IF req[r].hit THEN "kept" ELSE "none"])
  /\ OnlyReqAndBridge

\* buildSdkImages fails.
ImagesFail(r) ==
  /\ req[r].pc = "preparing"
  /\ Failed(r)
  /\ BridgeBecomes(r, [bridge[r] EXCEPT !.agent = IF req[r].hit THEN "closed" ELSE "none"])
  /\ OnlyReqAndBridge

Prepared(r) ==
  /\ req[r].pc = "preparing"
  /\ ReqAt(r, IF req[r].hit THEN "sending" ELSE "creating")
  /\ OnlyReq

CreateAgent(r) ==
  /\ req[r].pc = "creating"
  /\ ReqAt(r, "sending")
  /\ BridgeBecomes(r, [bridge[r] EXCEPT !.agent = "open"])
  /\ OnlyReqAndBridge

CreateFails(r) ==
  /\ req[r].pc = "creating"
  /\ Failed(r)
  /\ OnlyReq

\* openSend, the first time or after ResumeAgent: the run starts.
OpenSend(r) ==
  /\ req[r].pc \in {"sending", "resending"}
  /\ ReqAt(r, "consuming")
  /\ BridgeBecomes(r, [bridge[r] EXCEPT !.run = "running"])
  /\ OnlyReqAndBridge

\* openSend fails with isAgentNotFound: once, the agent is resumed.
AgentNotFound(r) ==
  /\ req[r].pc = "sending"
  /\ ReqAt(r, "reviving")
  /\ OnlyReq

ResumeAgent(r) ==
  /\ req[r].pc = "reviving"
  /\ ReqAt(r, "resending")
  /\ OnlyReq

\* Variant: the agent is forgotten.
SendFails_Forgets(r) ==
  /\ req[r].pc \in {"sending", "reviving", "resending"}
  /\ Failed(r)
  /\ OnlyReq

SendFails(r) ==
  /\ req[r].pc \in {"sending", "reviving", "resending"}
  /\ ReqAt(r, "releasing")
  /\ OnlyReq

-----------------------------------------------------------------------------
(* consumeRunStream *)

\* A message that carries the run's id and nothing that matters here.
ReceiveRunID(r) ==
  /\ req[r].pc = "consuming" /\ req[r].result = "none"
  /\ ReqBecomes(r, [req[r] EXCEPT !.runID = TRUE])
  /\ OnlyReq

\* A text delta; deltas are only asked for by a stream.
ReceiveDelta(r) ==
  /\ req[r].pc \in {"consuming", "turn"} /\ req[r].result = "none"
  /\ req[r].kind = "stream" /\ bridge[r].deltas < MaxDeltas
  /\ ReqAt(r, IF req[r].tools THEN "turnDelta" ELSE "delta")
  /\ BridgeBecomes(r, [bridge[r] EXCEPT !.deltas = bridge[r].deltas + 1])
  /\ OnlyReqAndBridge

\* The terminal result: the run is over at the bridge.  It repeats the run's id.
ReceiveResult(r, status) ==
  /\ req[r].pc = "consuming" /\ req[r].result = "none"
  /\ ReqBecomes(r, [req[r] EXCEPT !.result = status, !.runID = TRUE])
  /\ BridgeBecomes(r, [bridge[r] EXCEPT !.run = "over"])
  /\ OnlyReqAndBridge

\* cancelRun can do nothing without the run's id.
AfterLoss(r) == IF req[r].runID THEN "cancelling" ELSE "releasing"

\* stream.Err: the answer is lost; without a terminal result the run is cancelled.
StreamBreaks(r) ==
  /\ req[r].pc = "consuming"
  /\ ReqAt(r, IF req[r].result = "none" THEN AfterLoss(r) ELSE "releasing")
  /\ OnlyReq

\* The stream is over.
StreamCloses(r) ==
  /\ req[r].pc = "consuming"
  /\ ReqAt(r, IF req[r].result = "finished" THEN "keeping" ELSE "releasing")
  /\ OnlyReq

\* CancelRun, on a context of its own: asked, whatever becomes of it.
CancelRun(r) ==
  /\ req[r].pc = "cancelling"
  /\ ReqAt(r, "releasing")
  /\ BridgeBecomes(r, [bridge[r] EXCEPT !.cancel = TRUE])
  /\ OnlyReqAndBridge

\* Variant: a session survives a failed turn.
LetGo_Keep(r) == IF req[r].hit THEN "kept" ELSE "closed"

LetGo(r) == "closed"

\* releaseAgent, or releaseSession of an entry that is not kept.
Release(r) ==
  /\ req[r].pc = "releasing"
  /\ Failed(r)
  /\ BridgeBecomes(r, [bridge[r] EXCEPT !.agent = LetGo(r)])
  /\ OnlyReqAndBridge

\* rekeySession; or rememberSession, which may refuse, and then releaseAgent.
Keep(r, agent) ==
  /\ req[r].pc = "keeping"
  /\ req[r].hit => agent = "kept"
  /\ ReqAt(r, "answering")
  /\ BridgeBecomes(r, [bridge[r] EXCEPT !.agent = agent])
  /\ OnlyReqAndBridge

\* A turn of the tool relay answers with tool calls, or with the end of its run.
TurnAnswers(r, calls) ==
  /\ req[r].pc = "turn"
  /\ ReqBecomes(r, [req[r] EXCEPT !.pc = "answering", !.calls = calls, !.toolCalls = calls > 0])
  /\ OnlyReq

TurnFails(r) ==
  /\ req[r].pc = "turn"
  /\ Failed(r)
  /\ OnlyReq

\* Variant: a cancelled context is not noticed while a stream is read.
Interruptible_NotReading ==
  {"preparing", "creating", "sending", "reviving", "resending", "turn"}

\* Where the request's context is looked at: RPCs, downloads, the stream, a turn's wait.
Interruptible == Interruptible_NotReading \cup {"consuming"}

\* The context is cancelled: what is under way fails as it would for another reason.
CtxDone(r) ==
  /\ r \in cancelled
  /\ req[r].pc \in Interruptible
  /\ \/ ImagesFail(r) \/ CreateFails(r) \/ SendFails(r) \/ StreamBreaks(r) \/ TurnFails(r)

-----------------------------------------------------------------------------
(* forwardStream *)

\* The host takes a chunk, or refuses it.
Emit(r, kind, number) ==
  got' = [got EXCEPT ![r] = Append(got[r],
    [role |-> ~req[r].roleSent /\ kind \in {"delta", "call"}, kind |-> kind, number |-> number])]

\* Variant: every chunk with content has the role.
RoleSent_Never(r) == req[r].roleSent

RoleSent(r) == TRUE

OnlyReqAndGot == UNCHANGED <<bridge, inFlight, snapshot, cancelled>>

\* onDelta, called from consumeRunStream or from the tool relay.
DeltaTaken(r) ==
  /\ req[r].pc \in {"delta", "turnDelta"}
  /\ ReqBecomes(r, [req[r] EXCEPT !.pc = IF req[r].tools THEN "turn" ELSE "consuming",
                                  !.roleSent = RoleSent(r)])
  /\ Emit(r, "delta", bridge[r].deltas)
  /\ OnlyReqAndGot

\* Variant: a chunk the host refuses is skipped.
DeltaRefused_Skips(r) ==
  /\ req[r].pc = "delta"
  /\ ReqAt(r, "consuming")
  /\ OnlyReq

\* The host refuses the chunk: nobody reads the output, the run is stopped.
DeltaRefused(r) ==
  /\ req[r].pc = "delta"
  /\ ReqAt(r, AfterLoss(r))
  /\ OnlyReq

\* In a turn of the tool relay the turn fails.
TurnDeltaRefused(r) ==
  /\ req[r].pc = "turnDelta"
  /\ Failed(r)
  /\ OnlyReq

\* execute answers at once.  A stream emits its tool calls one by one.
Answer(r) ==
  /\ req[r].pc = "answering" /\ req[r].kind = "unary"
  /\ ReqBecomes(r, [req[r] EXCEPT !.pc = "closing", !.calls = 0, !.outcome = "complete"])
  /\ OnlyReq

CallTaken(r) ==
  /\ req[r].pc = "answering" /\ req[r].kind = "stream" /\ req[r].calls > 0
  /\ ReqBecomes(r, [req[r] EXCEPT !.calls = req[r].calls - 1, !.roleSent = RoleSent(r)])
  /\ Emit(r, "call", req[r].calls)
  /\ OnlyReqAndGot

\* The finish reason: "stop" (0) or "tool_calls" (1).
FinishNumber(r) == IF req[r].toolCalls THEN 1 ELSE 0

FinishTaken(r) ==
  /\ req[r].pc = "answering" /\ req[r].kind = "stream" /\ req[r].calls = 0
  /\ ReqAt(r, "terminating")
  /\ Emit(r, "finish", FinishNumber(r))
  /\ OnlyReqAndGot

\* [DONE], unless the host's own writer adds it: a chunk of no bytes is not emitted.
Terminate(r) ==
  /\ req[r].pc = "terminating"
  /\ ReqBecomes(r, [req[r] EXCEPT !.pc = "closing", !.outcome = "complete"])
  /\ IF req[r].framed THEN Emit(r, "done", 0) ELSE UNCHANGED got
  /\ OnlyReqAndGot

\* The host refuses a chunk of the answer.
AnswerRefused(r) ==
  /\ req[r].pc \in {"answering", "terminating"} /\ req[r].kind = "stream"
  /\ Failed(r)
  /\ OnlyReq

\* The return of execute, or closePluginStream.
Close(r) ==
  /\ req[r].pc = "closing"
  /\ ReqBecomes(r, [req[r] EXCEPT !.pc = "leaving", !.told = req[r].outcome])
  /\ OnlyReq

Unregister(r) ==
  /\ req[r].pc = "leaving"
  /\ ReqAt(r, "ended")
  /\ inFlight' = inFlight \ {r}
  /\ UNCHANGED <<bridge, got, snapshot, cancelled>>

-----------------------------------------------------------------------------
(* quiesce *)

\* The cancel functions are copied under the lock; an earlier quiesce is over.
QuiesceCopies ==
  /\ snapshot = {} /\ inFlight # {}
  /\ snapshot' = inFlight
  /\ UNCHANGED <<req, bridge, got, inFlight, cancelled>>

QuiesceCancels(r) ==
  /\ r \in snapshot
  /\ snapshot' = snapshot \ {r}
  /\ cancelled' = cancelled \cup {r}
  /\ UNCHANGED <<req, bridge, got, inFlight>>

-----------------------------------------------------------------------------
CursorInit ==
  /\ req = [r \in Requests |-> [New("unary", FALSE, FALSE) EXCEPT !.pc = "idle"]]
  /\ bridge = [r \in Requests |->
       [agent |-> "none", run |-> "none", cancel |-> FALSE, deltas |-> 0]]
  /\ got = [r \in Requests |-> <<>>]
  /\ inFlight = {} /\ snapshot = {} /\ cancelled = {}

\* What the plugin's goroutine does, and what is on a timeout or a call to the host.
RequestStep(r) ==
  \/ \E hit \in BOOLEAN : Acquire(r, hit)
  \/ AcquireFails(r) \/ OverBudget(r) \/ CtxDone(r)
  \/ CancelRun(r) \/ Release(r) \/ \E agent \in {"kept", "closed"} : Keep(r, agent)
  \/ DeltaTaken(r) \/ DeltaRefused(r) \/ TurnDeltaRefused(r)
  \/ Answer(r) \/ CallTaken(r) \/ FinishTaken(r) \/ Terminate(r) \/ AnswerRefused(r)
  \/ Close(r) \/ Unregister(r)

\* What the bridge and the network do, at their leisure.
BridgeStep(r) ==
  \/ ImagesFail(r) \/ Prepared(r) \/ CreateAgent(r) \/ CreateFails(r)
  \/ OpenSend(r) \/ AgentNotFound(r) \/ ResumeAgent(r) \/ SendFails(r)
  \/ ReceiveRunID(r) \/ ReceiveDelta(r)
  \/ \E status \in {"finished", "failed"} : ReceiveResult(r, status)
  \/ StreamBreaks(r) \/ StreamCloses(r)
  \/ TurnFails(r) \/ \E calls \in 0..MaxCalls : TurnAnswers(r, calls)

CursorNext ==
  \/ \E r \in Requests :
       \/ \E kind \in {"unary", "stream"}, framed, tools \in BOOLEAN :
            Accept(r, kind, framed, tools)
       \/ RequestStep(r) \/ BridgeStep(r) \/ QuiesceCancels(r)
  \/ QuiesceCopies

CursorSpec == CursorInit /\ [][CursorNext]_cursorVars

\* Goroutines run, the host's calls return, the bridge is asked nothing.
CursorFairSpec ==
  /\ CursorSpec
  /\ \A r \in Requests : WF_cursorVars(RequestStep(r)) /\ WF_cursorVars(QuiesceCancels(r))

-----------------------------------------------------------------------------
(* Properties *)

\* A request that is over has told the host once how it ended, is not in flight, and has no
\* agent that is neither closed nor a session's; a run that may still execute without anyone
\* reading it has lost its agent (generate.go:227).
NothingIsLeftOver ==
  \A r \in Requests : req[r].pc = "ended" =>
    /\ r \notin inFlight /\ req[r].told # "none"
    /\ bridge[r].agent # "open"
    /\ bridge[r].run = "running" => bridge[r].agent = "closed"

\* The agent a session keeps for the next turn is idle: no run of an earlier turn is
\* executing on it, whatever way that turn ended.
KeptAgentIsIdle ==
  \A r \in Requests : bridge[r].agent = "kept" => bridge[r].run # "running"

\* However a request ends, what it held is let go, and what a session keeps can be used again.
AgentsAreLetGo == NothingIsLeftOver /\ KeptAgentIsIdle

\* The order of the chunks of a stream.
Rank(kind) == CASE kind = "delta" -> 1 [] kind = "call" -> 2 [] kind = "finish" -> 3 [] OTHER -> 4

\* The client reads the deltas in order and without a gap, then the calls, then one finish
\* reason, and the role in the first chunk with content and in no other.
HeardInOrder ==
  \A r \in Requests :
    \A i \in DOMAIN got[r] :
      /\ got[r][i].role <=> (i = 1 /\ got[r][i].kind \in {"delta", "call"})
      /\ got[r][i].kind = "delta" => got[r][i].number = i
      /\ \A j \in 1..(i - 1) :
           \/ Rank(got[r][j].kind) < Rank(got[r][i].kind)
           \/ got[r][j].kind = got[r][i].kind /\ got[r][i].kind \in {"delta", "call"}

\* A client that is told its stream is complete has all of it: every delta of the run, every
\* call, the reason that goes with them and the terminator its framing needs; and a run it
\* had to itself has finished.
CompleteHasAll ==
  \A r \in Requests : (req[r].told = "complete" /\ req[r].kind = "stream") =>
    LET of(kind) == {i \in DOMAIN got[r] : got[r][i].kind = kind} IN
    /\ {got[r][i].number : i \in of("delta")} = 1..bridge[r].deltas
    /\ of("call") # {} <=> req[r].toolCalls
    /\ \E i \in of("finish") : got[r][i].number = 1 <=> of("call") # {}
    /\ of("done") # {} <=> req[r].framed
    /\ req[r].tools \/ req[r].result = "finished"

\* What the client of a stream hears is in order, and whole if it is told so.
StreamIsWhole == HeardInOrder /\ CompleteHasAll

\* Nothing is emitted to a stream that was closed.
SilentAfterClose ==
  [][\A r \in Requests : req[r].told # "none" => got'[r] = got[r]]_cursorVars

\* A quiesce ends every request it found in flight, whatever bridge and upstream do.
QuiesceReaches == \A r \in Requests : r \in snapshot ~> req[r].pc = "ended"

-----------------------------------------------------------------------------
\* Does not hold; see the README.  Every path that leaves without a terminal result cancels
\* the run first (generate.go:227).
LeavesAfterCancel ==
  \A r \in Requests :
    (req[r].pc \in {"releasing", "keeping"} /\ bridge[r].run = "running" /\ req[r].runID
     /\ req[r].result = "none") => bridge[r].cancel
=============================================================================
