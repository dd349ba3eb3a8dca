---------------------------- MODULE CursorProofs ----------------------------
(***************************************************************************)
(* Theorems about the Cursor plugin.  First its requests, for any number   *)
(* of requests, deltas and tool calls, what they fail with and what they   *)
(* may ask for; then its model catalogs, for every set of calls and keys,  *)
(* every list and any Ttl, Timeout and MaxTime.                            *)
(***************************************************************************)
EXTENDS MCCursorRequest, CursorModels, ListTheorems, TLAPS

(* The inductive invariant: what the place of a request says of its agent, *)
(* its run and what the host was told.                                     *)

Sends == {"sending", "reviving", "resending"}

Reads == {"consuming", "delta"}

Replied == {"answering", "terminating", "closing", "leaving", "ended"}

Fits(q, b) ==
  /\ q.pc \in {"preparing", "creating", "keeping"} \cup Sends \cup Reads => ~q.tools
  /\ q.pc \in {"turn", "turnDelta"} => q.tools
  /\ q.pc \in {"idle", "acquiring", "preparing", "creating"} \cup Sends => q.result = "none"
  /\ q.pc \in {"idle", "acquiring", "preparing", "creating", "turn", "turnDelta"} \cup Sends =>
       b.run = "none"
  /\ q.pc \in {"idle", "acquiring", "creating", "turn", "turnDelta"} => b.agent = "none"
  /\ q.pc = "preparing" => b.agent = IF q.hit THEN "open" ELSE "none"
  /\ q.pc \in {"cancelling", "releasing", "keeping"} \cup Sends \cup Reads => b.agent = "open"
  /\ q.pc \in Reads => b.run = IF q.result = "none" THEN "running" ELSE "over"
  /\ q.pc = "keeping" => b.run = "over"
  /\ q.pc \in Replied => b.agent # "open" /\ (b.run = "running" => b.agent = "closed")
  /\ q.pc = "closing" => q.outcome # "none"
  /\ q.told # "none" <=> q.pc \in {"leaving", "ended"}

RequestsFit == \A r \in Requests : Fits(req[r], bridge[r])

InFlightIsBusy == \A r \in Requests : r \in inFlight <=> req[r].pc \notin {"idle", "ended"}

CursorInv == CursorTypeOK /\ RequestsFit /\ InFlightIsBusy

(***************************************************************************)
(* A step of one request.                                                  *)
(***************************************************************************)
\* The request and its agent become what fits, and the request stays in flight.
Moves(r) ==
  \E q \in Request, b \in Bridge :
    /\ Fits(q, b) /\ q.pc \notin {"idle", "ended"}
    /\ req' = [req EXCEPT ![r] = q] /\ bridge' = [bridge EXCEPT ![r] = b]

LEMMA MovesBy ==
  ASSUME CursorInv, NEW r \in Requests, NEW q \in Request, NEW b \in Bridge,
         Fits(q, b), q.pc \notin {"idle", "ended"}, ReqBecomes(r, q),
         BridgeBecomes(r, b) \/ (bridge' = bridge /\ b = bridge[r])
  PROVE  Moves(r)
<1>1. bridge' = [bridge EXCEPT ![r] = b]
  BY DEF CursorInv, CursorTypeOK, BridgeBecomes
<1> QED
  BY <1>1 DEF Moves, ReqBecomes

\* What is known of a request before its step.
LEMMA BeforeStep ==
  ASSUME CursorInv, NEW r \in Requests
  PROVE  req[r] \in Request /\ bridge[r] \in Bridge /\ Fits(req[r], bridge[r])
BY DEF CursorInv, CursorTypeOK, RequestsFit

\* runGenerate returns an error.
LEMMA FailedMoves ==
  ASSUME CursorInv, NEW r \in Requests, Failed(r), NEW b \in Bridge, b.agent # "open",
         b.run = "running" => b.agent = "closed",
         req[r].told = "none",
         BridgeBecomes(r, b) \/ (bridge' = bridge /\ b = bridge[r])
  PROVE  Moves(r)
<1>1. req[r] \in Request
  BY BeforeStep
<1> DEFINE q == [req[r] EXCEPT !.pc = "closing", !.outcome = "error"]
<1>2. q \in Request /\ q.pc = "closing" /\ q.outcome = "error" /\ q.told = "none"
  BY <1>1 DEF Request, Pcs
<1>3. Fits(q, b)
  BY <1>2 DEF Fits, Sends, Reads, Replied
<1> QED
  BY <1>2, <1>3, MovesBy DEF Failed

\* A step to another place with nothing else changed of the request.
LEMMA PlaceMoves ==
  ASSUME CursorInv, NEW r \in Requests, NEW pc \in Pcs \ {"idle", "ended"}, ReqAt(r, pc),
         NEW b \in Bridge, Fits([req[r] EXCEPT !.pc = pc], b),
         BridgeBecomes(r, b) \/ (bridge' = bridge /\ b = bridge[r])
  PROVE  Moves(r)
<1>1. req[r] \in Request
  BY BeforeStep
<1>2. [req[r] EXCEPT !.pc = pc] \in Request /\ [req[r] EXCEPT !.pc = pc].pc = pc
  BY <1>1 DEF Request
<1> QED
  BY <1>2, MovesBy DEF ReqAt

LEMMA RequestMoves ==
  ASSUME CursorInv, NEW r \in Requests, RequestStep(r) \/ BridgeStep(r), ~Unregister(r)
  PROVE  Moves(r) /\ inFlight' = inFlight /\ req[r].pc \notin {"idle", "ended"}
<1> DEFINE p == req[r]  c == bridge[r]
<1>b. p \in Request /\ c \in Bridge /\ Fits(p, c)
  BY BeforeStep
<1> USE <1>b
<1>1. ASSUME NEW hit \in BOOLEAN, Acquire(r, hit)
      PROVE  Moves(r)
  <2> DEFINE q == [p EXCEPT !.pc = IF p.tools THEN "turn" ELSE "preparing", !.hit = hit]
             b == [c EXCEPT !.agent = IF hit THEN "open" ELSE "none"]
  <2>1. /\ q \in Request /\ b \in Bridge /\ q.hit = hit /\ b.agent = IF hit THEN "open" ELSE "none"
        /\ q.pc = IF p.tools THEN "turn" ELSE "preparing"
        /\ q.tools = p.tools /\ q.result = p.result /\ q.told = p.told /\ b.run = c.run
    BY DEF Request, Bridge, Pcs
  <2>2. Fits(q, b)
    BY <1>1, <2>1 DEF Acquire, Fits, Sends, Reads, Replied
  <2> QED
    <3>1. ReqBecomes(r, q) /\ BridgeBecomes(r, b)
      BY <1>1, Zenon DEF Acquire
    <3>2. q.pc \notin {"idle", "ended"}
      BY <2>1
    <3> HIDE DEF q, b
    <3> QED
      BY <2>1, <2>2, <3>1, <3>2, MovesBy
<1>2. ASSUME AcquireFails(r) \/ CreateFails(r) \/ TurnFails(r) \/ TurnDeltaRefused(r)
              \/ AnswerRefused(r)
      PROVE  Moves(r)
  <2>1. /\ Failed(r) /\ bridge' = bridge
        /\ p.pc \in {"acquiring", "creating", "turn", "turnDelta", "answering", "terminating"}
    BY <1>2, Zenon DEF AcquireFails, CreateFails, TurnFails, TurnDeltaRefused, AnswerRefused, OnlyReq
  <2>2. p.told = "none" /\ c.agent # "open" /\ (c.run = "running" => c.agent = "closed")
    BY <2>1 DEF Fits, Replied
  <2> QED
    BY <2>1, <2>2, FailedMoves
<1>3. ASSUME OverBudget(r) \/ ImagesFail(r)
      PROVE  Moves(r)
  <2>1. PICK agent \in {"none", "kept", "closed"} :
          BridgeBecomes(r, [c EXCEPT !.agent = agent])
    BY <1>3 DEF OverBudget, ImagesFail
  <2>2. Failed(r) /\ p.told = "none" /\ c.run = "none"
    BY <1>3 DEF OverBudget, ImagesFail, Fits
  <2>3. /\ [c EXCEPT !.agent = agent] \in Bridge /\ [c EXCEPT !.agent = agent].agent = agent
        /\ [c EXCEPT !.agent = agent].run = "none"
    BY <2>2 DEF Bridge
  <2> QED
    BY <2>1, <2>2, <2>3, FailedMoves
<1>4. ASSUME Prepared(r) \/ AgentNotFound(r) \/ ResumeAgent(r) \/ SendFails(r)
              \/ StreamBreaks(r) \/ StreamCloses(r) \/ DeltaRefused(r)
      PROVE  Moves(r)
  <2>1. PICK pc \in Pcs \ {"idle", "ended"} :
          /\ ReqAt(r, pc) /\ bridge' = bridge
          /\ \/ p.pc = "preparing" /\ pc = IF p.hit THEN "sending" ELSE "creating"
             \/ p.pc \in Sends /\ pc \in {"reviving", "resending", "releasing"}
             \/ p.pc \in Reads /\ pc \in {"cancelling", "releasing"}
             \/ p.pc = "consuming" /\ p.result = "finished" /\ pc = "keeping"
    <3>1. CASE Prepared(r)
      BY <3>1 DEF Prepared, OnlyReq, Pcs
    <3>2. CASE AgentNotFound(r) \/ ResumeAgent(r) \/ SendFails(r)
      BY <3>2 DEF AgentNotFound, ResumeAgent, SendFails, OnlyReq, Pcs, Sends
    <3>3. CASE StreamBreaks(r) \/ StreamCloses(r) \/ DeltaRefused(r)
      BY <3>3 DEF StreamBreaks, StreamCloses, DeltaRefused, AfterLoss, OnlyReq, Pcs, Reads
    <3> QED
      BY <1>4, <3>1, <3>2, <3>3
  <2> DEFINE q == [p EXCEPT !.pc = pc]
  <2>2. /\ q.pc = pc /\ q.tools = p.tools /\ q.hit = p.hit /\ q.result = p.result
        /\ q.told = p.told
    BY DEF Request
  <2>3. Fits(q, c)
    BY <2>1, <2>2 DEF Fits, Sends, Reads, Replied
  <2> QED
    BY <2>1, <2>3, PlaceMoves
<1>5. ASSUME CreateAgent(r)
      PROVE  Moves(r)
  <2> DEFINE q == [p EXCEPT !.pc = "sending"]  b == [c EXCEPT !.agent = "open"]
  <2>1. /\ q.pc = "sending" /\ q.tools = p.tools /\ q.result = p.result /\ q.told = p.told
        /\ b \in Bridge /\ b.agent = "open" /\ b.run = c.run
    BY DEF Request, Bridge
  <2>2. Fits(q, b)
    BY <1>5, <2>1 DEF CreateAgent, Fits, Sends, Reads, Replied
  <2> QED
    BY <1>5, <2>1, <2>2, PlaceMoves DEF CreateAgent, Pcs
<1>6. ASSUME OpenSend(r)
      PROVE  Moves(r)
  <2> DEFINE q == [p EXCEPT !.pc = "consuming"]  b == [c EXCEPT !.run = "running"]
  <2>1. /\ q.pc = "consuming" /\ q.tools = p.tools /\ q.result = p.result /\ q.told = p.told
        /\ b \in Bridge /\ b.run = "running" /\ b.agent = c.agent
    BY DEF Request, Bridge
  <2>2. Fits(q, b)
    BY <1>6, <2>1 DEF OpenSend, Fits, Sends, Reads, Replied
  <2> QED
    BY <1>6, <2>1, <2>2, PlaceMoves DEF OpenSend, Pcs
<1>7. ASSUME ReceiveRunID(r)
      PROVE  Moves(r)
  <2> DEFINE q == [p EXCEPT !.runID = TRUE]
  <2>1. /\ q \in Request /\ q.pc = p.pc /\ q.tools = p.tools /\ q.hit = p.hit
        /\ q.result = p.result /\ q.told = p.told /\ q.outcome = p.outcome
    BY DEF Request
  <2>2. Fits(q, c)
    BY <2>1 DEF Fits
  <2> QED
    BY <1>7, <2>1, <2>2, MovesBy DEF ReceiveRunID, OnlyReq
<1>8. ASSUME ReceiveDelta(r)
      PROVE  Moves(r)
  <2> DEFINE pc == IF p.tools THEN "turnDelta" ELSE "delta"
             q == [p EXCEPT !.pc = pc]  b == [c EXCEPT !.deltas = c.deltas + 1]
  <2>1. /\ q.pc = pc /\ q.tools = p.tools /\ q.result = p.result /\ q.told = p.told
        /\ b.agent = c.agent /\ b.run = c.run
    BY DEF Request, Bridge
  <2>2. b \in Bridge
    BY <1>8, CursorAssumption DEF ReceiveDelta, Bridge
  <2>3. Fits(q, b)
    BY <1>8, <2>1 DEF ReceiveDelta, Fits, Sends, Reads, Replied
  <2> QED
    BY <1>8, <2>2, <2>3, PlaceMoves DEF ReceiveDelta, Pcs
<1>9. ASSUME NEW status \in {"finished", "failed"}, ReceiveResult(r, status)
      PROVE  Moves(r)
  <2> DEFINE q == [p EXCEPT !.result = status, !.runID = TRUE]  b == [c EXCEPT !.run = "over"]
  <2>1. /\ q \in Request /\ q.pc = p.pc /\ q.tools = p.tools /\ q.result = status
        /\ q.told = p.told /\ b \in Bridge /\ b.run = "over" /\ b.agent = c.agent
    BY DEF Request, Bridge
  <2>2. Fits(q, b)
    BY <1>9, <2>1 DEF ReceiveResult, Fits, Sends, Reads, Replied
  <2> QED
    BY <1>9, <2>1, <2>2, MovesBy DEF ReceiveResult
<1>10. ASSUME CancelRun(r)
       PROVE  Moves(r)
  <2> DEFINE q == [p EXCEPT !.pc = "releasing"]  b == [c EXCEPT !.cancel = TRUE]
  <2>1. /\ q.pc = "releasing" /\ q.told = p.told
        /\ b \in Bridge /\ b.run = c.run /\ b.agent = c.agent
    BY DEF Request, Bridge
  <2>2. Fits(q, b)
    BY <1>10, <2>1 DEF CancelRun, Fits, Sends, Reads, Replied
  <2> QED
    BY <1>10, <2>1, <2>2, PlaceMoves DEF CancelRun, Pcs
<1>11. ASSUME Release(r)
       PROVE  Moves(r)
  <2>1. [c EXCEPT !.agent = "closed"] \in Bridge /\ [c EXCEPT !.agent = "closed"].agent = "closed"
    BY DEF Bridge
  <2>2. p.told = "none"
    BY <1>11 DEF Release, Fits
  <2> QED
    BY <1>11, <2>1, <2>2, FailedMoves DEF Release, LetGo
<1>12. ASSUME NEW agent \in {"kept", "closed"}, Keep(r, agent)
       PROVE  Moves(r)
  <2> DEFINE q == [p EXCEPT !.pc = "answering"]  b == [c EXCEPT !.agent = agent]
  <2>1. /\ q.pc = "answering" /\ q.told = p.told
        /\ b \in Bridge /\ b.run = c.run /\ b.agent = agent
    BY DEF Request, Bridge
  <2>2. Fits(q, b)
    BY <1>12, <2>1 DEF Keep, Fits, Sends, Reads, Replied
  <2> QED
    BY <1>12, <2>1, <2>2, PlaceMoves DEF Keep, Pcs
<1>13. ASSUME NEW calls \in 0..MaxCalls, TurnAnswers(r, calls)
       PROVE  Moves(r)
  <2> DEFINE q == [p EXCEPT !.pc = "answering", !.calls = calls, !.toolCalls = calls > 0]
  <2>1. q \in Request /\ q.pc = "answering" /\ q.told = p.told
    <3>1. \A some \in BOOLEAN :
            LET new == [p EXCEPT !.pc = "answering", !.calls = calls, !.toolCalls = some] IN
            new \in Request /\ new.pc = "answering" /\ new.told = p.told
      BY DEF Request, Pcs
    <3>2. (calls > 0) \in BOOLEAN
      BY CursorAssumption
    <3> QED
      BY <3>1, <3>2, Zenon
  <2>2. Fits(q, c)
    BY <1>13, <2>1 DEF TurnAnswers, Fits, Sends, Reads, Replied
  <2> QED
    BY <1>13, <2>1, <2>2, MovesBy DEF TurnAnswers, OnlyReq
<1>14. ASSUME DeltaTaken(r)
       PROVE  Moves(r)
  <2> DEFINE q == [p EXCEPT !.pc = IF p.tools THEN "turn" ELSE "consuming", !.roleSent = TRUE]
  <2>1. /\ q \in Request /\ q.pc = IF p.tools THEN "turn" ELSE "consuming"
        /\ q.tools = p.tools /\ q.result = p.result /\ q.told = p.told
    BY DEF Request, Pcs
  <2>2. Fits(q, c)
    BY <1>14, <2>1 DEF DeltaTaken, Fits, Sends, Reads, Replied
  <2> QED
    <3>1. ReqBecomes(r, q) /\ bridge' = bridge
      BY <1>14, Zenon DEF DeltaTaken, RoleSent, OnlyReqAndGot
    <3>2. q.pc \notin {"idle", "ended"}
      BY <2>1
    <3> HIDE DEF q
    <3> QED
      BY <2>1, <2>2, <3>1, <3>2, MovesBy
<1>15. ASSUME Answer(r) \/ Terminate(r)
       PROVE  Moves(r)
  <2>1. PICK calls \in {0, p.calls} :
          ReqBecomes(r, [p EXCEPT !.pc = "closing", !.calls = calls, !.outcome = "complete"])
    <3>1. [p EXCEPT !.pc = "closing", !.outcome = "complete"]
            = [p EXCEPT !.pc = "closing", !.calls = p.calls, !.outcome = "complete"]
      BY DEF Request
    <3> QED
      BY <1>15, <3>1 DEF Answer, Terminate
  <2> DEFINE q == [p EXCEPT !.pc = "closing", !.calls = calls, !.outcome = "complete"]
  <2>2. q \in Request /\ q.pc = "closing" /\ q.outcome = "complete" /\ q.told = p.told
    <3>1. calls \in 0..MaxCalls
      BY CursorAssumption DEF Request
    <3> QED
      BY <3>1 DEF Request, Pcs
  <2>3. bridge' = bridge /\ p.pc \in {"answering", "terminating"}
    BY <1>15 DEF Answer, Terminate, OnlyReq, OnlyReqAndGot
  <2>4. Fits(q, c)
    BY <2>2, <2>3 DEF Fits, Sends, Reads, Replied
  <2> QED
    BY <2>1, <2>2, <2>3, <2>4, MovesBy
<1>16. ASSUME CallTaken(r)
       PROVE  Moves(r)
  <2> DEFINE q == [p EXCEPT !.calls = p.calls - 1, !.roleSent = TRUE]
  <2>1. q \in Request /\ q.pc = p.pc /\ q.told = p.told
    <3>1. p.calls - 1 \in 0..MaxCalls
      BY <1>16, CursorAssumption DEF Request, CallTaken
    <3> QED
      BY <3>1 DEF Request
  <2>2. Fits(q, c)
    BY <1>16, <2>1 DEF CallTaken, Fits, Sends, Reads, Replied
  <2> QED
    BY <1>16, <2>1, <2>2, MovesBy DEF CallTaken, RoleSent, OnlyReqAndGot
<1>17. ASSUME FinishTaken(r)
       PROVE  Moves(r)
  <2> DEFINE q == [p EXCEPT !.pc = "terminating"]
  <2>1. q.pc = "terminating" /\ q.told = p.told
    BY DEF Request
  <2>2. Fits(q, c)
    BY <1>17, <2>1 DEF FinishTaken, Fits, Sends, Reads, Replied
  <2> QED
    BY <1>17, <2>2, PlaceMoves DEF FinishTaken, OnlyReqAndGot, Pcs
<1>18. ASSUME Close(r)
       PROVE  Moves(r)
  <2> DEFINE q == [p EXCEPT !.pc = "leaving", !.told = p.outcome]
  <2>1. q \in Request /\ q.pc = "leaving" /\ q.told = p.outcome
    BY DEF Request, Pcs
  <2>2. Fits(q, c)
    BY <1>18, <2>1 DEF Close, Fits, Sends, Reads, Replied
  <2> QED
    BY <1>18, <2>1, <2>2, MovesBy DEF Close, OnlyReq
<1>19. ASSUME CtxDone(r)
       PROVE  Moves(r)
  BY <1>2, <1>3, <1>4, <1>19 DEF CtxDone
<1>20. inFlight' = inFlight
  BY Zenon DEF RequestStep, BridgeStep, Acquire, AcquireFails, OverBudget, CtxDone, CancelRun,
    Release, Keep, DeltaTaken, DeltaRefused, TurnDeltaRefused, Answer, CallTaken, FinishTaken,
    Terminate, AnswerRefused, Close, ImagesFail, Prepared, CreateAgent, CreateFails, OpenSend,
    AgentNotFound, ResumeAgent, SendFails, ReceiveRunID, ReceiveDelta, ReceiveResult,
    StreamBreaks, StreamCloses, TurnFails, TurnAnswers, OnlyReq, OnlyReqAndBridge, OnlyReqAndGot
<1>21. p.pc \notin {"idle", "ended"}
  BY DEF RequestStep, BridgeStep, Acquire, AcquireFails, OverBudget, CtxDone, CancelRun,
    Release, Keep, DeltaTaken, DeltaRefused, TurnDeltaRefused, Answer, CallTaken, FinishTaken,
    Terminate, AnswerRefused, Close, ImagesFail, Prepared, CreateAgent, CreateFails, OpenSend,
    AgentNotFound, ResumeAgent, SendFails, ReceiveRunID, ReceiveDelta, ReceiveResult,
    StreamBreaks, StreamCloses, TurnFails, TurnAnswers
<1>22. Moves(r)
  BY <1>1, <1>2, <1>3, <1>4, <1>5, <1>6, <1>7, <1>8, <1>9, <1>10, <1>11, <1>12, <1>13, <1>14,
     <1>15, <1>16, <1>17, <1>18, <1>19, Zenon DEF RequestStep, BridgeStep
<1> QED
  BY <1>20, <1>21, <1>22

(***************************************************************************)
(* Type correctness.                                                       *)
(***************************************************************************)
LEMMA MovesTypes ==
  ASSUME CursorInv, NEW r \in Requests, Moves(r), inFlight' = inFlight,
         req[r].pc \notin {"idle", "ended"}
  PROVE  /\ req' \in [Requests -> Request] /\ bridge' \in [Requests -> Bridge]
         /\ RequestsFit' /\ InFlightIsBusy'
<1>1. PICK q \in Request, b \in Bridge :
        /\ Fits(q, b) /\ q.pc \notin {"idle", "ended"}
        /\ req' = [req EXCEPT ![r] = q] /\ bridge' = [bridge EXCEPT ![r] = b]
  BY DEF Moves
<1>2. req \in [Requests -> Request] /\ bridge \in [Requests -> Bridge]
  BY DEF CursorInv, CursorTypeOK
<1>3. req' \in [Requests -> Request] /\ bridge' \in [Requests -> Bridge]
  BY <1>1, <1>2
<1>4. \A s \in Requests : Fits(req'[s], bridge'[s])
  BY <1>1, <1>2 DEF CursorInv, RequestsFit
<1>5. RequestsFit'
  BY <1>4 DEF RequestsFit, Fits
<1>6. \A s \in Requests : s \in inFlight <=> req'[s].pc \notin {"idle", "ended"}
  BY <1>1, <1>2 DEF CursorInv, InFlightIsBusy
<1> QED
  BY <1>3, <1>5, <1>6 DEF InFlightIsBusy

\* What the host takes are chunks.
LEMMA EmitTypes ==
  ASSUME CursorTypeOK, NEW r \in Requests, NEW kind \in {"delta", "call", "finish", "done"},
         NEW number \in Nat, Emit(r, kind, number)
  PROVE  got' \in [Requests -> Seq(Chunk)]
<1> DEFINE chunk == [role |-> ~req[r].roleSent /\ kind \in {"delta", "call"},
                     kind |-> kind, number |-> number]
<1>1. got[r] \in Seq(Chunk) /\ got \in [Requests -> Seq(Chunk)]
  BY DEF CursorTypeOK
<1>2. \A some \in BOOLEAN : [role |-> some, kind |-> kind, number |-> number] \in Chunk
  BY DEF Chunk
<1>3. (~req[r].roleSent /\ kind \in {"delta", "call"}) \in BOOLEAN
  OBVIOUS
<1>4. chunk \in Chunk
  BY <1>2, <1>3, Zenon
<1> HIDE DEF chunk
<1>5. Append(got[r], chunk) \in Seq(Chunk)
  BY <1>1, <1>4
<1>6. got' = [got EXCEPT ![r] = Append(got[r], chunk)]
  BY Zenon DEF Emit, chunk
<1> QED
  BY <1>1, <1>5, <1>6

LEMMA RequestTypes ==
  ASSUME CursorInv, NEW r \in Requests, RequestStep(r) \/ BridgeStep(r), ~Unregister(r)
  PROVE  got' \in [Requests -> Seq(Chunk)] /\ snapshot' = snapshot /\ cancelled' = cancelled
<1>1. /\ req[r] \in Request /\ bridge[r] \in Bridge /\ CursorTypeOK
  BY DEF CursorInv, CursorTypeOK
<1>2. bridge[r].deltas \in Nat /\ req[r].calls \in Nat /\ FinishNumber(r) \in Nat
  BY <1>1, CursorAssumption DEF Bridge, Request, FinishNumber
<1>3. ASSUME DeltaTaken(r) \/ CallTaken(r) \/ FinishTaken(r)
      PROVE  got' \in [Requests -> Seq(Chunk)] /\ snapshot' = snapshot /\ cancelled' = cancelled
  <2>1. \/ Emit(r, "delta", bridge[r].deltas) \/ Emit(r, "call", req[r].calls)
        \/ Emit(r, "finish", FinishNumber(r))
    BY <1>3, Zenon DEF DeltaTaken, CallTaken, FinishTaken
  <2>2. snapshot' = snapshot /\ cancelled' = cancelled
    BY <1>3, Zenon DEF DeltaTaken, CallTaken, FinishTaken, OnlyReqAndGot
  <2> QED
    BY <1>1, <1>2, <2>1, <2>2, EmitTypes
<1>4. ASSUME Terminate(r)
      PROVE  got' \in [Requests -> Seq(Chunk)] /\ snapshot' = snapshot /\ cancelled' = cancelled
  <2>1. (Emit(r, "done", 0) \/ got' = got) /\ snapshot' = snapshot /\ cancelled' = cancelled
    BY <1>4 DEF Terminate, OnlyReqAndGot
  <2> QED
    BY <1>1, <2>1, EmitTypes DEF CursorTypeOK
<1>5. ASSUME ~DeltaTaken(r), ~CallTaken(r), ~FinishTaken(r), ~Terminate(r)
      PROVE  got' = got /\ snapshot' = snapshot /\ cancelled' = cancelled
  BY <1>5, Zenon DEF RequestStep, BridgeStep, Acquire, AcquireFails, OverBudget, CtxDone, CancelRun,
    Release, Keep, DeltaRefused, TurnDeltaRefused, Answer, AnswerRefused, Close, ImagesFail,
    Prepared, CreateAgent, CreateFails, OpenSend, AgentNotFound, ResumeAgent, SendFails,
    ReceiveRunID, ReceiveDelta, ReceiveResult, StreamBreaks, StreamCloses, TurnFails, TurnAnswers,
    OnlyReq, OnlyReqAndBridge
<1> QED
  BY <1>1, <1>3, <1>4, <1>5 DEF CursorTypeOK

(***************************************************************************)
(* The inductive invariant holds.                                          *)
(***************************************************************************)
LEMMA NewTypes ==
  \A kind \in {"unary", "stream"}, framed, tools \in BOOLEAN :
    /\ New(kind, framed, tools) \in Request
    /\ New(kind, framed, tools).pc = "acquiring"
    /\ New(kind, framed, tools).result = "none" /\ New(kind, framed, tools).told = "none"
BY CursorAssumption DEF New, Request, Pcs

LEMMA CursorInvInit == CursorInit => CursorInv
<1> SUFFICES ASSUME CursorInit PROVE CursorInv
  OBVIOUS
<1> DEFINE q == [New("unary", FALSE, FALSE) EXCEPT !.pc = "idle"]
           b == [agent |-> "none", run |-> "none", cancel |-> FALSE, deltas |-> 0]
<1>1. q \in Request /\ q.pc = "idle" /\ q.result = "none" /\ q.told = "none"
  <2> DEFINE n == New("unary", FALSE, FALSE)
  <2>1. n \in Request /\ n.result = "none" /\ n.told = "none"
    BY NewTypes
  <2>2. q = [n EXCEPT !.pc = "idle"]
    OBVIOUS
  <2> HIDE DEF n, q
  <2> QED
    BY <2>1, <2>2 DEF Request, Pcs
<1>2. b \in Bridge /\ b.agent = "none" /\ b.run = "none"
  BY CursorAssumption DEF Bridge
<1>3. req = [r \in Requests |-> q] /\ bridge = [r \in Requests |-> b]
  BY Zenon DEF CursorInit
<1>4. Fits(q, b)
  BY <1>1, <1>2 DEF Fits, Sends, Reads, Replied
<1> HIDE DEF q, b
<1>5. /\ \A r \in Requests : req[r] = q /\ bridge[r] = b
      /\ got = [r \in Requests |-> <<>>] /\ inFlight = {} /\ snapshot = {} /\ cancelled = {}
  BY <1>3 DEF CursorInit
<1>6. CursorTypeOK
  BY <1>1, <1>2, <1>3, <1>5 DEF CursorTypeOK
<1>7. RequestsFit /\ InFlightIsBusy
  BY <1>1, <1>4, <1>5 DEF RequestsFit, InFlightIsBusy
<1> QED
  BY <1>6, <1>7 DEF CursorInv

LEMMA AcceptStep ==
  ASSUME CursorInv, NEW r \in Requests, NEW kind \in {"unary", "stream"},
         NEW framed \in BOOLEAN, NEW tools \in BOOLEAN, Accept(r, kind, framed, tools)
  PROVE  CursorInv'
<1> DEFINE q == New(kind, framed, tools)
<1>1. /\ q \in Request /\ q.pc = "acquiring" /\ q.result = "none" /\ q.told = "none"
  BY NewTypes
<1> HIDE DEF q
<1>2. /\ req' = [req EXCEPT ![r] = q] /\ inFlight' = inFlight \cup {r} /\ req[r].pc = "idle"
      /\ bridge' = bridge /\ got' = got /\ snapshot' = snapshot /\ cancelled' = cancelled
  BY DEF Accept, ReqBecomes, q
<1>3. Fits(req[r], bridge[r]) /\ CursorTypeOK
  BY DEF CursorInv, RequestsFit
<1>4. Fits(q, bridge[r])
  BY <1>1, <1>2, <1>3 DEF Fits, Sends, Reads, Replied
<1>5. CursorTypeOK'
  BY <1>1, <1>2, <1>3 DEF CursorTypeOK
<1>6. \A s \in Requests : Fits(req'[s], bridge'[s])
  BY <1>2, <1>3, <1>4 DEF CursorTypeOK, CursorInv, RequestsFit
<1>7. InFlightIsBusy'
  BY <1>1, <1>2, <1>3 DEF CursorTypeOK, CursorInv, InFlightIsBusy
<1> QED
  BY <1>5, <1>6, <1>7 DEF CursorInv, RequestsFit, Fits

LEMMA UnregisterStep ==
  ASSUME CursorInv, NEW r \in Requests, Unregister(r)
  PROVE  CursorInv'
<1> DEFINE q == [req[r] EXCEPT !.pc = "ended"]
<1>1. req[r] \in Request /\ Fits(req[r], bridge[r]) /\ CursorTypeOK
  BY DEF CursorInv, RequestsFit, CursorTypeOK
<1>2. /\ q \in Request /\ q.pc = "ended" /\ q.told = req[r].told
  BY <1>1 DEF Request, Pcs
<1>3. /\ req' = [req EXCEPT ![r] = q] /\ inFlight' = inFlight \ {r} /\ req[r].pc = "leaving"
      /\ bridge' = bridge /\ got' = got /\ snapshot' = snapshot /\ cancelled' = cancelled
  BY DEF Unregister, ReqAt, ReqBecomes
<1> HIDE DEF q
<1>4. Fits(q, bridge[r])
  BY <1>1, <1>2, <1>3 DEF Fits, Sends, Reads, Replied
<1>5. CursorTypeOK'
  BY <1>1, <1>2, <1>3 DEF CursorTypeOK
<1>6. \A s \in Requests : Fits(req'[s], bridge'[s])
  BY <1>1, <1>3, <1>4 DEF CursorTypeOK, CursorInv, RequestsFit
<1>7. InFlightIsBusy'
  BY <1>1, <1>2, <1>3 DEF CursorTypeOK, CursorInv, InFlightIsBusy
<1> QED
  BY <1>5, <1>6, <1>7 DEF CursorInv, RequestsFit, Fits

LEMMA CursorInvStep == CursorInv /\ [CursorNext]_cursorVars => CursorInv'
<1> SUFFICES ASSUME CursorInv, [CursorNext]_cursorVars PROVE CursorInv'
  OBVIOUS
<1>1. ASSUME NEW r \in Requests, RequestStep(r) \/ BridgeStep(r), ~Unregister(r)
      PROVE  CursorInv'
  <2>1. Moves(r) /\ inFlight' = inFlight /\ req[r].pc \notin {"idle", "ended"}
    BY <1>1, RequestMoves
  <2>2. /\ req' \in [Requests -> Request] /\ bridge' \in [Requests -> Bridge]
        /\ RequestsFit' /\ InFlightIsBusy'
    BY <2>1, MovesTypes
  <2>3. got' \in [Requests -> Seq(Chunk)] /\ snapshot' = snapshot /\ cancelled' = cancelled
    BY <1>1, RequestTypes
  <2> QED
    BY <2>1, <2>2, <2>3 DEF CursorInv, CursorTypeOK
<1>2. ASSUME QuiesceCopies \/ (\E r \in Requests : QuiesceCancels(r)) \/ UNCHANGED cursorVars
      PROVE  CursorInv'
  <2>1. req' = req /\ bridge' = bridge /\ got' = got /\ inFlight' = inFlight
    BY <1>2, Zenon DEF QuiesceCopies, QuiesceCancels, cursorVars
  <2>2. snapshot' \in SUBSET Requests /\ cancelled' \in SUBSET Requests
    BY <1>2 DEF QuiesceCopies, QuiesceCancels, cursorVars, CursorInv, CursorTypeOK
  <2> QED
    BY <2>1, <2>2 DEF CursorInv, CursorTypeOK, RequestsFit, InFlightIsBusy, Fits
<1> QED
  BY <1>1, <1>2, AcceptStep, UnregisterStep DEF CursorNext

THEOREM CursorInvariant == CursorSpec => []CursorInv
BY CursorInvInit, CursorInvStep, PTL DEF CursorSpec

(***************************************************************************)
(* What it is for.                                                         *)
(***************************************************************************)
\* Requests, the bridge's view of them and what the host took keep their types.
THEOREM CursorTypeCorrect == CursorSpec => []CursorTypeOK
<1>1. CursorInv => CursorTypeOK
  BY DEF CursorInv
<1> QED
  BY <1>1, CursorInvariant, PTL

\* However a request ends (executor.go, generate.go), the host was told, the request is out of
\* inFlight, its agent is a session's or closed, and no run is left on one that is not closed.
THEOREM NothingStaysOver == CursorSpec => []NothingIsLeftOver
<1>1. CursorInv => NothingIsLeftOver
  BY DEF CursorInv, NothingIsLeftOver, RequestsFit, InFlightIsBusy, Fits, Replied
<1> QED
  BY <1>1, CursorInvariant, PTL

\* An agent that a session keeps has no run of an earlier turn executing on it.
THEOREM KeptAgentsAreIdle == CursorSpec => []KeptAgentIsIdle
<1>1. CursorInv => KeptAgentIsIdle
  <2> SUFFICES ASSUME CursorInv, NEW r \in Requests, bridge[r].agent = "kept"
               PROVE  bridge[r].run # "running"
    BY DEF KeptAgentIsIdle
  <2>1. req[r] \in Request /\ Fits(req[r], bridge[r])
    BY DEF CursorInv, CursorTypeOK, RequestsFit
  <2>2. req[r].pc \in Pcs
    BY <2>1 DEF Request
  <2> QED
    BY <2>1, <2>2 DEF Fits, Sends, Reads, Replied, Pcs
<1> QED
  BY <1>1, CursorInvariant, PTL

\* Once the host's stream is closed (closePluginStream), forwardStream emits nothing to it.
THEOREM ClosedStreamsAreSilent == CursorSpec => SilentAfterClose
<1>1. CursorInv /\ [CursorNext]_cursorVars =>
        [\A r \in Requests : req[r].told # "none" => got'[r] = got[r]]_cursorVars
  <2> SUFFICES ASSUME CursorInv, CursorNext, NEW r \in Requests, req[r].told # "none"
               PROVE  got'[r] = got[r]
    OBVIOUS
  <2>1. req[r].pc \in {"leaving", "ended"} /\ got \in [Requests -> Seq(Chunk)]
    BY DEF CursorInv, CursorTypeOK, RequestsFit, Fits
  <2>2. ASSUME NEW s \in Requests, DeltaTaken(s) \/ CallTaken(s) \/ FinishTaken(s) \/ Terminate(s)
        PROVE  got'[r] = got[r]
    <3>1. s # r
      BY <2>1, <2>2 DEF DeltaTaken, CallTaken, FinishTaken, Terminate
    <3>2. \/ got' = got
          \/ \E chunk : got' = [got EXCEPT ![s] = Append(got[s], chunk)]
      BY <2>2, Zenon DEF DeltaTaken, CallTaken, FinishTaken, Terminate, Emit
    <3> QED
      BY <2>1, <3>1, <3>2
  <2>3. ASSUME ~\E s \in Requests : DeltaTaken(s) \/ CallTaken(s) \/ FinishTaken(s) \/ Terminate(s)
        PROVE  got' = got
    BY <2>3, Zenon DEF CursorNext, RequestStep, BridgeStep, Acquire, AcquireFails, OverBudget,
      CtxDone, CancelRun, Release, Keep, DeltaRefused, TurnDeltaRefused, Answer, AnswerRefused,
      Close, ImagesFail, Prepared, CreateAgent, CreateFails, OpenSend, AgentNotFound, ResumeAgent,
      SendFails, ReceiveRunID, ReceiveDelta, ReceiveResult, StreamBreaks, StreamCloses, TurnFails,
      TurnAnswers, OnlyReq, OnlyReqAndBridge, Accept, Unregister, QuiesceCancels, QuiesceCopies
  <2> QED
    BY <2>2, <2>3
<1> QED
  BY <1>1, CursorInvariant, PTL DEF CursorSpec, SilentAfterClose

\* However runOneShot ends, its agent and its run are let go, or kept idle.
THEOREM AgentsGo == CursorSpec => []AgentsAreLetGo
<1>1. NothingIsLeftOver /\ KeptAgentIsIdle => AgentsAreLetGo
  BY DEF AgentsAreLetGo
<1> QED
  BY <1>1, NothingStaysOver, KeptAgentsAreIdle, PTL

(***************************************************************************)
(* What the host took.                                                     *)
(***************************************************************************)
\* The chunks are d deltas, then c calls, then f finish reasons, then e terminators.
Shape(g, d, c, f, e) ==
  /\ Len(g) = d + c + f + e
  /\ \A i \in 1..Len(g) :
       /\ g[i].kind = IF i <= d THEN "delta" ELSE IF i <= d + c THEN "call"
                      ELSE IF i <= d + c + f THEN "finish" ELSE "done"
       /\ g[i].role <=> (i = 1 /\ d + c > 0)
       /\ i <= d => g[i].number = i
       /\ (d + c < i /\ i <= d + c + f) => g[i].number = IF c > 0 THEN 1 ELSE 0

Early == {"idle", "acquiring", "preparing", "creating"} \cup Sends

Between == {"consuming", "turn", "keeping"}

Offering == {"delta", "turnDelta"}

NoneSent(c, f, e) == c = 0 /\ f = 0 /\ e = 0

\* What the place of a request says of the chunks.
Counted(q, b, d, c, f, e) ==
  /\ q.kind = "unary" => b.deltas = 0 /\ d = 0 /\ NoneSent(c, f, e)
  /\ q.pc \in Early => b.deltas = 0 /\ d = 0 /\ NoneSent(c, f, e) /\ ~q.roleSent
  /\ q.pc \in Between => d = b.deltas /\ NoneSent(c, f, e)
  /\ q.pc \in Offering => d + 1 = b.deltas /\ NoneSent(c, f, e)
  /\ q.pc \in Early \cup Between \cup Offering => q.calls = 0 /\ ~q.toolCalls
  /\ q.pc = "answering" => d = b.deltas /\ f = 0 /\ e = 0 /\ (q.toolCalls <=> q.calls > 0 \/ c > 0)
  /\ q.pc = "terminating" => d = b.deltas /\ f = 1 /\ e = 0 /\ (q.toolCalls <=> c > 0)
  /\ q.pc \in Between \cup Offering \cup {"answering"} => (q.roleSent <=> d + c > 0)
  /\ q.pc \in {"keeping", "answering", "terminating"} => (q.tools \/ q.result = "finished")
  /\ (q.outcome = "complete" /\ q.kind = "stream") =>
       /\ d = b.deltas /\ f = 1 /\ e = (IF q.framed THEN 1 ELSE 0) /\ (q.toolCalls <=> c > 0)
       /\ q.tools \/ q.result = "finished"
  /\ q.outcome = "complete" => q.pc \in {"closing", "leaving", "ended"}
  /\ q.told \in {"none", q.outcome}

Heard(q, b, g) ==
  \E d \in Nat, c \in Nat, f \in 0..1, e \in 0..1 :
    Shape(g, d, c, f, e) /\ Counted(q, b, d, c, f, e)

ChunksFit == \A r \in Requests : Heard(req[r], bridge[r], got[r])

\* One more chunk, of the kind that comes next.
LEMMA ShapeGrows ==
  ASSUME NEW g \in Seq(Chunk), NEW x \in Chunk, NEW d \in Nat, NEW c \in Nat, NEW f \in 0..1,
         NEW e \in 0..1, Shape(g, d, c, f, e)
  PROVE  /\ (x.kind = "delta" /\ x.number = d + 1 /\ (x.role <=> d = 0) /\ NoneSent(c, f, e))
              => Shape(Append(g, x), d + 1, c, f, e)
         /\ (x.kind = "call" /\ (x.role <=> d + c = 0) /\ f = 0 /\ e = 0)
              => Shape(Append(g, x), d, c + 1, f, e)
         /\ (x.kind = "finish" /\ ~x.role /\ x.number = (IF c > 0 THEN 1 ELSE 0) /\ f = 0 /\ e = 0)
              => Shape(Append(g, x), d, c, 1, e)
         /\ (x.kind = "done" /\ ~x.role /\ f = 1 /\ e = 0)
              => Shape(Append(g, x), d, c, f, 1)
<1> DEFINE h == Append(g, x)
<1>1. /\ Len(g) \in Nat /\ Len(h) = Len(g) + 1
      /\ \A i \in 1..Len(g) : h[i] = g[i]
      /\ h[Len(g) + 1] = x
  OBVIOUS
<1>2. \A i \in 1..Len(h) : (i \in 1..Len(g) /\ h[i] = g[i]) \/ (i = Len(g) + 1 /\ h[i] = x)
  BY <1>1
<1> HIDE DEF h
<1>3. ASSUME x.kind = "delta", x.number = d + 1, x.role <=> d = 0, NoneSent(c, f, e)
      PROVE  Shape(h, d + 1, c, f, e)
  BY <1>1, <1>2, <1>3 DEF Shape, NoneSent
<1>4. ASSUME x.kind = "call", x.role <=> d + c = 0, f = 0, e = 0
      PROVE  Shape(h, d, c + 1, f, e)
  BY <1>1, <1>2, <1>4 DEF Shape
<1>5. ASSUME x.kind = "finish", ~x.role, x.number = (IF c > 0 THEN 1 ELSE 0), f = 0, e = 0
      PROVE  Shape(h, d, c, 1, e)
  BY <1>1, <1>2, <1>5 DEF Shape
<1>6. ASSUME x.kind = "done", ~x.role, f = 1, e = 0
      PROVE  Shape(h, d, c, f, 1)
  BY <1>1, <1>2, <1>6 DEF Shape
<1> QED
  BY <1>3, <1>4, <1>5, <1>6 DEF h

(***************************************************************************)
(* A step of one request.                                                  *)
(***************************************************************************)
\* The chunks stay as they are, and the request goes where they are counted the same.
LEMMA QuietStep ==
  ASSUME CursorInv, NEW r \in Requests, RequestStep(r) \/ BridgeStep(r),
         ~DeltaTaken(r), ~CallTaken(r), ~FinishTaken(r), ~Terminate(r),
         NEW d \in Nat, NEW c \in Nat, NEW f \in 0..1, NEW e \in 0..1,
         Counted(req[r], bridge[r], d, c, f, e)
  PROVE  Counted(req'[r], bridge'[r], d, c, f, e)
<1> DEFINE p == req[r]  b == bridge[r]
<1>b. /\ p \in Request /\ b \in Bridge /\ req \in [Requests -> Request]
      /\ bridge \in [Requests -> Bridge] /\ b.deltas \in Nat /\ p.calls \in Nat
      /\ Fits(p, b)
  BY CursorAssumption DEF CursorInv, CursorTypeOK, Bridge, Request, RequestsFit
<1> USE <1>b
<1>1. ASSUME \E hit \in BOOLEAN : Acquire(r, hit)
      PROVE  Counted(req'[r], bridge'[r], d, c, f, e)
  <2>1. PICK hit \in BOOLEAN, agent \in {"open", "none"} :
          /\ req' = [req EXCEPT ![r] = [p EXCEPT !.pc = IF p.tools THEN "turn" ELSE "preparing",
                                                !.hit = hit]]
          /\ bridge' = [bridge EXCEPT ![r] = [b EXCEPT !.agent = agent]]
    BY <1>1 DEF Acquire, ReqBecomes, BridgeBecomes
  <2>2. p.pc = "acquiring"
    BY <1>1 DEF Acquire
  <2>3. /\ req'[r] = [p EXCEPT !.pc = IF p.tools THEN "turn" ELSE "preparing", !.hit = hit]
        /\ bridge'[r].deltas = b.deltas
    BY <2>1 DEF Bridge
  <2> QED
    BY <2>2, <2>3 DEF Request, Counted, Early, Between, Offering, Sends, NoneSent
<1>2. ASSUME AcquireFails(r) \/ CreateFails(r) \/ TurnFails(r) \/ TurnDeltaRefused(r)
              \/ AnswerRefused(r) \/ OverBudget(r) \/ ImagesFail(r) \/ Release(r)
      PROVE  Counted(req'[r], bridge'[r], d, c, f, e)
  <2>1. /\ req'[r] = [p EXCEPT !.pc = "closing", !.outcome = "error"]
        /\ bridge'[r].deltas = b.deltas /\ p.told = "none"
    <3>1. Failed(r)
      BY <1>2, Zenon DEF AcquireFails, CreateFails, TurnFails, TurnDeltaRefused,
        AnswerRefused, OverBudget, ImagesFail, Release
    <3>2. \/ bridge' = bridge
          \/ \E agent : bridge' = [bridge EXCEPT ![r] = [b EXCEPT !.agent = agent]]
      BY <1>2, Zenon DEF AcquireFails, CreateFails, TurnFails, TurnDeltaRefused,
        AnswerRefused, OverBudget, ImagesFail, Release, OnlyReq, BridgeBecomes
    <3>3. p.pc \notin {"leaving", "ended"}
      BY <1>2 DEF AcquireFails, CreateFails, TurnFails, TurnDeltaRefused,
        AnswerRefused, OverBudget, ImagesFail, Release
    <3>4. p.told = "none"
      BY <3>3 DEF Fits
    <3>5. bridge'[r].deltas = b.deltas
      BY <3>2 DEF Bridge
    <3> QED
      BY <3>1, <3>4, <3>5 DEF Failed, ReqBecomes
  <2> QED
    BY <2>1 DEF Counted, Request, Early, Between, Offering, Sends
<1>3. ASSUME Prepared(r) \/ AgentNotFound(r) \/ ResumeAgent(r) \/ SendFails(r)
              \/ StreamBreaks(r) \/ StreamCloses(r) \/ DeltaRefused(r) \/ CreateAgent(r)
              \/ OpenSend(r) \/ CancelRun(r)
      PROVE  Counted(req'[r], bridge'[r], d, c, f, e)
  <2>1. PICK pc \in Pcs :
          /\ req'[r] = [p EXCEPT !.pc = pc] /\ bridge'[r].deltas = b.deltas
          /\ \/ p.pc \in Early /\ pc \in {"creating"} \cup Sends
             \/ p.pc \in Early /\ pc = "consuming"
             \/ p.pc \in Early \cup Between \cup Offering \cup {"cancelling"}
                  /\ pc \in {"cancelling", "releasing"}
             \/ p.pc = "consuming" /\ p.result = "finished" /\ pc = "keeping"
    <3>1. CASE Prepared(r) \/ CreateAgent(r) \/ OpenSend(r) \/ CancelRun(r)
      BY <3>1 DEF Prepared, CreateAgent, OpenSend, CancelRun, OnlyReq, Pcs, ReqAt, ReqBecomes,
        BridgeBecomes, Early, Sends, Bridge
    <3>2. CASE AgentNotFound(r) \/ ResumeAgent(r) \/ SendFails(r)
      BY <3>2 DEF AgentNotFound, ResumeAgent, SendFails, OnlyReq, Pcs, Sends, Early, ReqAt,
        ReqBecomes
    <3>3. CASE StreamBreaks(r) \/ StreamCloses(r) \/ DeltaRefused(r)
      BY <3>3 DEF StreamBreaks, StreamCloses, DeltaRefused, AfterLoss, OnlyReq, Pcs, Between,
        Offering, ReqAt, ReqBecomes
    <3> QED
      BY <1>3, <3>1, <3>2, <3>3
  <2> DEFINE q == [p EXCEPT !.pc = pc]
  <2>2. /\ q.pc = pc /\ q.tools = p.tools /\ q.kind = p.kind /\ q.result = p.result
        /\ q.told = p.told /\ q.outcome = p.outcome /\ q.calls = p.calls
        /\ q.toolCalls = p.toolCalls /\ q.roleSent = p.roleSent /\ q.framed = p.framed
    BY DEF Request
  <2>3. req'[r] = q /\ bridge'[r].deltas = b.deltas
    BY <2>1
  <2> HIDE DEF q
  <2> QED
    BY <2>1, <2>2, <2>3 DEF Counted, Early, Between, Offering, Sends, NoneSent
<1>4. ASSUME ReceiveRunID(r) \/ \E status \in {"finished", "failed"} : ReceiveResult(r, status)
      PROVE  Counted(req'[r], bridge'[r], d, c, f, e)
  <2>1. PICK result \in {"none", "finished", "failed"} :
          req'[r] = [p EXCEPT !.result = result, !.runID = TRUE]
    <3>1. [p EXCEPT !.runID = TRUE] = [p EXCEPT !.result = p.result, !.runID = TRUE]
      BY DEF Request
    <3>2. p.result \in {"none", "finished", "failed"}
      BY DEF Request
    <3> QED
      BY <1>4, <3>1, <3>2 DEF ReceiveRunID, ReceiveResult, ReqBecomes
  <2>2. bridge'[r].deltas = b.deltas /\ p.pc = "consuming"
    BY <1>4 DEF ReceiveRunID, ReceiveResult, OnlyReq, BridgeBecomes, Bridge
  <2> DEFINE q == [p EXCEPT !.result = result, !.runID = TRUE]
  <2>3. /\ q.pc = p.pc /\ q.tools = p.tools /\ q.kind = p.kind
        /\ q.told = p.told /\ q.outcome = p.outcome /\ q.calls = p.calls
        /\ q.toolCalls = p.toolCalls /\ q.roleSent = p.roleSent /\ q.framed = p.framed
    BY DEF Request
  <2>4. req'[r] = q
    BY <2>1
  <2> HIDE DEF q
  <2> QED
    BY <2>2, <2>3, <2>4 DEF Counted, Early, Between, Offering, Sends, NoneSent
<1>5. ASSUME ReceiveDelta(r)
      PROVE  Counted(req'[r], bridge'[r], d, c, f, e)
  <2>1. /\ bridge'[r].deltas = b.deltas + 1 /\ p.pc \in {"consuming", "turn"} /\ p.kind = "stream"
        /\ req'[r] = [p EXCEPT !.pc = IF p.tools THEN "turnDelta" ELSE "delta"]
    BY <1>5 DEF ReceiveDelta, ReqAt, ReqBecomes, BridgeBecomes, Bridge
  <2> QED
    BY <2>1 DEF Counted, Request, Early, Between, Offering, Sends
<1>6. ASSUME \E agent \in {"kept", "closed"} : Keep(r, agent)
      PROVE  Counted(req'[r], bridge'[r], d, c, f, e)
  BY <1>6 DEF Keep, ReqAt, ReqBecomes, BridgeBecomes, Request, Bridge, Counted, Early, Between,
    Offering, Sends, NoneSent
<1>7. ASSUME NEW calls \in 0..MaxCalls, TurnAnswers(r, calls)
      PROVE  Counted(req'[r], bridge'[r], d, c, f, e)
  <2>1. calls \in Nat /\ p.tools
    BY <1>7, CursorAssumption DEF TurnAnswers, Fits
  <2> QED
    BY <1>7, <2>1 DEF TurnAnswers, OnlyReq, ReqBecomes, Request, Counted, Early, Between, Offering,
      Sends, NoneSent
<1>8. ASSUME Answer(r)
      PROVE  Counted(req'[r], bridge'[r], d, c, f, e)
  <2>1. p.told = "none" /\ p.kind = "unary"
    BY <1>8 DEF Answer, Fits
  <2> QED
    BY <1>8, <2>1 DEF Answer, OnlyReq, ReqBecomes, Request, Counted, Early, Between, Offering, Sends
<1>9. ASSUME Close(r) \/ Unregister(r)
      PROVE  Counted(req'[r], bridge'[r], d, c, f, e)
  <2>1. /\ bridge' = bridge /\ p.pc \in {"closing", "leaving"}
        /\ \/ req'[r] = [p EXCEPT !.pc = "leaving", !.told = p.outcome]
           \/ req'[r] = [p EXCEPT !.pc = "ended"]
    BY <1>9 DEF Close, Unregister, OnlyReq, ReqAt, ReqBecomes
  <2> DEFINE q == req'[r]
  <2>2. /\ q.pc \in {"leaving", "ended"} /\ q.told \in {p.told, p.outcome} /\ q.tools = p.tools
        /\ q.kind = p.kind /\ q.result = p.result /\ q.outcome = p.outcome
        /\ q.toolCalls = p.toolCalls /\ q.framed = p.framed
    BY <2>1 DEF Request
  <2> HIDE DEF q
  <2>3. Counted(q, b, d, c, f, e)
    BY <2>1, <2>2 DEF Counted, Early, Between, Offering, Sends
  <2> QED
    BY <2>1, <2>3 DEF q
<1>10. ASSUME CtxDone(r)
       PROVE  Counted(req'[r], bridge'[r], d, c, f, e)
  BY <1>2, <1>3, <1>10 DEF CtxDone
<1>11. \/ AcquireFails(r) \/ CreateFails(r) \/ TurnFails(r) \/ TurnDeltaRefused(r)
       \/ AnswerRefused(r) \/ OverBudget(r) \/ ImagesFail(r) \/ Release(r)
       \/ Prepared(r) \/ AgentNotFound(r) \/ ResumeAgent(r) \/ SendFails(r)
       \/ StreamBreaks(r) \/ StreamCloses(r) \/ DeltaRefused(r) \/ CreateAgent(r)
       \/ OpenSend(r) \/ CancelRun(r) \/ ReceiveRunID(r) \/ ReceiveDelta(r)
       \/ Answer(r) \/ Close(r) \/ Unregister(r) \/ CtxDone(r)
       \/ \E hit \in BOOLEAN : Acquire(r, hit)
       \/ \E agent \in {"kept", "closed"} : Keep(r, agent)
       \/ \E status \in {"finished", "failed"} : ReceiveResult(r, status)
       \/ \E calls \in 0..MaxCalls : TurnAnswers(r, calls)
  BY Zenon DEF RequestStep, BridgeStep
<1> QED
  BY <1>1, <1>2, <1>3, <1>4, <1>5, <1>6, <1>7, <1>8, <1>9, <1>10, <1>11

\* A chunk is taken, and counted where the request goes.
LEMMA LoudStep ==
  ASSUME CursorInv, NEW r \in Requests,
         DeltaTaken(r) \/ CallTaken(r) \/ FinishTaken(r) \/ Terminate(r),
         Heard(req[r], bridge[r], got[r])
  PROVE  Heard(req'[r], bridge'[r], got'[r])
<1> DEFINE p == req[r]  b == bridge[r]  g == got[r]
           X(kind, number) == [role |-> ~p.roleSent /\ kind \in {"delta", "call"},
                               kind |-> kind, number |-> number]
<1>b. /\ p \in Request /\ b \in Bridge /\ req \in [Requests -> Request]
      /\ bridge \in [Requests -> Bridge] /\ b.deltas \in Nat /\ p.calls \in Nat
      /\ got \in [Requests -> Seq(Chunk)] /\ g \in Seq(Chunk) /\ Fits(p, b)
      /\ p.roleSent \in BOOLEAN /\ p.toolCalls \in BOOLEAN
  BY CursorAssumption DEF CursorInv, CursorTypeOK, Bridge, Request, RequestsFit
<1>p. PICK d \in Nat, c \in Nat, f \in 0..1, e \in 0..1 :
        Shape(g, d, c, f, e) /\ Counted(p, b, d, c, f, e)
  BY DEF Heard
<1>x. ASSUME NEW kind \in {"delta", "call", "finish", "done"}, NEW number \in Nat,
             Emit(r, kind, number)
      PROVE  \E x \in Chunk :
               /\ got'[r] = Append(g, x) /\ x.kind = kind /\ x.number = number
               /\ x.role <=> (~p.roleSent /\ kind \in {"delta", "call"})
  <2>1. got'[r] = Append(g, X(kind, number))
    BY <1>b, <1>x, Zenon DEF Emit
  <2>2. \A some \in BOOLEAN : LET x == [role |-> some, kind |-> kind, number |-> number] IN
          x \in Chunk /\ x.kind = kind /\ x.number = number /\ x.role = some
    BY DEF Chunk
  <2>3. (~p.roleSent /\ kind \in {"delta", "call"}) \in BOOLEAN
    OBVIOUS
  <2>4. /\ X(kind, number) \in Chunk /\ X(kind, number).kind = kind
        /\ X(kind, number).number = number
        /\ X(kind, number).role <=> (~p.roleSent /\ kind \in {"delta", "call"})
    BY <2>2, <2>3, Zenon
  <2> HIDE DEF X
  <2> QED
    BY <2>1, <2>4
<1> HIDE DEF X, p, b, g
<1>1. ASSUME DeltaTaken(r)
      PROVE  Heard(req'[r], bridge'[r], got'[r])
  <2>1. /\ p.pc \in Offering /\ Emit(r, "delta", b.deltas) /\ bridge' = bridge
        /\ req'[r] = [p EXCEPT !.pc = IF p.tools THEN "turn" ELSE "consuming", !.roleSent = TRUE]
    BY <1>1, <1>b DEF p, b, g, DeltaTaken, Offering, ReqBecomes, RoleSent, OnlyReqAndGot
  <2>2. d + 1 = b.deltas /\ NoneSent(c, f, e) /\ (p.roleSent <=> d > 0)
    BY <1>p, <2>1 DEF Counted, NoneSent
  <2>3. Shape(got'[r], d + 1, c, f, e)
    <3>1. PICK x \in Chunk :
            /\ got'[r] = Append(g, x) /\ x.kind = "delta" /\ x.number = b.deltas
            /\ x.role <=> (~p.roleSent /\ "delta" \in {"delta", "call"})
      BY <1>b, <1>x, <2>1
    <3> QED
      BY <1>b, <1>p, <2>2, <3>1, ShapeGrows
  <2>4. Counted(req'[r], b, d + 1, c, f, e)
    BY <1>b, <1>p, <2>1, <2>2 DEF Counted, Request, Early, Between, Offering, Sends, NoneSent
  <2> QED
    BY <2>1, <2>3, <2>4 DEF Heard, b
<1>2. ASSUME CallTaken(r)
      PROVE  Heard(req'[r], bridge'[r], got'[r])
  <2>1. /\ p.pc = "answering" /\ p.calls > 0 /\ Emit(r, "call", p.calls) /\ bridge' = bridge
        /\ req'[r] = [p EXCEPT !.calls = p.calls - 1, !.roleSent = TRUE] /\ p.kind = "stream"
    BY <1>2, <1>b DEF p, b, g, CallTaken, ReqBecomes, RoleSent, OnlyReqAndGot
  <2>2. f = 0 /\ e = 0 /\ (p.roleSent <=> d + c > 0)
    BY <1>p, <2>1 DEF Counted
  <2>3. Shape(got'[r], d, c + 1, f, e)
    <3>1. PICK x \in Chunk :
            /\ got'[r] = Append(g, x) /\ x.kind = "call" /\ x.number = p.calls
            /\ x.role <=> (~p.roleSent /\ "call" \in {"delta", "call"})
      BY <1>b, <1>x, <2>1
    <3> QED
      BY <1>b, <1>p, <2>2, <3>1, ShapeGrows
  <2>4. Counted(req'[r], b, d, c + 1, f, e)
    BY <1>b, <1>p, <2>1, <2>2 DEF Counted, Request, Early, Between, Offering, Sends
  <2> QED
    BY <2>1, <2>3, <2>4 DEF Heard, b
<1>3. ASSUME FinishTaken(r)
      PROVE  Heard(req'[r], bridge'[r], got'[r])
  <2>1. /\ p.pc = "answering" /\ p.calls = 0 /\ Emit(r, "finish", FinishNumber(r))
        /\ bridge' = bridge /\ req'[r] = [p EXCEPT !.pc = "terminating"] /\ p.kind = "stream"
    BY <1>3, <1>b DEF p, b, g, FinishTaken, ReqAt, ReqBecomes, OnlyReqAndGot
  <2>2. f = 0 /\ e = 0 /\ (p.toolCalls <=> c > 0)
    BY <1>b, <1>p, <2>1 DEF Counted
  <2>3. FinishNumber(r) = (IF c > 0 THEN 1 ELSE 0) /\ FinishNumber(r) \in Nat
    BY <2>2 DEF FinishNumber, p
  <2>4. Shape(got'[r], d, c, 1, e)
    <3>1. PICK x \in Chunk :
            /\ got'[r] = Append(g, x) /\ x.kind = "finish" /\ x.number = FinishNumber(r)
            /\ x.role <=> (~p.roleSent /\ "finish" \in {"delta", "call"})
      BY <1>b, <1>x, <2>1, <2>3
    <3> QED
      BY <1>b, <1>p, <2>2, <2>3, <3>1, ShapeGrows
  <2>5. Counted(req'[r], b, d, c, 1, e)
    BY <1>b, <1>p, <2>1, <2>2 DEF Counted, Request, Early, Between, Offering, Sends
  <2> QED
    BY <2>1, <2>4, <2>5 DEF Heard, b
<1>4. ASSUME Terminate(r)
      PROVE  Heard(req'[r], bridge'[r], got'[r])
  <2>1. /\ p.pc = "terminating" /\ bridge' = bridge
        /\ req'[r] = [p EXCEPT !.pc = "closing", !.outcome = "complete"]
        /\ IF p.framed THEN Emit(r, "done", 0) ELSE got' = got
    BY <1>4, <1>b DEF p, b, g, Terminate, ReqBecomes, OnlyReqAndGot
  <2>2. f = 1 /\ e = 0 /\ p.told = "none"
    BY <1>b, <1>p, <2>1 DEF Counted, Fits
  <2>3. PICK n \in 0..1 : (p.framed => n = 1) /\ (~p.framed => n = 0)
    OBVIOUS
  <2>4. Shape(got'[r], d, c, f, n)
    <3>1. CASE p.framed
      <4>1. PICK x \in Chunk :
              /\ got'[r] = Append(g, x) /\ x.kind = "done"
              /\ x.role <=> (~p.roleSent /\ "done" \in {"delta", "call"})
        BY <1>b, <1>x, <2>1, <3>1
      <4> QED
        BY <1>b, <1>p, <2>2, <2>3, <3>1, <4>1, ShapeGrows
    <3>2. CASE ~p.framed
      BY <1>p, <2>1, <2>2, <2>3, <3>2 DEF g
    <3> QED
      BY <3>1, <3>2
  <2>5. Counted(req'[r], b, d, c, f, n)
    <3>1. /\ req'[r].pc = "closing" /\ req'[r].outcome = "complete" /\ req'[r].told = p.told
          /\ req'[r].tools = p.tools /\ req'[r].kind = p.kind /\ req'[r].result = p.result
          /\ req'[r].toolCalls = p.toolCalls /\ req'[r].framed = p.framed
      BY <1>b, <2>1 DEF Request
    <3>2. /\ p.kind # "unary" /\ d = b.deltas /\ (p.toolCalls <=> c > 0)
          /\ p.tools \/ p.result = "finished"
      BY <1>p, <2>1, <2>2 DEF Counted, NoneSent
    <3> QED
      BY <2>2, <2>3, <3>1, <3>2 DEF Counted, Early, Between, Offering, Sends
  <2> QED
    BY <2>1, <2>4, <2>5 DEF Heard, b
<1> QED
  BY <1>1, <1>2, <1>3, <1>4

(***************************************************************************)
(* What the host took is in order, and whole if it was told so.            *)
(***************************************************************************)
\* Whatever does not take a chunk leaves them alone.
LEMMA QuietHears ==
  ASSUME NEW r \in Requests, RequestStep(r) \/ BridgeStep(r),
         ~(DeltaTaken(r) \/ CallTaken(r) \/ FinishTaken(r) \/ Terminate(r))
  PROVE  got' = got
BY Zenon DEF RequestStep, BridgeStep, Acquire, AcquireFails, OverBudget,
  CtxDone, CancelRun, Release, Keep, DeltaRefused, TurnDeltaRefused, Answer, AnswerRefused,
  Close, ImagesFail, Prepared, CreateAgent, CreateFails, OpenSend, AgentNotFound, ResumeAgent,
  SendFails, ReceiveRunID, ReceiveDelta, ReceiveResult, StreamBreaks, StreamCloses, TurnFails,
  TurnAnswers, OnlyReq, OnlyReqAndBridge, Unregister

\* What one request does, the host of another does not hear.
LEMMA OthersHear ==
  ASSUME CursorTypeOK, NEW r \in Requests, NEW s \in Requests, s # r,
         RequestStep(s) \/ BridgeStep(s)
  PROVE  got'[r] = got[r]
<1>1. got' = got \/ \E chunk : got' = [got EXCEPT ![s] = Append(got[s], chunk)]
  <2>1. CASE DeltaTaken(s) \/ CallTaken(s) \/ FinishTaken(s) \/ Terminate(s)
    BY <2>1, Zenon DEF DeltaTaken, CallTaken, FinishTaken, Terminate, Emit
  <2> QED
    BY <2>1, QuietHears
<1> QED
  BY <1>1 DEF CursorTypeOK

LEMMA ChunksFitInit == CursorInit => ChunksFit
<1> SUFFICES ASSUME CursorInit, NEW r \in Requests PROVE Heard(req[r], bridge[r], got[r])
  BY DEF ChunksFit
<1>1. got[r] = <<>> /\ bridge[r].deltas = 0
  BY DEF CursorInit
<1>2. req[r] = [New("unary", FALSE, FALSE) EXCEPT !.pc = "idle"]
  BY DEF CursorInit
<1>3. Shape(got[r], 0, 0, 0, 0)
  BY <1>1 DEF Shape
<1>4. Counted(req[r], bridge[r], 0, 0, 0, 0)
  BY <1>1, <1>2 DEF Counted, New, Early, Between, Offering, Sends, NoneSent
<1> QED
  BY <1>3, <1>4 DEF Heard

LEMMA ChunksFitStep == CursorInv /\ ChunksFit /\ [CursorNext]_cursorVars => ChunksFit'
<1> SUFFICES ASSUME CursorInv, ChunksFit, [CursorNext]_cursorVars, NEW r \in Requests
             PROVE  Heard(req'[r], bridge'[r], got'[r])
  BY DEF ChunksFit, Heard, Counted, Shape
<1> DEFINE Same == req'[r] = req[r] /\ bridge'[r] = bridge[r] /\ got'[r] = got[r]
<1>b. /\ req \in [Requests -> Request] /\ bridge \in [Requests -> Bridge]
      /\ got \in [Requests -> Seq(Chunk)] /\ Heard(req[r], bridge[r], got[r])
  BY DEF CursorInv, CursorTypeOK, ChunksFit
<1>1. ASSUME Same
      PROVE  Heard(req'[r], bridge'[r], got'[r])
  BY <1>b, <1>1
<1> HIDE DEF Same
<1>2. ASSUME NEW s \in Requests, RequestStep(s) \/ BridgeStep(s), s # r
      PROVE  Same
  <2>1. Unregister(s) => req' = [req EXCEPT ![s] = [req[s] EXCEPT !.pc = "ended"]]
                         /\ bridge' = bridge
    BY DEF Unregister, ReqAt, ReqBecomes
  <2>2. ~Unregister(s) => Moves(s)
    BY <1>2, RequestMoves
  <2>3. got'[r] = got[r]
    BY <1>2, OthersHear DEF CursorInv
  <2> QED
    BY <1>b, <1>2, <2>1, <2>2, <2>3 DEF Moves, Same
<1>3. ASSUME NEW s \in Requests, NEW kind \in {"unary", "stream"}, NEW framed \in BOOLEAN,
             NEW tools \in BOOLEAN, Accept(s, kind, framed, tools), s # r
      PROVE  Same
  BY <1>b, <1>3 DEF Accept, ReqBecomes, Same
<1>4. ASSUME NEW kind \in {"unary", "stream"}, NEW framed \in BOOLEAN,
             NEW tools \in BOOLEAN, Accept(r, kind, framed, tools)
      PROVE  Heard(req'[r], bridge'[r], got'[r])
  <2>1. /\ req[r].pc = "idle" /\ req'[r] = New(kind, framed, tools)
        /\ bridge' = bridge /\ got' = got
    BY <1>b, <1>4 DEF Accept, ReqBecomes
  <2>2. PICK d \in Nat, c \in Nat, f \in 0..1, e \in 0..1 :
          Shape(got[r], d, c, f, e) /\ Counted(req[r], bridge[r], d, c, f, e)
    BY <1>b DEF Heard
  <2>3. bridge[r].deltas = 0 /\ d = 0 /\ NoneSent(c, f, e)
    BY <2>1, <2>2 DEF Counted, Early
  <2>4. Counted(req'[r], bridge[r], d, c, f, e)
    BY <2>1, <2>3 DEF Counted, New, Early, Between, Offering, Sends
  <2> QED
    BY <2>1, <2>2, <2>4 DEF Heard
<1>5. ASSUME RequestStep(r) \/ BridgeStep(r)
      PROVE  Heard(req'[r], bridge'[r], got'[r])
  <2>1. CASE DeltaTaken(r) \/ CallTaken(r) \/ FinishTaken(r) \/ Terminate(r)
    BY <1>b, <2>1, LoudStep
  <2>2. CASE ~(DeltaTaken(r) \/ CallTaken(r) \/ FinishTaken(r) \/ Terminate(r))
    <3>1. PICK d \in Nat, c \in Nat, f \in 0..1, e \in 0..1 :
            Shape(got[r], d, c, f, e) /\ Counted(req[r], bridge[r], d, c, f, e)
      BY <1>b DEF Heard
    <3>2. Counted(req'[r], bridge'[r], d, c, f, e)
      BY <1>5, <2>2, <3>1, QuietStep
    <3>3. got'[r] = got[r]
      BY <1>5, <2>2, QuietHears
    <3> QED
      BY <3>1, <3>2, <3>3 DEF Heard
  <2> QED
    BY <2>1, <2>2
<1>6. ASSUME QuiesceCopies \/ (\E s \in Requests : QuiesceCancels(s)) \/ UNCHANGED cursorVars
      PROVE  Same
  BY <1>6 DEF QuiesceCopies, QuiesceCancels, cursorVars, Same
<1> QED
  BY <1>1, <1>2, <1>3, <1>4, <1>5, <1>6 DEF CursorNext

THEOREM ChunksInvariant == CursorSpec => []ChunksFit
BY ChunksFitInit, ChunksFitStep, CursorInvariant, PTL DEF CursorSpec

\* The client of a stream (forwardStream) reads deltas, calls and one finish reason in order and
\* without a gap, and the role in the first chunk with content.
THEOREM StreamsAreInOrder == CursorSpec => []HeardInOrder
<1>1. CursorInv /\ ChunksFit => HeardInOrder
  <2> SUFFICES ASSUME CursorInv, ChunksFit, NEW r \in Requests, NEW i \in DOMAIN got[r]
               PROVE  /\ got[r][i].role <=> (i = 1 /\ got[r][i].kind \in {"delta", "call"})
                      /\ got[r][i].kind = "delta" => got[r][i].number = i
                      /\ \A j \in 1..(i - 1) :
                           \/ Rank(got[r][j].kind) < Rank(got[r][i].kind)
                           \/ /\ got[r][j].kind = got[r][i].kind
                              /\ got[r][i].kind \in {"delta", "call"}
    BY DEF HeardInOrder
  <2>1. PICK d \in Nat, c \in Nat, f \in 0..1, e \in 0..1 : Shape(got[r], d, c, f, e)
    BY DEF ChunksFit, Heard
  <2>2. DOMAIN got[r] = 1..Len(got[r]) /\ Len(got[r]) \in Nat
    BY DEF CursorInv, CursorTypeOK
  <2>3. ASSUME NEW k \in 1..Len(got[r])
        PROVE  /\ k <= d => got[r][k].kind = "delta"
               /\ (d < k /\ k <= d + c) => got[r][k].kind = "call"
               /\ (d + c < k /\ k <= d + c + f) => got[r][k].kind = "finish"
               /\ d + c + f < k => got[r][k].kind = "done"
    BY <2>1 DEF Shape
  <2>4. got[r][i].role <=> (i = 1 /\ d + c > 0)
    BY <2>1, <2>2 DEF Shape
  <2>5. got[r][i].role <=> (i = 1 /\ got[r][i].kind \in {"delta", "call"})
    BY <2>2, <2>3, <2>4
  <2>6. i <= d => got[r][i].number = i
    BY <2>1, <2>2 DEF Shape
  <2>7. got[r][i].kind = "delta" => got[r][i].number = i
    BY <2>2, <2>3, <2>6
  <2>8. ASSUME NEW j \in 1..(i - 1)
        PROVE  \/ Rank(got[r][j].kind) < Rank(got[r][i].kind)
               \/ got[r][j].kind = got[r][i].kind /\ got[r][i].kind \in {"delta", "call"}
    <3>1. /\ Rank("delta") = 1 /\ Rank("call") = 2 /\ Rank("finish") = 3 /\ Rank("done") = 4
      BY DEF Rank
    <3>2. i \in Nat /\ j \in Nat /\ j < i /\ i <= d + c + f + e /\ j \in 1..Len(got[r])
          /\ i \in 1..Len(got[r])
      BY <2>1, <2>2 DEF Shape
    <3>3. CASE i <= d + c
      BY <2>3, <3>1, <3>2, <3>3
    <3>4. CASE d + c < i /\ i <= d + c + f
      BY <2>3, <3>1, <3>2, <3>4
    <3>5. CASE d + c + f < i
      BY <2>3, <3>1, <3>2, <3>5
    <3> QED
      BY <3>2, <3>3, <3>4, <3>5
  <2> QED
    BY <2>5, <2>7, <2>8
<1> QED
  BY <1>1, CursorInvariant, ChunksInvariant, PTL

\* A stream the host was told is complete (closePluginStream) had every delta of the run, every
\* call, the reason that goes with them and its terminator, and a run of its own had finished.
THEOREM CompleteStreamsAreWhole == CursorSpec => []CompleteHasAll
<1>1. CursorInv /\ ChunksFit => CompleteHasAll
  <2> SUFFICES ASSUME CursorInv, ChunksFit, NEW r \in Requests, req[r].told = "complete",
                      req[r].kind = "stream"
               PROVE  LET of(kind) == {i \in DOMAIN got[r] : got[r][i].kind = kind} IN
                      /\ {got[r][i].number : i \in of("delta")} = 1..bridge[r].deltas
                      /\ of("call") # {} <=> req[r].toolCalls
                      /\ \E i \in of("finish") : got[r][i].number = 1 <=> of("call") # {}
                      /\ of("done") # {} <=> req[r].framed
                      /\ req[r].tools \/ req[r].result = "finished"
    BY DEF CompleteHasAll
  <2> DEFINE of(kind) == {i \in DOMAIN got[r] : got[r][i].kind = kind}
  <2>1. PICK d \in Nat, c \in Nat, f \in 0..1, e \in 0..1 :
          Shape(got[r], d, c, f, e) /\ Counted(req[r], bridge[r], d, c, f, e)
    BY DEF ChunksFit, Heard
  <2>2. /\ DOMAIN got[r] = 1..Len(got[r]) /\ Len(got[r]) = d + c + f + e
        /\ req[r].toolCalls \in BOOLEAN /\ req[r].framed \in BOOLEAN
    BY <2>1 DEF CursorInv, CursorTypeOK, Request, Shape
  <2>3. /\ d = bridge[r].deltas /\ f = 1 /\ e = (IF req[r].framed THEN 1 ELSE 0)
        /\ req[r].toolCalls <=> c > 0
        /\ req[r].tools \/ req[r].result = "finished"
    BY <2>1 DEF Counted
  <2>4. \A i \in 1..(d + c + f + e) :
          got[r][i].kind = IF i <= d THEN "delta" ELSE IF i <= d + c THEN "call"
                           ELSE IF i <= d + c + f THEN "finish" ELSE "done"
    BY <2>1, <2>2 DEF Shape
  <2>5. of("delta") = 1..d /\ \A i \in 1..d : got[r][i].number = i
    BY <2>1, <2>2, <2>4 DEF Shape
  <2>6. of("call") # {} <=> c > 0
    <3>1. c > 0 => d + 1 \in of("call")
      BY <2>2, <2>4
    <3>2. \A i \in of("call") : c > 0
      BY <2>2, <2>4
    <3> QED
      BY <3>1, <3>2
  <2>7. d + c + 1 \in of("finish") /\ (got[r][d + c + 1].number = 1 <=> c > 0)
    <3>1. d + c + 1 \in 1..(d + c + f + e) /\ d < d + c + 1 /\ d + c < d + c + 1
          /\ d + c + 1 <= d + c + f
      BY <2>3
    <3>2. got[r][d + c + 1].kind = "finish"
      BY <2>4, <3>1
    <3>3. got[r][d + c + 1].number = IF c > 0 THEN 1 ELSE 0
      BY <2>1, <2>2, <3>1 DEF Shape
    <3> QED
      BY <2>2, <3>1, <3>2, <3>3
  <2>8. of("done") # {} <=> req[r].framed
    <3>1. ASSUME e = 1
          PROVE  d + c + 2 \in of("done")
      <4>1. d + c + 2 \in 1..(d + c + f + e) /\ d + c + f < d + c + 2
        BY <2>3, <3>1
      <4>2. got[r][d + c + 2].kind = "done"
        BY <2>3, <2>4, <4>1
      <4> QED
        BY <2>2, <4>1, <4>2
    <3>2. \A i \in of("done") : e = 1
      BY <2>2, <2>3, <2>4
    <3> QED
      BY <2>3, <3>1, <3>2
  <2>9. {got[r][i].number : i \in of("delta")} = 1..bridge[r].deltas
    BY <2>3, <2>5
  <2> HIDE DEF of
  <2> QED
    BY <2>3, <2>6, <2>7, <2>8, <2>9 DEF of
<1> QED
  BY <1>1, CursorInvariant, ChunksInvariant, PTL

\* The client of a stream hears in order whatever it hears, and everything when the stream is
\* reported complete (executor.go, generate.go:250).
THEOREM StreamsAreWhole == CursorSpec => []StreamIsWhole
<1>1. HeardInOrder /\ CompleteHasAll => StreamIsWhole
  BY DEF StreamIsWhole
<1> QED
  BY <1>1, StreamsAreInOrder, CompleteStreamsAreWhole, PTL

(***************************************************************************)
(* Failures.  A code of the SDK has one status, wherever it comes from.    *)
(***************************************************************************)
StatusOf(code) ==
  CASE code \in DOMAIN requestFaultCodes -> 400
    [] code \in {"UNAUTHORIZED", "API_KEY_NOT_FOUND"} -> 401
    [] code = "ROLE_FORBIDDEN" -> 403
    [] code \in {"RATE_LIMIT_EXCEEDED", "USAGE_LIMIT_EXCEEDED"} -> 429
    [] OTHER -> 0

\* What is made of a failure's parts.
LEMMA Parts ==
  ASSUME NEW status, NEW retryable, NEW says
  PROVE /\ Failure(status, retryable, "numbered", says).status = status
        /\ StatusInText(Failure(status, retryable, "numbered", says)) = status
        /\ Failure(0, retryable, "bare", says).status = 0
        /\ StatusInText(Failure(0, retryable, "bare", says)) = 0
BY DEF Failure, StatusInText

LEMMA StatusOfDetails ==
  ASSUME NEW d
  PROVE /\ failureFromDetails(d).status = StatusOf(d.code)
        /\ StatusInText(failureFromDetails(d)) = StatusOf(d.code)
<1> DEFINE says == FirstSaid(<<d.text, "cursor request failed">>)
           code == d.code
<1> HIDE DEF says
<1>1. /\ DOMAIN requestFaultCodes \cap {"UNAUTHORIZED", "API_KEY_NOT_FOUND"} = {}
      /\ "ROLE_FORBIDDEN" \notin DOMAIN requestFaultCodes
      /\ DOMAIN requestFaultCodes \cap {"RATE_LIMIT_EXCEEDED", "USAGE_LIMIT_EXCEEDED"} = {}
  BY DEF requestFaultCodes
<1>3. CASE code \in DOMAIN requestFaultCodes
  <2>1. failureFromDetails(d) = requestFault(requestFaultCodes[code], says)
    BY <1>1, <1>3 DEF failureFromDetails, says
  <2>2. /\ requestFault(requestFaultCodes[code], says).status = 400
        /\ StatusInText(requestFault(requestFaultCodes[code], says)) = 400
    BY DEF requestFault, StatusInText
  <2>3. StatusOf(code) = 400
    BY <1>1, <1>3 DEF StatusOf
  <2> QED BY <2>1, <2>2, <2>3
<1>4. CASE code \in {"UNAUTHORIZED", "API_KEY_NOT_FOUND"}
  <2>1. failureFromDetails(d) = Failure(401, FALSE, "numbered", says)
    BY <1>1, <1>4 DEF failureFromDetails, upstreamErrorText, says
  <2>2. StatusOf(code) = 401
    BY <1>1, <1>4 DEF StatusOf
  <2> QED BY <2>1, <2>2 DEF Failure, StatusInText
<1>5. CASE code = "ROLE_FORBIDDEN"
  <2>1. failureFromDetails(d) = Failure(403, FALSE, "numbered", says)
    BY <1>1, <1>5 DEF failureFromDetails, upstreamErrorText, says
  <2>2. StatusOf(code) = 403
    BY <1>1, <1>5 DEF StatusOf
  <2> QED BY <2>1, <2>2 DEF Failure, StatusInText
<1>6. CASE code \in {"RATE_LIMIT_EXCEEDED", "USAGE_LIMIT_EXCEEDED"}
  <2>1. failureFromDetails(d) = Failure(429, d.wait, "numbered", rateLimitText(d))
    BY <1>1, <1>6 DEF failureFromDetails, upstreamErrorText
  <2>2. StatusOf(code) = 429
    BY <1>1, <1>6 DEF StatusOf
  <2> QED BY <2>1, <2>2, Parts
<1>7. CASE code \notin DOMAIN requestFaultCodes
             \cup {"UNAUTHORIZED", "API_KEY_NOT_FOUND", "ROLE_FORBIDDEN", "RATE_LIMIT_EXCEEDED",
                   "USAGE_LIMIT_EXCEEDED"}
  <2>1. failureFromDetails(d) = Failure(0, d.wait, "bare", says)
    BY <1>7 DEF failureFromDetails, says
  <2>2. StatusOf(code) = 0
    BY <1>7 DEF StatusOf
  <2> QED BY <2>1, <2>2, Parts
<1> QED BY <1>3, <1>4, <1>5, <1>6, <1>7

\* What a call's error says where its details say nothing.
LEMMA StatusOfTransport ==
  ASSUME NEW err
  PROVE /\ err.connect = "unauthenticated" => failureFromTransport(err).status = 401
        /\ err.connect \in ConnectCodes =>
             StatusInText(failureFromTransport(err)) = failureFromTransport(err).status
<1> DEFINE says == transportMessage(err)
<1> HIDE DEF says
<1>1. CASE err.connect = "unauthenticated"
  <2>1. failureFromTransport(err) = Failure(401, FALSE, "numbered", says)
    BY <1>1 DEF failureFromTransport, upstreamErrorText, says
  <2> QED BY <2>1 DEF Failure, StatusInText
<1>2. CASE err.connect = "permission_denied"
  <2>1. failureFromTransport(err) = Failure(403, FALSE, "numbered", says)
    BY <1>2 DEF failureFromTransport, upstreamErrorText, says
  <2> QED BY <1>2, <2>1 DEF Failure, StatusInText
<1>3. CASE err.connect = "resource_exhausted"
  <2>1. failureFromTransport(err) = Failure(429, TRUE, "numbered", says)
    BY <1>3 DEF failureFromTransport, upstreamErrorText, says
  <2> QED BY <1>3, <2>1 DEF Failure, StatusInText
<1>4. CASE err.connect \in {"deadline_exceeded", "unavailable"}
  <2>1. failureFromTransport(err) = Failure(0, TRUE, "bare", says)
    BY <1>4 DEF failureFromTransport, says
  <2> QED BY <1>4, <2>1 DEF Failure, StatusInText
<1>5. CASE err.connect \notin {"unauthenticated", "permission_denied", "resource_exhausted",
                               "deadline_exceeded", "unavailable"}
  <2> DEFINE text == "the error"
  <2>1. failureFromTransport(err) = Failure(0, FALSE, "bare", text)
    BY <1>5 DEF failureFromTransport
  <2> HIDE DEF text
  <2> QED BY <1>5, <2>1 DEF Failure, StatusInText
<1> QED BY <1>1, <1>2, <1>3, <1>4, <1>5

LEMMA RunBlamesRequest ==
  ASSUME NEW says
  PROVE runFailure(says).status = 400 /\ StatusInText(runFailure(says)) = 400
BY DEF runFailure, requestFault, StatusInText

\* A code of the SDK, in details or in a result.
LEMMA StatusOfCall ==
  ASSUME NEW err \in CallErrors
  PROVE /\ err.details.code \in SdkCodes \ {"UNSPECIFIED"} =>
             failureFrom(err).status = StatusOf(err.details.code)
        /\ err.connect = "unauthenticated" /\ err.details.code \in {Nothing, "UNSPECIFIED"} =>
             failureFrom(err).status = 401
        /\ StatusInText(failureFrom(err)) = failureFrom(err).status
<1>1. /\ err.connect \in ConnectCodes
      /\ \/ err.details = NoDetails
         \/ \E s \in SdkCodes, u \in Said, w \in BOOLEAN : err.details = Details(s, u, w)
  BY DEF CallErrors, CallError
<1>2. Nothing \notin SdkCodes /\ NoDetails.code = Nothing
  BY DEF Nothing, SdkCodes, NoDetails, Details
<1>3. err.details # NoDetails => err.details.code \in SdkCodes
  <2> SUFFICES ASSUME err.details # NoDetails
               PROVE  err.details.code \in SdkCodes
    OBVIOUS
  <2>1. PICK s \in SdkCodes, u \in Said, w \in BOOLEAN : err.details = Details(s, u, w)
    BY <1>1
  <2>2. Details(s, u, w).code = s
    BY DEF Details
  <2> QED BY <2>1, <2>2
<1>4. CASE err.details # NoDetails /\ err.details.code # "UNSPECIFIED"
  <2>1. failureFrom(err) = failureFromDetails(err.details)
    BY <1>4 DEF failureFrom, sdkErrorDetails
  <2> QED BY <1>2, <1>3, <1>4, <2>1, StatusOfDetails
<1>5. CASE err.details = NoDetails \/ err.details.code = "UNSPECIFIED"
  <2>1. failureFrom(err) = failureFromTransport(err)
    BY <1>5 DEF failureFrom, sdkErrorDetails
  <2> QED BY <1>1, <1>2, <1>5, <2>1, StatusOfTransport
<1> QED BY <1>4, <1>5

LEMMA StatusOfRun ==
  ASSUME NEW result, NEW message
  PROVE /\ runFailureFromResult(result, message).status
             = IF result.code \in SdkCodes \ {"UNSPECIFIED"} THEN StatusOf(result.code) ELSE 400
        /\ StatusInText(runFailureFromResult(result, message))
             = runFailureFromResult(result, message).status
<1> DEFINE says == runFailureMessage(result, message)
<1> HIDE DEF says
<1>1. CASE result.code \in SdkCodes \ {"UNSPECIFIED"}
  <2> DEFINE d == Details(result.code, says, FALSE)
  <2>1. d.code = result.code /\ NoDetails.code = Nothing /\ Nothing \notin SdkCodes
    BY DEF Details, NoDetails, Nothing, SdkCodes
  <2>2. d # NoDetails
    BY <1>1, <2>1
  <2>3. sdkErrorDetailsFromRun(result, message) = d
    BY <1>1 DEF sdkErrorDetailsFromRun, says
  <2> HIDE DEF d
  <2>4. runFailureFromResult(result, message) = failureFromDetails(d)
    BY <2>2, <2>3 DEF runFailureFromResult
  <2> QED BY <1>1, <2>1, <2>4, StatusOfDetails
<1>2. CASE result.code \notin SdkCodes \ {"UNSPECIFIED"}
  <2>1. runFailureFromResult(result, message) = runFailure(says)
    BY <1>2 DEF runFailureFromResult, sdkErrorDetailsFromRun, says
  <2> QED BY <1>2, <2>1, RunBlamesRequest
<1> QED BY <1>1, <1>2

LEMMA FaultIsTold == EveryFaultIsTold
<1>1. ASSUME NEW err \in CallErrors, NEW result \in RunResults, NEW message \in Said,
             err.details.code = result.code, result.code \in SdkCodes \ {"UNSPECIFIED"}
      PROVE  failureFrom(err).status = runFailureFromResult(result, message).status
  BY <1>1, StatusOfCall, StatusOfRun
<1>2. ASSUME NEW err \in CallErrors
      PROVE  /\ err.connect = "unauthenticated" /\ err.details.code \in {Nothing, "UNSPECIFIED"} =>
                  failureFrom(err).status = 401
             /\ StatusInText(failureFrom(err)) = failureFrom(err).status
  BY StatusOfCall
<1>3. ASSUME NEW result \in RunResults, NEW message \in Said
      PROVE  /\ result.code \notin SdkCodes \ {"UNSPECIFIED"} =>
                  runFailureFromResult(result, message).status = 400
             /\ StatusInText(runFailureFromResult(result, message))
                  = runFailureFromResult(result, message).status
  BY StatusOfRun
<1> QED BY <1>1, <1>2, <1>3 DEF EveryFaultIsTold

\* Who is told of a request's failure is told the status of its fault, in the answer's status
\* and in its text alike, whether a call's error or a run's result brought it
\* (bridge_errors.go:43), for all that may be said and any further codes.
THEOREM FaultsStayTold == CursorSpec => []FaultsAreTold
<1>1. FaultsAreTold
  BY FaultIsTold DEF FaultsAreTold
<1> QED BY <1>1, PTL

(***************************************************************************)
(* Texts, and the names of what is kept of a list.                         *)
(***************************************************************************)
\* What is taken off a text: blanks at its ends.
LEMMA TrimmedIs ==
  ASSUME NEW T, NEW letters \in Seq(T)
  PROVE  /\ Trimmed(letters) \in Seq(T)
         /\ ToSet(Trimmed(letters)) \subseteq ToSet(letters)
         /\ Trimmed(letters) # <<>> => Trimmed(letters)[1] # " "
<1> DEFINE blank == " "
<1>1. Trimmed(letters)
        = IF ApartFrom(letters, blank) = {} THEN <<>> ELSE Middle(letters, blank)
  BY Zenon DEF Trimmed, ApartFrom, Middle
<1> HIDE DEF blank
<1>2. /\ Trimmed(letters) \in Seq(T) /\ ToSet(Trimmed(letters)) \subseteq ToSet(letters)
      /\ Trimmed(letters) # <<>> => Trimmed(letters)[1] # blank
  <2>1. CASE ApartFrom(letters, blank) = {}
    BY <1>1, <2>1 DEF ToSet
  <2>2. CASE ApartFrom(letters, blank) # {}
    BY <1>1, <2>2, MiddleIs
  <2> QED BY <2>1, <2>2
<1> QED BY <1>2, Zenon DEF blank

LEMMA TextType ==
  ASSUME NEW value, IsValue(value)
  PROVE  TextOf(value) \in Seq(STRING)
<1>1. <<>> \in Seq(STRING)
  BY EmptySeq
<1> QED BY <1>1, Zenon DEF TextOf, IsValue

NamesOf(s) == [i \in DOMAIN s |-> s[i].name]

LEMMA NamesAppend ==
  ASSUME NEW T, NEW s \in Seq(T), NEW x \in T
  PROVE  /\ NamesOf(Append(s, x)) = Append(NamesOf(s), x.name)
         /\ NamesOf(s) \in Seq({t.name : t \in T})
<1>1. /\ Len(s) \in Nat /\ DOMAIN s = 1 .. Len(s) /\ Len(Append(s, x)) = Len(s) + 1
      /\ DOMAIN Append(s, x) = 1 .. Len(s) + 1
      /\ \A i \in 1 .. Len(s) : Append(s, x)[i] = s[i] /\ s[i] \in T
      /\ Append(s, x)[Len(s) + 1] = x
  OBVIOUS
<1>2. NamesOf(s) \in Seq({t.name : t \in T}) /\ Len(NamesOf(s)) = Len(s)
  BY <1>1 DEF NamesOf
<1>3. x.name \in {t.name : t \in T}
  OBVIOUS
<1>4. /\ DOMAIN Append(NamesOf(s), x.name) = 1 .. Len(s) + 1
      /\ \A i \in 1 .. Len(s) : Append(NamesOf(s), x.name)[i] = s[i].name
      /\ Append(NamesOf(s), x.name)[Len(s) + 1] = x.name
      /\ Append(NamesOf(s), x.name) \in Seq({t.name : t \in T})
    <2>1. \A i \in 1 .. Len(s) : NamesOf(s)[i] = s[i].name
      BY <1>1 DEF NamesOf
    <2> QED BY <1>2, <1>3, <2>1
<1>5. /\ DOMAIN NamesOf(Append(s, x)) = 1 .. Len(s) + 1
      /\ \A i \in 1 .. Len(s) + 1 : NamesOf(Append(s, x))[i] = Append(s, x)[i].name
  BY <1>1 DEF NamesOf
<1>6. \A i \in 1 .. Len(s) + 1 : NamesOf(Append(s, x))[i] = Append(NamesOf(s), x.name)[i]
  BY <1>1, <1>4, <1>5
<1>7. NamesOf(Append(s, x)) = [i \in DOMAIN NamesOf(Append(s, x)) |-> NamesOf(Append(s, x))[i]]
  BY DEF NamesOf
<1>8. Append(NamesOf(s), x.name)
        = [i \in DOMAIN Append(NamesOf(s), x.name) |-> Append(NamesOf(s), x.name)[i]]
  BY <1>4
<1> QED BY <1>2, <1>4, <1>5, <1>6, <1>7, <1>8

\* To keep by name is to keep the names.
LEMMA NamesKept ==
  ASSUME NEW T, NEW s \in Seq(T), NEW dropped, NEW names,
         \A i \in DOMAIN s : s[i] \in dropped <=> s[i].name \in names
  PROVE  NamesOf(Without(s, dropped)) = Without(NamesOf(s), names)
<1> DEFINE Agree(t) == \A i \in DOMAIN t : t[i] \in dropped <=> t[i].name \in names
           S == {t \in Seq(T) : Agree(t) => NamesOf(Without(t, dropped)) = Without(NamesOf(t), names)}
<1>1. <<>> \in S
  <2>1. NamesOf(<<>>) = <<>>
    BY DEF NamesOf
  <2> QED BY <2>1, WithoutEmpty
<1>2. ASSUME NEW t \in Seq(T), NEW x \in T, t \in S
      PROVE  Append(t, x) \in S
  <2>1. Append(t, x) \in Seq(T)
    OBVIOUS
  <2> SUFFICES ASSUME Agree(Append(t, x))
               PROVE  NamesOf(Without(Append(t, x), dropped)) = Without(NamesOf(Append(t, x)), names)
    BY <2>1
  <2>2. Agree(t) /\ (x \in dropped <=> x.name \in names)
    <3>1. /\ DOMAIN Append(t, x) = 1 .. Len(t) + 1 /\ DOMAIN t = 1 .. Len(t) /\ Len(t) \in Nat
          /\ \A i \in 1 .. Len(t) : Append(t, x)[i] = t[i]
          /\ Append(t, x)[Len(t) + 1] = x
      OBVIOUS
    <3>2. \A i \in 1 .. Len(t) : i \in 1 .. Len(t) + 1
      BY <3>1
    <3>3. Len(t) + 1 \in 1 .. Len(t) + 1
      BY <3>1
    <3> QED BY <3>1, <3>2, <3>3
  <2>3. NamesOf(Without(t, dropped)) = Without(NamesOf(t), names)
    BY <1>2, <2>2
  <2>4. Without(Append(t, x), dropped)
          = IF x \in dropped THEN Without(t, dropped) ELSE Append(Without(t, dropped), x)
    BY WithoutAppend
  <2>5. Without(t, dropped) \in Seq(T)
    BY WithoutKeeps
  <2>6. NamesOf(Append(t, x)) = Append(NamesOf(t), x.name) /\ NamesOf(t) \in Seq({u.name : u \in T})
    BY NamesAppend
  <2>7. Without(Append(NamesOf(t), x.name), names)
          = IF x.name \in names THEN Without(NamesOf(t), names)
            ELSE Append(Without(NamesOf(t), names), x.name)
    <3> DEFINE N == {u.name : u \in T}
               y == x.name
               ys == NamesOf(t)
    <3>1. y \in N /\ ys \in Seq(N)
      BY <2>6
    <3> HIDE DEF N, y, ys
    <3>2. Without(Append(ys, y), names)
            = IF y \in names THEN Without(ys, names) ELSE Append(Without(ys, names), y)
      BY <3>1, WithoutAppend
    <3> QED BY <3>2 DEF y, ys
  <2>8. NamesOf(Append(Without(t, dropped), x)) = Append(NamesOf(Without(t, dropped)), x.name)
    BY <2>5, NamesAppend
  <2> QED BY <2>2, <2>3, <2>4, <2>6, <2>7, <2>8
<1> HIDE DEF S
<1>3. Seq(T) \subseteq S
  BY <1>1, <1>2, SeqInduction
<1> QED BY <1>3 DEF S

-----------------------------------------------------------------------------
(* What is made of a request.                                              *)

\* The parameters a request has in all.
ParamsOf(body, original) ==
  LET params == chatParams(body) IN
  IF suppliedParameter(params, fastParameter) THEN params ELSE params \o serviceTierParam(original)

CallOf(body, original, chosen) ==
  [key |-> "key", proxy |-> "", model |-> "m", tools |-> chosen, prompt |-> body.prompt,
   params |-> ParamsOf(body, original)]

LEMMA BuildIs ==
  ASSUME NEW body, NEW original, body.messages
  PROVE  buildGenerateRequest(ClientRequest(body, original))
           = {CallOf(body, original, chosen) :
                chosen \in UNION {applyToolChoice(body.tool_choice, t) : t \in parseChatTools(body.tools)}}
<1> DEFINE x == ClientRequest(body, original)
<1>1. /\ x.key = "key" /\ x.proxy = "" /\ x.model = "m" /\ x.body = body /\ x.original = original
  BY DEF ClientRequest
<1> HIDE DEF x
<1>2. "key" # "" /\ "m" # ""
  OBVIOUS
<1> DEFINE made == UNION {applyToolChoice(x.body.tool_choice, t) : t \in parseChatTools(x.body.tools)}
           params == IF suppliedParameter(chatParams(x.body), fastParameter) THEN chatParams(x.body)
                     ELSE chatParams(x.body) \o serviceTierParam(x.original)
<1>3. buildGenerateRequest(x)
        = {[key |-> x.key, proxy |-> x.proxy, model |-> x.model, tools |-> chosen,
            prompt |-> x.body.prompt, params |-> params] : chosen \in made}
  BY <1>1, <1>2, Zenon DEF buildGenerateRequest
<1>4. params = ParamsOf(body, original)
  BY <1>1 DEF ParamsOf
<1>5. made = UNION {applyToolChoice(body.tool_choice, t) : t \in parseChatTools(body.tools)}
  BY <1>1
<1> HIDE DEF params
<1>6. buildGenerateRequest(x) = {CallOf(body, original, chosen) : chosen \in made}
  <2> HIDE DEF made
  <2>1. ASSUME NEW chosen
        PROVE  [key |-> x.key, proxy |-> x.proxy, model |-> x.model, tools |-> chosen,
                prompt |-> x.body.prompt, params |-> params] = CallOf(body, original, chosen)
    BY <1>1, <1>4 DEF CallOf
  <2> QED BY <1>3, <2>1
<1> QED BY <1>5, <1>6 DEF x

Wanted(choice, names) ==
  CASE TextOf(choice) = <<"none">> -> <<>>
    [] Is("object", choice) -> Without(names, {a \in ToSet(names) : a # choice.object})
    [] OTHER -> names

LEMMA NamesEmpty ==
  ASSUME NEW T, NEW s \in Seq(T)
  PROVE  NamesOf(s) = <<>> <=> s = <<>>
<1>1. DOMAIN NamesOf(s) = DOMAIN s
  BY DEF NamesOf
<1>2. s = <<>> => NamesOf(s) = <<>>
  BY DEF NamesOf
<1>3. NamesOf(s) = <<>> => DOMAIN s = {}
  BY <1>1
<1>4. DOMAIN s = 1 .. Len(s) /\ Len(s) \in Nat
  OBVIOUS
<1>5. DOMAIN s = {} => Len(s) = 0
  BY <1>4
<1>6. Len(s) = 0 => s = <<>>
  BY EmptySeq
<1> QED BY <1>2, <1>3, <1>5, <1>6

LEMMA NamesSet ==
  ASSUME NEW s
  PROVE  ToSet(NamesOf(s)) = {t.name : t \in ToSet(s)}
BY DEF NamesOf, ToSet

LEMMA ChoiceIs ==
  ASSUME NEW T, NEW s \in Seq(T), NEW choice, IsValue(choice)
  PROVE  /\ applyToolChoice(choice, s) = {} <=> Is("object", choice) /\ Wanted(choice, NamesOf(s)) = <<>>
         /\ \A c \in applyToolChoice(choice, s) :
              c \in Seq(T) /\ ToSet(c) \subseteq ToSet(s) /\ NamesOf(c) = Wanted(choice, NamesOf(s))
<1> DEFINE names == NamesOf(s)
           others == {t \in ToSet(s) : t.name # choice.object}
           kept == Without(s, others)
<1>1. Is("object", choice) => ~ Is("text", choice)
  BY DEF IsValue, Is
<1>2. <<>> # <<"none">>
  OBVIOUS
<1>3. CASE Is("object", choice)
  <2>1. TextOf(choice) = <<>>
    BY <1>1, <1>3 DEF TextOf
  <2>2. Wanted(choice, names) = Without(names, {a \in ToSet(names) : a # choice.object})
    BY <1>2, <1>3, <2>1 DEF Wanted
  <2>3. applyToolChoice(choice, s) = {kept} \ {<<>>}
    <3>1. applyToolChoice(choice, s) = ToolNamed(choice.object, s)
      BY <1>1, <1>3 DEF applyToolChoice
    <3> QED BY <3>1 DEF ToolNamed
  <2>4. NamesOf(kept) = Without(names, {a \in ToSet(names) : a # choice.object})
    <3>1. \A i \in DOMAIN s : s[i] \in ToSet(s) /\ s[i].name \in ToSet(names)
      BY DEF ToSet, NamesOf
    <3>2. \A i \in DOMAIN s :
            s[i] \in others <=> s[i].name \in {a \in ToSet(names) : a # choice.object}
      BY <3>1
    <3> HIDE DEF others
    <3> QED BY <3>2, NamesKept
  <2>5. kept \in Seq(T) /\ ToSet(kept) \subseteq ToSet(s)
    <3> HIDE DEF others
    <3> QED BY WithoutKeeps
  <2> HIDE DEF kept, names
  <2>6. kept = <<>> <=> Wanted(choice, names) = <<>>
    BY <2>2, <2>4, <2>5, NamesEmpty
  <2> QED BY <1>3, <2>2, <2>3, <2>4, <2>5, <2>6 DEF names
<1>4. CASE Is("text", choice) /\ TextOf(choice) = <<"none">>
  <2>1. ~ Is("object", choice)
    BY <1>1, <1>4
  <2>2. applyToolChoice(choice, s) = {<<>>}
    BY <1>4, <2>1 DEF applyToolChoice
  <2>3. Wanted(choice, names) = <<>>
    BY <1>4, <2>1 DEF Wanted
  <2>4. NamesOf(<<>>) = <<>> /\ <<>> \in Seq(T) /\ ToSet(<<>>) = {}
    BY EmptySeq DEF NamesOf, ToSet
  <2> QED BY <2>1, <2>2, <2>3, <2>4
<1>5. CASE ~ Is("object", choice) /\ ~ (Is("text", choice) /\ TextOf(choice) = <<"none">>)
  <2>1. TextOf(choice) # <<"none">>
    BY <1>2, <1>5 DEF TextOf
  <2>2. applyToolChoice(choice, s) = {s}
    BY <1>5 DEF applyToolChoice
  <2>3. Wanted(choice, names) = names
    BY <1>5, <2>1 DEF Wanted
  <2> QED BY <1>5, <2>2, <2>3
<1> QED BY <1>3, <1>4, <1>5

LEMMA SchemaKinds ==
  ASSUME NEW tool \in Tools
  PROVE  /\ HasSchema(tool) <=> ~ \E kind \in {"number", "text", "array"} : Is(kind, tool.parameters)
         /\ Is("object", parseFunctionTool(tool).schema)
         /\ parseFunctionTool(tool).name = tool.name
<1>1. PICK kind \in Kinds : DOMAIN tool.parameters = {kind}
  BY CallAssumption DEF IsValue
<1>2. HasSchema(tool) <=> ~ \E k \in {"number", "text", "array"} : Is(k, tool.parameters)
  BY <1>1 DEF HasSchema, Is, Kinds
<1>3. Is("object", AnyObject)
  BY DEF Is, AnyObject, Object
<1> QED BY <1>2, <1>3 DEF parseFunctionTool

LEMMA ToolsMeant == ToolsAreTheClients
<1> SUFFICES ASSUME NEW n \in 0 .. MaxTools, NEW tools \in [1 .. n -> Tools], NEW choice \in ToolChoices
             PROVE  LET body == [Plain EXCEPT !.tools = List(tools), !.tool_choice = choice]
                        functions == FunctionTools(List(tools))
                        names == [i \in DOMAIN functions |-> functions[i].name]
                        wanted == Wanted(choice, names)
                        calls == buildGenerateRequest(ClientRequest(body, Missing)) IN
                    /\ calls = {} <=>
                         \/ "" \in ToSet(names) \/ ~ IsInjective(names)
                         \/ \E i \in DOMAIN functions, kind \in {"number", "text", "array"} :
                              Is(kind, functions[i].parameters)
                         \/ Is("object", choice) /\ wanted = <<>>
                    /\ \A made \in calls :
                         /\ [i \in DOMAIN made.tools |-> made.tools[i].name] = wanted
                         /\ \A i \in DOMAIN made.tools : Is("object", made.tools[i].schema)
                         /\ LET local == localAgentOptions(made.tools) IN
                            /\ {t.name : t \in local.customTools} = ToSet(wanted)
                            /\ local.tools = IF wanted = <<>> THEN {} ELSE {"mcp"}
  BY DEF ToolsAreTheClients, Wanted
<1> DEFINE body == [Plain EXCEPT !.tools = List(tools), !.tool_choice = choice]
           fs == FunctionTools(List(tools))
           names == NamesOf(fs)
           wanted == Wanted(choice, names)
           calls == buildGenerateRequest(ClientRequest(body, Missing))
           parsed == [i \in DOMAIN fs |-> parseFunctionTool(fs[i])]
           P == {parseFunctionTool(t) : t \in Tools}
           bad == \/ \E i \in DOMAIN fs : fs[i].name = "" \/ ~ HasSchema(fs[i])
                  \/ \E i, j \in DOMAIN fs : i # j /\ fs[i].name = fs[j].name
<1>1. fs \in Seq(Tools)
  <2>1. tools \in Seq(Tools)
    BY CallAssumption, SeqDef
  <2>2. List(tools).array = tools /\ Is("array", List(tools))
    BY DEF List, Is
  <2>3. fs = Without(tools, {t \in ToSet(tools) : ~ IsFunction(t)})
    BY <2>2 DEF FunctionTools
  <2> QED BY <2>1, <2>3, WithoutKeeps
<1>2. body.messages /\ body.tools = List(tools) /\ body.tool_choice = choice
  BY DEF Plain
<1>3. IsValue(choice)
  BY CallAssumption
<1> HIDE DEF fs
<1>4. /\ parsed \in Seq(P) /\ NamesOf(parsed) = names
      /\ \A p \in P : Is("object", p.schema)
  <2>1. DOMAIN fs = 1 .. Len(fs) /\ Len(fs) \in Nat /\ \A i \in DOMAIN fs : fs[i] \in Tools
    BY <1>1
  <2>2. parsed \in [1 .. Len(fs) -> P]
    BY <2>1
  <2>3. parsed \in Seq(P)
    <3> HIDE DEF parsed, P
    <3> QED BY <2>1, <2>2, SeqDef
  <2>4. \A i \in DOMAIN fs : parsed[i].name = fs[i].name
    BY <2>1, SchemaKinds
  <2>5. NamesOf(parsed) = names
    BY <2>4 DEF NamesOf
  <2> QED BY <2>3, <2>5, SchemaKinds
<1>5. parseChatTools(List(tools)) = IF bad THEN {} ELSE {parsed}
  BY DEF parseChatTools, fs
<1>6. calls = {CallOf(body, Missing, chosen) :
                 chosen \in IF bad THEN {} ELSE applyToolChoice(choice, parsed)}
  <2> DEFINE made == UNION {applyToolChoice(choice, t) : t \in parseChatTools(List(tools))}
  <2>1. calls = {CallOf(body, Missing, chosen) : chosen \in made}
    <3> HIDE DEF body
    <3> QED BY <1>2, BuildIs
  <2>2. made = IF bad THEN {} ELSE applyToolChoice(choice, parsed)
    <3> HIDE DEF bad, parsed
    <3> QED BY <1>5
  <2> HIDE DEF made, bad, parsed, body, calls
  <2> QED BY <2>1, <2>2
<1>7. bad <=> \/ "" \in ToSet(names) \/ ~ IsInjective(names)
              \/ \E i \in DOMAIN fs, kind \in {"number", "text", "array"} : Is(kind, fs[i].parameters)
  <2>1. DOMAIN names = DOMAIN fs /\ \A i \in DOMAIN fs : names[i] = fs[i].name
    BY DEF NamesOf
  <2>2. "" \in ToSet(names) <=> \E i \in DOMAIN fs : fs[i].name = ""
    BY <2>1 DEF ToSet
  <2>3. IsInjective(names) <=> ~ \E i, j \in DOMAIN fs : i # j /\ fs[i].name = fs[j].name
    BY <2>1 DEF IsInjective
  <2>4. \A i \in DOMAIN fs :
          ~ HasSchema(fs[i]) <=> \E kind \in {"number", "text", "array"} : Is(kind, fs[i].parameters)
    BY <1>1, SchemaKinds
  <2> HIDE DEF names
  <2> QED BY <2>2, <2>3, <2>4
<1> DEFINE chosenOnes == applyToolChoice(choice, parsed)
<1>8. /\ chosenOnes = {} <=> Is("object", choice) /\ wanted = <<>>
      /\ \A c \in chosenOnes : c \in Seq(P) /\ ToSet(c) \subseteq ToSet(parsed) /\ NamesOf(c) = wanted
  <2> HIDE DEF parsed, P, names
  <2> QED BY <1>3, <1>4, ChoiceIs
<1>9. calls = {} <=> bad \/ chosenOnes = {}
  <2> DEFINE all == IF bad THEN {} ELSE chosenOnes
  <2>1. calls = {CallOf(body, Missing, chosen) : chosen \in all}
    BY <1>6
  <2> HIDE DEF all, calls, body
  <2>2. calls = {} <=> all = {}
    BY <2>1
  <2> HIDE DEF bad, chosenOnes
  <2> QED BY <2>2 DEF all
<1>10. ASSUME NEW made \in calls
       PROVE  /\ NamesOf(made.tools) = wanted
              /\ \A i \in DOMAIN made.tools : Is("object", made.tools[i].schema)
              /\ {t.name : t \in localAgentOptions(made.tools).customTools} = ToSet(wanted)
              /\ localAgentOptions(made.tools).tools = IF wanted = <<>> THEN {} ELSE {"mcp"}
  <2> HIDE DEF bad, chosenOnes, calls, body, P, wanted
  <2>1. PICK c \in chosenOnes : made = CallOf(body, Missing, c)
    BY <1>6 DEF chosenOnes
  <2>2. made.tools = c
    BY <2>1 DEF CallOf
  <2>3. c \in Seq(P) /\ NamesOf(c) = wanted
    BY <1>8
  <2>4. \A i \in DOMAIN c : Is("object", c[i].schema)
    <3>1. \A i \in DOMAIN c : c[i] \in P
      BY <2>3
    <3> QED BY <1>4, <3>1
  <2>5. {t.name : t \in ToSet(c)} = ToSet(wanted)
    BY <2>3, NamesSet
  <2>6. c = <<>> <=> wanted = <<>>
    BY <2>3, NamesEmpty
  <2> QED BY <2>2, <2>3, <2>4, <2>5, <2>6 DEF localAgentOptions, agentToolList
<1>11. [i \in DOMAIN fs |-> fs[i].name] = names
  BY DEF NamesOf
<1> HIDE DEF bad, chosenOnes, calls, body, parsed, P, wanted, names
<1>12. /\ calls = {} <=>
            \/ "" \in ToSet(names) \/ ~ IsInjective(names)
            \/ \E i \in DOMAIN fs, kind \in {"number", "text", "array"} : Is(kind, fs[i].parameters)
            \/ Is("object", choice) /\ wanted = <<>>
  BY <1>7, <1>8, <1>9
<1> QED BY <1>10, <1>11, <1>12 DEF fs, calls, body, wanted, NamesOf

-----------------------------------------------------------------------------
(* The parameters, and how the key of a session spells them.               *)

\* A text of an effort that is taken for one parameter's.
EffortsAreWords == \A value \in Efforts : "," \notin ToSet(TextOf(value))

FastParam == Param(fastParameter, <<"true">>)

\* The parameters of an effort, with the fast mode or without.
ParamsMade(effort, fast) ==
  (IF effort = <<>> THEN <<>> ELSE <<Param("reasoning_effort", effort)>>)
    \o (IF fast THEN <<FastParam>> ELSE <<>>)

LEMMA AppendToOne ==
  ASSUME NEW p, NEW q
  PROVE  Append(<<p>>, q) = <<p, q>>
<1> DEFINE T == {p, q}
           s == Append(<<p>>, q)
           t == <<p, q>>
<1>1. /\ s \in Seq(T) /\ Len(s) = 2 /\ s[1] = p /\ s[2] = q
  <2>1. <<p>> \in Seq(T) /\ q \in T /\ Len(<<p>>) = 1 /\ <<p>>[1] = p
    OBVIOUS
  <2> HIDE DEF T
  <2> QED BY <2>1, AppendProperties
<1>2. t \in Seq(T) /\ Len(t) = 2 /\ t[1] = p /\ t[2] = q
  OBVIOUS
<1> HIDE DEF s, t, T
<1>3. \A i \in 1 .. 2 : s[i] = t[i]
  BY <1>1, <1>2
<1>4. s = t
  BY <1>1, <1>2, <1>3, SeqEqual
<1> QED BY <1>4 DEF s, t

LEMMA AppendToTwo ==
  ASSUME NEW p, NEW q, NEW r
  PROVE  Append(<<p, q>>, r) = <<p, q, r>>
<1> DEFINE T == {p, q, r}
           s == Append(<<p, q>>, r)
           t == <<p, q, r>>
<1>1. /\ s \in Seq(T) /\ Len(s) = 3 /\ s[1] = p /\ s[2] = q /\ s[3] = r
  <2>1. /\ <<p, q>> \in Seq(T) /\ r \in T /\ Len(<<p, q>>) = 2
        /\ <<p, q>>[1] = p /\ <<p, q>>[2] = q
    OBVIOUS
  <2> HIDE DEF T
  <2> QED BY <2>1, AppendProperties
<1>2. t \in Seq(T) /\ Len(t) = 3 /\ t[1] = p /\ t[2] = q /\ t[3] = r
  OBVIOUS
<1> HIDE DEF s, t, T
<1>3. \A i \in 1 .. 3 : s[i] = t[i]
  BY <1>1, <1>2
<1>4. s = t
  BY <1>1, <1>2, <1>3, SeqEqual
<1> QED BY <1>4 DEF s, t

LEMMA Joined ==
  ASSUME NEW p, NEW q
  PROVE  <<>> \o <<>> = <<>> /\ <<>> \o <<q>> = <<q>> /\ <<p>> \o <<>> = <<p>> /\ <<p>> \o <<q>> = <<p, q>>
<1> DEFINE T == {p, q}
<1>1. <<p>> \in Seq(T) /\ <<q>> \in Seq(T) /\ <<>> \in Seq(T)
  OBVIOUS
<1>2. <<p>> \o <<q>> = <<p, q>>
  <2>1. Append(<<p>>, q) = <<p, q>>
    BY AppendToOne
  <2>2. <<p>> \o <<q>> = Append(<<p>>, q)
    BY <1>1, AppendIsConcat
  <2> QED BY <2>1, <2>2
<1> HIDE DEF T
<1> QED BY <1>1, <1>2, ConcatEmptySeq

LEMMA MadeMembers ==
  ASSUME NEW effort, NEW fast \in BOOLEAN
  PROVE  LET params == ParamsMade(effort, fast) IN
         /\ effort = <<>> /\ ~fast => params = <<>>
         /\ effort = <<>> /\ fast => params = <<FastParam>>
         /\ effort # <<>> /\ ~fast => params = <<Param("reasoning_effort", effort)>>
         /\ effort # <<>> /\ fast => params = <<Param("reasoning_effort", effort), FastParam>>
<1> DEFINE p == Param("reasoning_effort", effort)
           q == FastParam
<1>1. /\ <<>> \o <<>> = <<>> /\ <<>> \o <<q>> = <<q>> /\ <<p>> \o <<>> = <<p>>
      /\ <<p>> \o <<q>> = <<p, q>>
  <2> HIDE DEF p, q
  <2> QED BY Joined
<1> QED BY <1>1 DEF ParamsMade

LEMMA MadeFits ==
  ASSUME NEW effort, NEW fast \in BOOLEAN
  PROVE  LET params == ParamsMade(effort, fast) IN
         /\ \A i, j \in DOMAIN params : i # j => params[i].id # params[j].id
         /\ suppliedParameter(params, fastParameter) <=> fast
         /\ suppliedParameter(params, "reasoning_effort") <=> effort # <<>>
         /\ \A i \in DOMAIN params : params[i].id = "reasoning_effort" => params[i].value = effort
<1> DEFINE p == Param("reasoning_effort", effort)
           q == FastParam
           params == ParamsMade(effort, fast)
           ids == {params[i].id : i \in DOMAIN params}
<1>1. /\ p.id = "reasoning_effort" /\ p.value = effort /\ q.id = "fast" /\ fastParameter = "fast"
      /\ "fast" # "reasoning_effort"
  BY DEF Param, FastParam, fastParameter
<1>2. /\ suppliedParameter(params, fastParameter) <=> "fast" \in ids
      /\ suppliedParameter(params, "reasoning_effort") <=> "reasoning_effort" \in ids
  BY DEF suppliedParameter, fastParameter
<1>3. CASE effort = <<>> /\ ~fast
  <2>1. params = <<>> /\ DOMAIN params = {}
    BY <1>3, MadeMembers
  <2> HIDE DEF params
  <2> QED BY <1>2, <1>3, <2>1 DEF params
<1>4. CASE effort = <<>> /\ fast
  <2>1. params = <<q>>
    BY <1>4, MadeMembers
  <2> HIDE DEF params, q
  <2>2. DOMAIN params = {1} /\ params[1] = q
    BY <2>1
  <2>3. ids = {"fast"}
    BY <1>1, <2>2
  <2> HIDE DEF ids
  <2> QED BY <1>1, <1>2, <1>4, <2>2, <2>3 DEF params
<1>5. CASE effort # <<>> /\ ~fast
  <2>1. params = <<p>>
    BY <1>5, MadeMembers
  <2> HIDE DEF params, p
  <2>2. DOMAIN params = {1} /\ params[1] = p
    BY <2>1
  <2>3. ids = {"reasoning_effort"}
    BY <1>1, <2>2
  <2> HIDE DEF ids
  <2> QED BY <1>1, <1>2, <1>5, <2>2, <2>3 DEF params
<1>6. CASE effort # <<>> /\ fast
  <2>1. params = <<p, q>>
    BY <1>6, MadeMembers
  <2> HIDE DEF params, p, q
  <2>2. DOMAIN params = {1, 2} /\ params[1] = p /\ params[2] = q
    BY <2>1
  <2>3. ids = {"reasoning_effort", "fast"}
    BY <1>1, <2>2
  <2> HIDE DEF ids
  <2>4. \A i, j \in DOMAIN params : i # j => params[i].id # params[j].id
    BY <1>1, <2>2
  <2>5. \A i \in DOMAIN params : params[i].id = "reasoning_effort" => params[i].value = effort
    BY <1>1, <2>2
  <2>6. (suppliedParameter(params, fastParameter) <=> fast)
        /\ (suppliedParameter(params, "reasoning_effort") <=> effort # <<>>)
    BY <1>2, <1>6, <2>3
  <2> QED BY <2>4, <2>5, <2>6 DEF params
<1> HIDE DEF params
<1> QED BY <1>3, <1>4, <1>5, <1>6 DEF params

\* What the key has of the parameters.
LEMMA FlatOne ==
  ASSUME NEW T, NEW x \in Seq(T)
  PROVE  Flat(<<x>>) = x
<1> DEFINE U == Seq(T)
<1>0. x \in U /\ <<>> \in Seq(U)
  BY EmptySeq
<1>1. Flat(Append(<<>>, x)) = Flat(<<>>) \o x
  BY <1>0, FlatAppend
<1>2. Append(<<>>, x) = <<x>>
  OBVIOUS
<1> QED BY <1>1, <1>2, FlatEmpty, ConcatEmptySeq

LEMMA FlatTwo ==
  ASSUME NEW T, NEW x \in Seq(T), NEW y \in Seq(T)
  PROVE  Flat(<<x, y>>) = x \o y
<1> DEFINE U == Seq(T)
<1>1. <<x>> \in Seq(U) /\ y \in U /\ Append(<<x>>, y) = <<x, y>>
  <2>1. x \in U /\ y \in U
    OBVIOUS
  <2> HIDE DEF U
  <2> QED BY <2>1, AppendToOne
<1>2. Flat(Append(<<x>>, y)) = Flat(<<x>>) \o y
  BY <1>1, FlatAppend
<1> QED BY <1>1, <1>2, FlatOne

EffortPart(effort) == <<"reasoning_effort", "=">> \o effort

FastPart == <<"fast", "=", "true">>

Words == STRING \cup {"reasoning_effort", "=", "fast", "true", ","}

LEMMA WordsAre ==
  ASSUME NEW text \in Seq(STRING)
  PROVE  /\ text \in Seq(Words)
         /\ "reasoning_effort" \in Words /\ "=" \in Words /\ "fast" \in Words /\ "true" \in Words
         /\ "," \in Words
<1> DEFINE T == STRING
<1>1. T \subseteq Words
  BY DEF Words
<1>2. text \in Seq(T)
  OBVIOUS
<1> HIDE DEF T
<1>3. text \in Seq(Words)
  BY <1>1, <1>2
<1> QED BY <1>3 DEF Words

\* Two words, and what they are joined to.
LEMMA TwoWords ==
  ASSUME NEW T, NEW a \in T, NEW b \in T, NEW s \in Seq(T)
  PROVE  <<a, b>> \in Seq(T) /\ <<a, b>> \o s \in Seq(T) /\ <<>> \o <<a, b>> = <<a, b>>
<1>1. <<a, b>> \in Seq(T)
  OBVIOUS
<1> QED BY <1>1, ConcatProperties, ConcatEmptySeq

LEMMA ThreeWords ==
  ASSUME NEW T, NEW a \in T, NEW b \in T, NEW c \in T
  PROVE  <<a, b, c>> \in Seq(T) /\ <<a, b>> \o <<c>> = <<a, b, c>>
<1>1. <<a, b>> \in Seq(T) /\ <<c>> \in Seq(T) /\ <<a, b, c>> \in Seq(T)
  OBVIOUS
<1>2. Append(<<a, b>>, c) = <<a, b, c>>
  BY AppendToTwo
<1>3. <<a, b>> \o <<c>> = Append(<<a, b>>, c)
  BY <1>1, AppendIsConcat
<1> QED BY <1>1, <1>2, <1>3

LEMMA SpelledParts ==
  ASSUME NEW effort \in Seq(Words)
  PROVE  /\ EffortPart(effort) \in Seq(Words) /\ FastPart \in Seq(Words)
         /\ <<",">> \o FastPart \in Seq(Words)
         /\ (<<>> \o <<"reasoning_effort", "=">>) \o effort = EffortPart(effort)
         /\ (<<>> \o <<"fast", "=">>) \o <<"true">> = FastPart
         /\ (<<",">> \o <<"fast", "=">>) \o <<"true">> = <<",">> \o FastPart
<1> DEFINE r == "reasoning_effort"
           e == "="
           f == "fast"
           t == "true"
           d == ","
<1>1. r \in Words /\ e \in Words /\ f \in Words /\ t \in Words /\ d \in Words
  BY DEF Words
<1> HIDE DEF r, e, f, t, d
<1>2. <<r, e>> \o effort \in Seq(Words) /\ <<>> \o <<r, e>> = <<r, e>>
  BY <1>1, TwoWords
<1>3. <<>> \o <<f, e>> = <<f, e>>
  BY <1>1, TwoWords
<1>4. <<f, e, t>> \in Seq(Words) /\ <<f, e>> \o <<t>> = <<f, e, t>>
  BY <1>1, ThreeWords
<1>5. <<d>> \o <<f, e, t>> \in Seq(Words) /\ (<<d>> \o <<f, e>>) \o <<t>> = <<d>> \o <<f, e, t>>
  <2>1. <<f, e>> \in Seq(Words) /\ <<t>> \in Seq(Words) /\ <<d>> \in Seq(Words)
    BY <1>1
  <2>2. (<<d>> \o <<f, e>>) \o <<t>> = <<d>> \o (<<f, e>> \o <<t>>)
    BY <2>1, ConcatAssociative
  <2>3. <<d>> \o <<f, e, t>> \in Seq(Words)
    BY <1>4, <2>1, ConcatProperties
  <2> QED BY <1>4, <2>2, <2>3
<1>6. EffortPart(effort) = <<r, e>> \o effort /\ FastPart = <<f, e, t>>
  BY DEF EffortPart, FastPart, r, e, f, t
<1>7. /\ (<<>> \o <<r, e>>) \o effort = EffortPart(effort)
      /\ (<<>> \o <<f, e>>) \o <<t>> = FastPart
      /\ (<<d>> \o <<f, e>>) \o <<t>> = <<d>> \o FastPart
  BY <1>2, <1>3, <1>4, <1>5, <1>6
<1>8. EffortPart(effort) \in Seq(Words) /\ FastPart \in Seq(Words) /\ <<d>> \o FastPart \in Seq(Words)
  BY <1>2, <1>4, <1>5, <1>6
<1> QED BY <1>7, <1>8 DEF r, e, f, t, d

LEMMA SignatureIs ==
  ASSUME NEW effort \in Seq(Words), NEW fast \in BOOLEAN
  PROVE  modelParamSignature(ParamsMade(effort, fast))
           = CASE effort = <<>> /\ ~fast -> <<>>
               [] effort = <<>> /\ fast -> FastPart
               [] effort # <<>> /\ ~fast -> EffortPart(effort)
               [] effort # <<>> /\ fast -> EffortPart(effort) \o (<<",">> \o FastPart)
<1> DEFINE p == Param("reasoning_effort", effort)
           q == FastParam
           params == ParamsMade(effort, fast)
           part(i) == (IF i = 1 THEN <<>> ELSE <<",">>) \o <<params[i].id, "=">> \o params[i].value
<1>1. p.id = "reasoning_effort" /\ p.value = effort /\ q.id = "fast" /\ q.value = <<"true">>
  BY DEF Param, FastParam, fastParameter
<1>2. modelParamSignature(params) = Flat([i \in DOMAIN params |-> part(i)])
  BY DEF modelParamSignature
<1>3. /\ EffortPart(effort) \in Seq(Words) /\ FastPart \in Seq(Words)
      /\ <<",">> \o FastPart \in Seq(Words)
  BY SpelledParts
<1>4. /\ (<<>> \o <<"reasoning_effort", "=">>) \o effort = EffortPart(effort)
      /\ (<<>> \o <<"fast", "=">>) \o <<"true">> = FastPart
      /\ (<<",">> \o <<"fast", "=">>) \o <<"true">> = <<",">> \o FastPart
  BY SpelledParts
<1> HIDE DEF p, q, params
<1>5. CASE effort = <<>> /\ ~fast
  <2>1. params = <<>>
    BY <1>5, MadeMembers DEF params
  <2>2. [i \in DOMAIN params |-> part(i)] = <<>>
    BY <2>1
  <2> QED BY <1>2, <1>5, <2>2, FlatEmpty DEF params
<1>6. CASE effort = <<>> /\ fast
  <2>1. params = <<q>>
    BY <1>6, MadeMembers DEF params, q
  <2>2. DOMAIN params = {1} /\ params[1] = q
    BY <2>1
  <2>3. part(1) = FastPart
    BY <1>1, <1>4, <2>2
  <2>4. [i \in DOMAIN params |-> part(i)] = <<FastPart>>
    <3> HIDE DEF part
    <3> QED BY <2>2, <2>3
  <2> QED BY <1>2, <1>3, <1>6, <2>4, FlatOne DEF params
<1>7. CASE effort # <<>> /\ ~fast
  <2>1. params = <<p>>
    BY <1>7, MadeMembers DEF params, p
  <2>2. DOMAIN params = {1} /\ params[1] = p
    BY <2>1
  <2>3. part(1) = EffortPart(effort)
    BY <1>1, <1>4, <2>2
  <2>4. [i \in DOMAIN params |-> part(i)] = <<EffortPart(effort)>>
    <3> HIDE DEF part
    <3> QED BY <2>2, <2>3
  <2> QED BY <1>2, <1>3, <1>7, <2>4, FlatOne DEF params
<1>8. CASE effort # <<>> /\ fast
  <2>1. params = <<p, q>>
    BY <1>8, MadeMembers DEF params, p, q
  <2>2. DOMAIN params = {1, 2} /\ params[1] = p /\ params[2] = q
    BY <2>1
  <2>3. part(1) = EffortPart(effort) /\ part(2) = <<",">> \o FastPart
    BY <1>1, <1>4, <2>2
  <2>4. [i \in DOMAIN params |-> part(i)] = <<EffortPart(effort), <<",">> \o FastPart>>
    <3> DEFINE a == EffortPart(effort)
               b == <<",">> \o FastPart
    <3> HIDE DEF part, a, b
    <3>1. part(1) = a /\ part(2) = b
      BY <2>3 DEF a, b
    <3>2. [i \in DOMAIN params |-> part(i)] = <<a, b>>
      BY <2>2, <3>1
    <3> QED BY <3>2 DEF a, b
  <2> QED BY <1>2, <1>3, <1>8, <2>4, FlatTwo DEF params
<1> QED BY <1>5, <1>6, <1>7, <1>8 DEF params

LEMMA LengthOf ==
  ASSUME NEW T, NEW s \in Seq(T)
  PROVE  Len(s) \in Nat /\ (s = <<>> <=> Len(s) = 0) /\ DOMAIN s = 1 .. Len(s)
BY EmptySeq

LEMMA JoinedAt ==
  ASSUME NEW T, NEW s \in Seq(T), NEW t \in Seq(T)
  PROVE  /\ s \o t \in Seq(T) /\ Len(s \o t) = Len(s) + Len(t)
         /\ \A i \in 1 .. Len(s) : (s \o t)[i] = s[i]
         /\ \A i \in Len(s) + 1 .. Len(s) + Len(t) : (s \o t)[i] = t[i - Len(s)]
<1> DEFINE n == Len(s)
           m == Len(t)
           j == s \o t
<1>1. n \in Nat /\ m \in Nat
  OBVIOUS
<1>2. /\ j \in Seq(T) /\ Len(j) = n + m
      /\ \A i \in 1 .. n + m : j[i] = IF i <= n THEN s[i] ELSE t[i - n]
  BY ConcatProperties
<1> HIDE DEF n, m, j
<1>3. \A i \in 1 .. n : i \in 1 .. n + m /\ i <= n
  BY <1>1
<1>4. \A i \in n + 1 .. n + m : i \in 1 .. n + m /\ ~(i <= n)
  BY <1>1
<1> QED BY <1>2, <1>3, <1>4 DEF n, m, j

\* How what is spelled of the parameters looks: r and f begin it, and c comes before the mode.
Slow(s, effort, r) ==
  IF effort = <<>> THEN s = <<>>
  ELSE /\ Len(s) = Len(effort) + 2 /\ s[1] = r
       /\ \A i \in 3 .. Len(effort) + 2 : s[i] = effort[i - 2]

Fast(s, effort, r, f, c) ==
  IF effort = <<>> THEN Len(s) = 3 /\ s[1] = f
  ELSE /\ Len(s) = Len(effort) + 6 /\ s[1] = r /\ s[Len(effort) + 3] = c
       /\ \A i \in 3 .. Len(effort) + 2 : s[i] = effort[i - 2]

LEMMA SlowTells ==
  ASSUME NEW T, NEW a \in Seq(T), NEW b \in Seq(T), NEW s, NEW r, Slow(s, a, r), Slow(s, b, r)
  PROVE  a = b
<1> DEFINE n == Len(a)
           m == Len(b)
<1>1. /\ n \in Nat /\ m \in Nat /\ (a = <<>> <=> n = 0) /\ (b = <<>> <=> m = 0)
      /\ Len(<<>>) = 0
  BY LengthOf
<1>2. /\ n = 0 => s = <<>>
      /\ n # 0 => Len(s) = n + 2 /\ \A i \in 3 .. n + 2 : s[i] = a[i - 2]
  BY <1>1 DEF Slow
<1>3. /\ m = 0 => s = <<>>
      /\ m # 0 => Len(s) = m + 2 /\ \A i \in 3 .. m + 2 : s[i] = b[i - 2]
  BY <1>1 DEF Slow
<1> HIDE DEF n, m
<1>4. n = m
  BY <1>1, <1>2, <1>3
<1>5. ASSUME NEW i \in 1 .. n
      PROVE  a[i] = b[i]
  <2>1. i + 2 \in 3 .. n + 2 /\ i + 2 - 2 = i /\ n # 0
    BY <1>1
  <2> QED BY <1>2, <1>3, <1>4, <2>1
<1> QED BY <1>4, <1>5, SeqEqual DEF n, m

LEMMA FastTells ==
  ASSUME NEW T, NEW a \in Seq(T), NEW b \in Seq(T), NEW s, NEW r, NEW f, NEW c, r # f,
         Fast(s, a, r, f, c), Fast(s, b, r, f, c)
  PROVE  a = b
<1> DEFINE n == Len(a)
           m == Len(b)
<1>1. /\ n \in Nat /\ m \in Nat /\ (a = <<>> <=> n = 0) /\ (b = <<>> <=> m = 0)
  BY LengthOf
<1>2. /\ n = 0 => Len(s) = 3 /\ s[1] = f
      /\ n # 0 => Len(s) = n + 6 /\ s[1] = r /\ \A i \in 3 .. n + 2 : s[i] = a[i - 2]
  BY <1>1 DEF Fast
<1>3. /\ m = 0 => Len(s) = 3 /\ s[1] = f
      /\ m # 0 => Len(s) = m + 6 /\ s[1] = r /\ \A i \in 3 .. m + 2 : s[i] = b[i - 2]
  BY <1>1 DEF Fast
<1> HIDE DEF n, m
<1>4. n = m
  BY <1>1, <1>2, <1>3
<1>5. ASSUME NEW i \in 1 .. n
      PROVE  a[i] = b[i]
  <2>1. i + 2 \in 3 .. n + 2 /\ i + 2 - 2 = i /\ n # 0
    BY <1>1
  <2> QED BY <1>2, <1>3, <1>4, <2>1
<1> QED BY <1>4, <1>5, SeqEqual DEF n, m

LEMMA NeverBoth ==
  ASSUME NEW T, NEW a \in Seq(T), NEW b \in Seq(T), NEW s, NEW r, NEW f, NEW c, r # f,
         \A i \in 1 .. Len(b) : b[i] # c, Fast(s, a, r, f, c), Slow(s, b, r)
  PROVE  FALSE
<1> DEFINE n == Len(a)
           m == Len(b)
<1>1. /\ n \in Nat /\ m \in Nat /\ (a = <<>> <=> n = 0) /\ (b = <<>> <=> m = 0)
      /\ Len(<<>>) = 0
  BY LengthOf
<1>2. /\ n = 0 => Len(s) = 3 /\ s[1] = f
      /\ n # 0 => Len(s) = n + 6 /\ s[1] = r /\ s[n + 3] = c
  BY <1>1 DEF Fast
<1>3. /\ m = 0 => s = <<>>
      /\ m # 0 => Len(s) = m + 2 /\ s[1] = r /\ \A i \in 3 .. m + 2 : s[i] = b[i - 2]
  BY <1>1 DEF Slow
<1>4. \A i \in 1 .. m : b[i] # c
  OBVIOUS
<1> HIDE DEF n, m
<1>5. m # 0 /\ n # 0 /\ m = n + 4
  BY <1>1, <1>2, <1>3
<1>6. n + 3 \in 3 .. m + 2 /\ n + 3 - 2 = n + 1 /\ n + 1 \in 1 .. m
  BY <1>1, <1>5
<1>7. s[n + 3] = b[n + 1]
  <2> DEFINE k == n + 3
  <2>1. k \in 3 .. m + 2 /\ k - 2 = n + 1
    BY <1>1, <1>5
  <2> HIDE DEF k
  <2>2. s[k] = b[k - 2]
    BY <1>3, <1>5, <2>1
  <2> QED BY <2>1, <2>2 DEF k
<1> QED BY <1>2, <1>4, <1>5, <1>6, <1>7

LEMMA SlowIs ==
  ASSUME NEW T, NEW effort \in Seq(T), NEW head \in Seq(T), Len(head) = 2
  PROVE  effort # <<>> => Slow(head \o effort, effort, head[1])
<1> DEFINE n == Len(effort)
           s == head \o effort
<1>1. n \in Nat
  BY LengthOf
<1>2. /\ Len(s) = 2 + n
      /\ \A i \in 1 .. 2 : s[i] = head[i]
      /\ \A i \in 3 .. 2 + n : s[i] = effort[i - 2]
  <2>1. /\ head \o effort \in Seq(T) /\ Len(head \o effort) = Len(head) + Len(effort)
        /\ \A i \in 1 .. Len(head) : (head \o effort)[i] = head[i]
        /\ \A i \in Len(head) + 1 .. Len(head) + Len(effort) : (head \o effort)[i] = effort[i - Len(head)]
    BY JoinedAt
  <2>2. 2 + 1 = 3
    OBVIOUS
  <2> QED BY <1>1, <2>1, <2>2
<1> HIDE DEF s, n
<1>3. 1 \in 1 .. 2 /\ n + 2 = 2 + n
  BY <1>1
<1> QED BY <1>2, <1>3 DEF Slow, s, n

LEMMA FastIs ==
  ASSUME NEW T, NEW effort \in Seq(T), NEW head \in Seq(T), Len(head) = 2, NEW tail \in Seq(T),
         Len(tail) = 4, NEW f
  PROVE  effort # <<>> => Fast((head \o effort) \o tail, effort, head[1], f, tail[1])
<1> DEFINE n == Len(effort)
           p == head \o effort
           s == p \o tail
<1>1. n \in Nat
  BY LengthOf
<1>2. /\ p \in Seq(T) /\ Len(p) = 2 + n
      /\ \A i \in 1 .. 2 : p[i] = head[i]
      /\ \A i \in 3 .. 2 + n : p[i] = effort[i - 2]
  <2>1. /\ head \o effort \in Seq(T) /\ Len(head \o effort) = Len(head) + Len(effort)
        /\ \A i \in 1 .. Len(head) : (head \o effort)[i] = head[i]
        /\ \A i \in Len(head) + 1 .. Len(head) + Len(effort) : (head \o effort)[i] = effort[i - Len(head)]
    BY JoinedAt
  <2>2. 2 + 1 = 3
    OBVIOUS
  <2> QED BY <1>1, <2>1, <2>2
<1> HIDE DEF n, p
<1>3. /\ Len(s) = 2 + n + 4
      /\ \A i \in 1 .. 2 + n : s[i] = p[i]
      /\ \A i \in 2 + n + 1 .. 2 + n + 4 : s[i] = tail[i - (2 + n)]
  <2>1. /\ p \o tail \in Seq(T) /\ Len(p \o tail) = Len(p) + Len(tail)
        /\ \A i \in 1 .. Len(p) : (p \o tail)[i] = p[i]
        /\ \A i \in Len(p) + 1 .. Len(p) + Len(tail) : (p \o tail)[i] = tail[i - Len(p)]
    BY <1>2, JoinedAt
  <2> QED BY <1>1, <1>2, <2>1
<1> HIDE DEF s
<1>4. /\ 1 \in 1 .. 2 /\ 1 \in 1 .. 2 + n /\ \A i \in 3 .. n + 2 : i \in 1 .. 2 + n /\ i \in 3 .. 2 + n
      /\ n + 3 \in 2 + n + 1 .. 2 + n + 4 /\ n + 3 - (2 + n) = 1 /\ 2 + n + 4 = n + 6
  BY <1>1
<1>5. s[1] = head[1]
  BY <1>2, <1>3, <1>4
<1>6. s[n + 3] = tail[1]
  <2> DEFINE k == n + 3
  <2>1. k \in 2 + n + 1 .. 2 + n + 4 /\ k - (2 + n) = 1
    BY <1>1
  <2> HIDE DEF k
  <2>2. s[k] = tail[k - (2 + n)]
    BY <1>3, <2>1
  <2> QED BY <2>1, <2>2 DEF k
<1>7. \A i \in 3 .. n + 2 : s[i] = effort[i - 2]
  BY <1>2, <1>3, <1>4
<1> QED BY <1>3, <1>4, <1>5, <1>6, <1>7 DEF Fast, s, p, n

LEMMA SignatureShaped ==
  ASSUME NEW effort \in Seq(Words), NEW fast \in BOOLEAN
  PROVE  LET s == modelParamSignature(ParamsMade(effort, fast)) IN
         /\ ~fast => Slow(s, effort, "reasoning_effort")
         /\ fast => Fast(s, effort, "reasoning_effort", "fast", ",")
<1> DEFINE s == modelParamSignature(ParamsMade(effort, fast))
           r == "reasoning_effort"
           e == "="
           f == "fast"
           t == "true"
           c == ","
           head == <<r, e>>
           mode == <<f, e, t>>
           tail == <<c>> \o mode
<1>1. r \in Words /\ e \in Words /\ f \in Words /\ t \in Words /\ c \in Words
  BY DEF Words
<1>2. /\ effort = <<>> /\ ~fast => s = <<>>
      /\ effort = <<>> /\ fast => s = mode
      /\ effort # <<>> /\ ~fast => s = head \o effort
      /\ effort # <<>> /\ fast => s = (head \o effort) \o tail
  BY SignatureIs DEF EffortPart, FastPart
<1> HIDE DEF s, r, e, f, t, c
<1>3. head \in Seq(Words) /\ Len(head) = 2 /\ head[1] = r
  BY <1>1
<1>4. mode \in Seq(Words) /\ Len(mode) = 3 /\ mode[1] = f
  BY <1>1
<1>5. tail \in Seq(Words) /\ Len(tail) = 4 /\ tail[1] = c
  <2>1. <<c>> \in Seq(Words) /\ Len(<<c>>) = 1 /\ <<c>>[1] = c
    BY <1>1
  <2> HIDE DEF mode
  <2>2. 1 \in 1 .. 1
    OBVIOUS
  <2>3. /\ tail \in Seq(Words) /\ Len(tail) = Len(<<c>>) + Len(mode)
        /\ \A i \in 1 .. Len(<<c>>) : tail[i] = <<c>>[i]
    BY <1>4, <2>1, JoinedAt
  <2> HIDE DEF tail
  <2> QED BY <1>4, <2>1, <2>2, <2>3
<1> HIDE DEF head, mode, tail
<1>6. effort # <<>> => Slow(head \o effort, effort, r) /\ Fast((head \o effort) \o tail, effort, r, f, c)
  BY <1>3, <1>5, SlowIs, FastIs
<1>7. effort = <<>> => Slow(<<>>, effort, r) /\ Fast(mode, effort, r, f, c)
  BY <1>4 DEF Slow, Fast
<1>8. (~fast => Slow(s, effort, r)) /\ (fast => Fast(s, effort, r, f, c))
  BY <1>2, <1>6, <1>7
<1> QED BY <1>8 DEF s, r, f, c

LEMMA SignatureTells ==
  ASSUME NEW a \in Seq(Words), NEW b \in Seq(Words), "," \notin ToSet(a), "," \notin ToSet(b),
         NEW f \in BOOLEAN, NEW g \in BOOLEAN,
         modelParamSignature(ParamsMade(a, f)) = modelParamSignature(ParamsMade(b, g))
  PROVE  a = b /\ (f <=> g)
<1> DEFINE s == modelParamSignature(ParamsMade(a, f))
           t == modelParamSignature(ParamsMade(b, g))
           r == "reasoning_effort"
           q == "fast"
           c == ","
<1>1. (~f => Slow(s, a, r)) /\ (f => Fast(s, a, r, q, c))
  BY SignatureShaped
<1>2. (~g => Slow(s, b, r)) /\ (g => Fast(s, b, r, q, c))
  <2>1. (~g => Slow(t, b, r)) /\ (g => Fast(t, b, r, q, c))
    BY SignatureShaped
  <2>2. s = t
    OBVIOUS
  <2> HIDE DEF s, t
  <2> QED BY <2>1, <2>2
<1>3. r # q
  OBVIOUS
<1>4. (\A i \in 1 .. Len(a) : a[i] # c) /\ (\A i \in 1 .. Len(b) : b[i] # c)
  <2>1. DOMAIN a = 1 .. Len(a) /\ DOMAIN b = 1 .. Len(b)
    BY LengthOf
  <2> QED BY <2>1 DEF ToSet
<1> HIDE DEF s, t, r, q, c
<1>5. CASE f /\ g
  BY <1>1, <1>2, <1>3, <1>5, FastTells
<1>6. CASE ~f /\ ~g
  BY <1>1, <1>2, <1>6, SlowTells
<1>7. CASE f /\ ~g
  BY <1>1, <1>2, <1>3, <1>4, <1>7, NeverBoth
<1>8. CASE ~f /\ g
  BY <1>1, <1>2, <1>3, <1>4, <1>8, NeverBoth
<1> QED BY <1>5, <1>6, <1>7, <1>8

LEMMA ParamsIs ==
  ASSUME NEW x, NEW fast \in BOOLEAN, fast <=> FastMeant(x)
  PROVE  ParamsOf(x.body, x.original) = ParamsMade(EffortMeant(x), fast)
<1> DEFINE m == EffortMeant(x)
           a == IF m = <<>> THEN <<>> ELSE <<Param("reasoning_effort", m)>>
           q == <<FastParam>>
           first == Effort(x.body.service_tier) = <<"priority">>
           second == Effort(x.original) = <<"priority">>
<1>1. chatParams(x.body) = a \o serviceTierParam(x.body.service_tier)
  BY DEF chatParams, EffortMeant, Effort
<1>2. /\ serviceTierParam(x.body.service_tier) = IF first THEN q ELSE <<>>
      /\ serviceTierParam(x.original) = IF second THEN q ELSE <<>>
  BY DEF serviceTierParam, Effort, FastParam
<1>3. \A g \in BOOLEAN : ParamsMade(m, g) = a \o (IF g THEN q ELSE <<>>)
  BY DEF ParamsMade
<1>4. fast <=> first \/ second
  BY DEF FastMeant
<1>5. a \o <<>> = a
  <2>1. a \in Seq({Param("reasoning_effort", m)})
    <3> DEFINE p == Param("reasoning_effort", m)
    <3>1. a = <<>> \/ a = <<p>>
      OBVIOUS
    <3> HIDE DEF a, p
    <3>2. <<>> \in Seq({p}) /\ <<p>> \in Seq({p})
      OBVIOUS
    <3>3. a \in Seq({p})
      BY <3>1, <3>2
    <3> QED BY <3>3 DEF p
  <2> HIDE DEF a
  <2> QED BY <2>1, ConcatEmptySeq
<1>6. PICK g \in BOOLEAN : g <=> first
  OBVIOUS
<1>7. chatParams(x.body) = ParamsMade(m, g)
  <2> HIDE DEF a, q, m, first, second
  <2> QED BY <1>1, <1>2, <1>3, <1>6
<1>8. suppliedParameter(chatParams(x.body), fastParameter) <=> g
  BY <1>7, MadeFits
<1> HIDE DEF a, q, m, first, second
<1>9. CASE first
  <2>1. ParamsOf(x.body, x.original) = chatParams(x.body)
    BY <1>6, <1>8, <1>9 DEF ParamsOf
  <2> QED BY <1>3, <1>4, <1>6, <1>7, <1>9, <2>1 DEF m
<1>10. CASE ~first
  <2>1. ParamsOf(x.body, x.original) = chatParams(x.body) \o serviceTierParam(x.original)
    BY <1>6, <1>8, <1>10 DEF ParamsOf
  <2>2. chatParams(x.body) = a
    BY <1>1, <1>2, <1>5, <1>10
  <2> QED BY <1>2, <1>3, <1>4, <1>10, <2>1, <2>2 DEF m
<1> QED BY <1>9, <1>10

LEMMA AskIs ==
  ASSUME NEW x \in Asks
  PROVE  /\ buildGenerateRequest(x) = {CallOf(x.body, x.original, <<>>)}
         /\ EffortMeant(x) \in Seq(Words)
         /\ EffortsAreWords => "," \notin ToSet(EffortMeant(x))
<1>1. PICK e \in Efforts, f \in Efforts, t \in Tiers, o \in Tiers :
        x = ClientRequest(AskBody(e, f, t), o)
  BY DEF Asks
<1> DEFINE body == AskBody(e, f, t)
<1>2. /\ body.messages /\ body.tools = Missing /\ body.tool_choice = Missing
      /\ body.reasoning_effort = e /\ body.effort = f
  BY DEF AskBody, Plain
<1>3. x.body = body /\ x.original = o
  BY <1>1 DEF ClientRequest
<1> HIDE DEF body
<1>4. ~Is("array", Missing) /\ ~Is("object", Missing) /\ ~Is("text", Missing)
  BY DEF Is, Missing
<1>5. parseChatTools(Missing) = {<<>>}
  <2>1. FunctionTools(Missing) = <<>>
    BY <1>4 DEF FunctionTools
  <2>2. DOMAIN <<>> = {} /\ [i \in {} |-> parseFunctionTool(<<>>[i])] = <<>>
    OBVIOUS
  <2> QED BY <2>1, <2>2 DEF parseChatTools
<1>6. applyToolChoice(Missing, <<>>) = {<<>>}
  BY <1>4 DEF applyToolChoice
<1>7. buildGenerateRequest(ClientRequest(body, o))
        = {CallOf(body, o, chosen) : chosen \in {<<>>}}
  <2>1. UNION {applyToolChoice(body.tool_choice, c) : c \in parseChatTools(body.tools)} = {<<>>}
    BY <1>2, <1>5, <1>6
  <2> QED BY <1>2, <2>1, BuildIs
<1>8. buildGenerateRequest(x) = {CallOf(x.body, x.original, <<>>)}
  <2>1. x = ClientRequest(body, o)
    BY <1>1 DEF body
  <2> QED BY <1>3, <1>7, <2>1
<1>9. \A v \in Efforts : /\ Effort(v) \in Seq(Words)
                         /\ EffortsAreWords => "," \notin ToSet(Effort(v))
  <2> SUFFICES ASSUME NEW v \in Efforts
               PROVE  /\ Effort(v) \in Seq(Words)
                      /\ EffortsAreWords => "," \notin ToSet(Effort(v))
    OBVIOUS
  <2>1. TextOf(v) \in Seq(STRING)
    BY CallAssumption, TextType
  <2>2. TextOf(v) \in Seq(Words)
    BY <2>1, WordsAre
  <2>3. Effort(v) \in Seq(Words) /\ ToSet(Effort(v)) \subseteq ToSet(TextOf(v))
    BY <2>2, TrimmedIs DEF Effort
  <2> QED BY <2>3 DEF EffortsAreWords
<1>10. EffortMeant(x) \in {Effort(e), Effort(f)}
  BY <1>2, <1>3 DEF EffortMeant
<1> QED BY <1>8, <1>9, <1>10

LEMMA KeysMeant ==
  ASSUME NEW x \in Asks, NEW y \in Asks, EffortsAreWords
  PROVE  LET c == CallOf(x.body, x.original, <<>>)
             d == CallOf(y.body, y.original, <<>>) IN
         sessionCacheKey(c, <<"prefix">>) = sessionCacheKey(d, <<"prefix">>)
           <=> EffortMeant(x) = EffortMeant(y) /\ (FastMeant(x) <=> FastMeant(y))
<1> DEFINE c == CallOf(x.body, x.original, <<>>)
           d == CallOf(y.body, y.original, <<>>)
<1>1. PICK f \in BOOLEAN : f <=> FastMeant(x)
  OBVIOUS
<1>2. PICK g \in BOOLEAN : g <=> FastMeant(y)
  OBVIOUS
<1>3. c.params = ParamsMade(EffortMeant(x), f) /\ d.params = ParamsMade(EffortMeant(y), g)
  <2>1. c.params = ParamsOf(x.body, x.original) /\ d.params = ParamsOf(y.body, y.original)
    BY DEF CallOf
  <2> QED BY <1>1, <1>2, <2>1, ParamsIs
<1>4. /\ c.key = d.key /\ c.proxy = d.proxy /\ c.model = d.model /\ c.tools = d.tools
  BY DEF CallOf
<1> HIDE DEF c, d
<1>5. sessionCacheKey(c, <<"prefix">>) = sessionCacheKey(d, <<"prefix">>)
        <=> modelParamSignature(c.params) = modelParamSignature(d.params)
  BY <1>4 DEF sessionCacheKey
<1>6. EffortMeant(x) \in Seq(Words) /\ EffortMeant(y) \in Seq(Words)
  BY AskIs
<1>7. "," \notin ToSet(EffortMeant(x)) /\ "," \notin ToSet(EffortMeant(y))
  BY AskIs
<1>8. modelParamSignature(c.params) = modelParamSignature(d.params)
        => EffortMeant(x) = EffortMeant(y) /\ (f <=> g)
  BY <1>3, <1>6, <1>7, SignatureTells
<1>9. EffortMeant(x) = EffortMeant(y) /\ (f <=> g) => c.params = d.params
  BY <1>3
<1> QED BY <1>1, <1>2, <1>5, <1>8, <1>9 DEF c, d

LEMMA ParamsMeant == EffortsAreWords => ParamsAreMeant
<1> SUFFICES ASSUME EffortsAreWords
             PROVE  ParamsAreMeant
  OBVIOUS
<1> DEFINE made == [x \in Asks |-> CHOOSE c \in buildGenerateRequest(x) : TRUE]
           keys == [x \in Asks |-> sessionCacheKey(made[x], <<"prefix">>)]
<1>1. ASSUME NEW x \in Asks
      PROVE  made[x] = CallOf(x.body, x.original, <<>>) /\ buildGenerateRequest(x) = {made[x]}
  <2>1. buildGenerateRequest(x) = {CallOf(x.body, x.original, <<>>)}
    BY AskIs
  <2>2. made[x] = CHOOSE c \in buildGenerateRequest(x) : TRUE
    OBVIOUS
  <2>3. (CHOOSE c \in buildGenerateRequest(x) : TRUE) \in buildGenerateRequest(x)
    BY <2>1
  <2> HIDE DEF made
  <2> QED BY <2>1, <2>2, <2>3
<1>2. \A x \in Asks : keys[x] = sessionCacheKey(made[x], <<"prefix">>)
  OBVIOUS
<1> HIDE DEF made, keys
<1>3. ASSUME NEW x \in Asks
      PROVE  LET params == made[x].params IN
             /\ \A i, j \in DOMAIN params : i # j => params[i].id # params[j].id
             /\ suppliedParameter(params, fastParameter) <=> FastMeant(x)
             /\ suppliedParameter(params, "reasoning_effort") <=> EffortMeant(x) # <<>>
             /\ \A i \in DOMAIN params :
                  params[i].id = "reasoning_effort" => params[i].value = EffortMeant(x)
  <2>1. PICK f \in BOOLEAN : f <=> FastMeant(x)
    OBVIOUS
  <2> DEFINE params == ParamsMade(EffortMeant(x), f)
  <2>2. made[x].params = params
    <3>1. CallOf(x.body, x.original, <<>>).params = ParamsOf(x.body, x.original)
      BY DEF CallOf
    <3>2. made[x] = CallOf(x.body, x.original, <<>>)
      BY <1>1
    <3> QED BY <2>1, <3>1, <3>2, ParamsIs
  <2>3. /\ \A i, j \in DOMAIN params : i # j => params[i].id # params[j].id
        /\ suppliedParameter(params, fastParameter) <=> f
        /\ suppliedParameter(params, "reasoning_effort") <=> EffortMeant(x) # <<>>
        /\ \A i \in DOMAIN params :
             params[i].id = "reasoning_effort" => params[i].value = EffortMeant(x)
    BY MadeFits
  <2> HIDE DEF params
  <2> QED BY <2>1, <2>2, <2>3
<1>4. ASSUME NEW x \in Asks, NEW y \in Asks
      PROVE  keys[x] = keys[y]
               <=> EffortMeant(x) = EffortMeant(y) /\ (FastMeant(x) <=> FastMeant(y))
  BY <1>1, <1>2, KeysMeant
<1> QED BY <1>1, <1>3, <1>4 DEF ParamsAreMeant, made, keys

LEMMA OneShotsMeant == OneShotsFit
<1> SUFFICES ASSUME NEW length \in 0 .. promptMaxRunes + 1,
                    NEW made \in buildGenerateRequest(
                                   ClientRequest([Plain EXCEPT !.prompt = length], Missing))
             PROVE  runGenerate(made) = {length} \cap 0 .. promptMaxRunes
  BY DEF OneShotsFit
<1> DEFINE body == [Plain EXCEPT !.prompt = length]
<1>1. body.messages /\ body.tools = Missing /\ body.tool_choice = Missing /\ body.prompt = length
  BY DEF Plain
<1> HIDE DEF body
<1>2. ~Is("array", Missing) /\ ~Is("object", Missing) /\ ~Is("text", Missing)
  BY DEF Is, Missing
<1>3. made.tools = <<>> /\ made.prompt = length
  <2>1. FunctionTools(Missing) = <<>>
    BY <1>2 DEF FunctionTools
  <2>2. DOMAIN <<>> = {} /\ [i \in {} |-> parseFunctionTool(<<>>[i])] = <<>>
    OBVIOUS
  <2>3. parseChatTools(Missing) = {<<>>}
    BY <2>1, <2>2 DEF parseChatTools
  <2>4. applyToolChoice(Missing, <<>>) = {<<>>}
    BY <1>2 DEF applyToolChoice
  <2>5. UNION {applyToolChoice(body.tool_choice, c) : c \in parseChatTools(body.tools)} = {<<>>}
    BY <1>1, <2>3, <2>4
  <2>6. buildGenerateRequest(ClientRequest(body, Missing)) = {CallOf(body, Missing, c) : c \in {<<>>}}
    BY <1>1, <2>5, BuildIs
  <2>7. made = CallOf(body, Missing, <<>>)
    BY <2>6 DEF body
  <2> QED BY <1>1, <2>7 DEF CallOf
<1>4. runGenerate(made) = IF ~ length <= promptMaxRunes THEN {} ELSE {length}
  BY <1>3 DEF runGenerate, checkPromptBudget
<1> QED BY <1>4, CallAssumption

LEMMA ArgumentsMeant == ArgumentsAreShown
<1> SUFFICES ASSUME NEW value \in ArgumentValues
             PROVE  LET shown == toolCallArgumentsJSON(value) IN
                    /\ ~ Is("missing", shown) /\ ~ Is("null", shown)
                    /\ Is("text", shown) => TextOf(shown) # <<>>
  BY DEF ArgumentsAreShown
<1>1. LET none == Object("no arguments") IN
      ~Is("missing", none) /\ ~Is("null", none) /\ ~Is("text", none)
  BY DEF Is, Object
<1> QED BY <1>1 DEF toolCallArgumentsJSON

-----------------------------------------------------------------------------
(* The frames of the answer.                                               *)

BeforeBlanks(q, blank) == SubSeq(q, 1, Max({0} \cup {i \in DOMAIN q : q[i] # blank}))

\* Nothing is left of what is blank at the end.
LEMMA BlanksCut ==
  ASSUME NEW T, NEW blank \in T, NEW p \in Seq(T), Len(p) > 0, p[Len(p)] # blank, NEW n \in Nat
  PROVE  BeforeBlanks(p \o [i \in 1 .. n |-> blank], blank) = p
<1> DEFINE end == [i \in 1 .. n |-> blank]
           q == p \o end
           m == Len(p)
           at == {0} \cup {i \in DOMAIN q : q[i] # blank}
<1>1. end \in Seq(T) /\ Len(end) = n
  <2>1. n \in Nat /\ end \in [1 .. n -> T]
    OBVIOUS
  <2> HIDE DEF end
  <2>2. end \in Seq(T)
    BY <2>1, SeqDef
  <2>3. DOMAIN end = 1 .. n
    BY <2>1
  <2> QED BY <2>1, <2>2, <2>3
<1>2. \A i \in 1 .. n : end[i] = blank
  OBVIOUS
<1>3. m \in Nat /\ n \in Nat
  BY LengthOf
<1> HIDE DEF end
<1>4. /\ q \in Seq(T) /\ Len(q) = m + n
      /\ \A i \in 1 .. m : q[i] = p[i]
      /\ \A i \in m + 1 .. m + n : q[i] = blank
  <2>1. /\ p \o end \in Seq(T) /\ Len(p \o end) = Len(p) + Len(end)
        /\ \A i \in 1 .. Len(p) : (p \o end)[i] = p[i]
        /\ \A i \in Len(p) + 1 .. Len(p) + Len(end) : (p \o end)[i] = end[i - Len(p)]
    BY <1>1, JoinedAt
  <2>2. \A i \in m + 1 .. m + n : i - m \in 1 .. n
    BY <1>3
  <2> QED BY <1>1, <1>2, <2>1, <2>2
<1> HIDE DEF q
<1>5. at \in SUBSET (0 .. m) /\ m \in at
  <2>1. DOMAIN q = 1 .. m + n
    BY <1>4, LengthOf
  <2>2. m \in 1 .. m + n /\ \A i \in 1 .. m + n : i \in 1 .. m \/ i \in m + 1 .. m + n
    BY <1>3
  <2>3. m \in 1 .. m /\ q[m] # blank
    BY <1>3, <1>4
  <2>4. ASSUME NEW i \in DOMAIN q, q[i] # blank
        PROVE  i \in 0 .. m
    BY <1>3, <1>4, <2>1, <2>2, <2>4
  <2>5. 0 \in 0 .. m
    BY <1>3
  <2> QED BY <2>1, <2>2, <2>3, <2>4, <2>5
<1> HIDE DEF at
<1>6. Max(at) = m
  <2>1. Max(at) \in at /\ \A i \in at : i <= Max(at)
    BY <1>3, <1>5, Greatest
  <2>2. Max(at) \in 0 .. m /\ m <= Max(at)
    BY <1>5, <2>1
  <2> QED BY <1>3, <2>2
<1>7. SubSeq(q, 1, m) = p
  <2>1. \A i \in 1 .. m : q[i] \in T
    <3>1. \A i \in 1 .. m : p[i] \in T
      BY LengthOf
    <3> QED BY <1>4, <3>1
  <2>2. 1 \in Int /\ m \in Int
    BY <1>3
  <2>3. /\ SubSeq(q, 1, m) \in Seq(T)
        /\ Len(SubSeq(q, 1, m)) = IF 1 <= m THEN m - 1 + 1 ELSE 0
        /\ \A i \in 1 .. m - 1 + 1 : SubSeq(q, 1, m)[i] = q[1 + i - 1]
    BY <2>1, <2>2, SubSeqProperties
  <2> DEFINE s == SubSeq(q, 1, m)
  <2> HIDE DEF s
  <2>4. m - 1 + 1 = m /\ 1 <= m /\ \A i \in 1 .. m : 1 + i - 1 = i
    BY <1>3 DEF m
  <2>5. s \in Seq(T) /\ Len(s) = m /\ \A i \in 1 .. m : s[i] = p[i]
    BY <1>4, <2>3, <2>4 DEF s
  <2> QED BY <2>5, SeqEqual DEF s, m
<1>8. BeforeBlanks(q, blank) = p
  BY <1>6, <1>7 DEF BeforeBlanks, at
<1> QED BY <1>8 DEF q, end

LEMMA FramingOf ==
  ASSUME NEW T, NEW blank \in T, NEW p \in Seq(T), Len(p) > 1, p[Len(p)] # blank, NEW n \in Nat
  PROVE  blank = "" => streamFramingFor(p \o [i \in 1 .. n |-> blank])
                         = IF p[Len(p)] = "completions" THEN "raw" ELSE "SSE"
<1> DEFINE q == p \o [i \in 1 .. n |-> blank]
           trimmed == BeforeBlanks(q, blank)
<1>1. trimmed = p
  <2>1. Len(p) > 0
    BY LengthOf
  <2> QED BY <2>1, BlanksCut
<1>2. p # <<>> /\ Last(p) = p[Len(p)]
  BY DEF Last
<1> HIDE DEF q
<1>3. blank = "" => streamFramingFor(q) = IF trimmed = <<>> \/ (Len(trimmed) > 1 /\ Last(trimmed) = "completions")
                                         THEN "raw" ELSE "SSE"
  BY DEF streamFramingFor, BeforeBlanks
<1> HIDE DEF trimmed
<1> QED BY <1>1, <1>2, <1>3 DEF q

LEMMA FramingsMeant == FramingsFit
<1> SUFFICES ASSUME NEW n \in 0 .. 1
             PROVE  LET end == [i \in 1 .. n |-> ""] IN
                    /\ streamFramingFor(<<"", "v1", "chat", "completions">> \o end) = "raw"
                    /\ \A path \in {<<"", "v1", "responses">>, <<"", "v1", "messages">>} :
                         streamFramingFor(path \o end) = "SSE"
  BY DEF FramingsFit
<1> DEFINE T == {"", "v1", "chat", "completions", "responses", "messages"}
           chat == <<"", "v1", "chat", "completions">>
           responses == <<"", "v1", "responses">>
           messages == <<"", "v1", "messages">>
<1>1. /\ chat \in Seq(T) /\ Len(chat) = 4 /\ chat[4] = "completions"
      /\ responses \in Seq(T) /\ Len(responses) = 3 /\ responses[3] = "responses"
      /\ messages \in Seq(T) /\ Len(messages) = 3 /\ messages[3] = "messages"
  OBVIOUS
<1>2. "completions" # "" /\ "responses" # "" /\ "messages" # ""
      /\ "responses" # "completions" /\ "messages" # "completions"
  OBVIOUS
<1> DEFINE blank == ""
<1>3. /\ blank \in T /\ n \in Nat /\ chat[4] # blank /\ responses[3] # blank /\ messages[3] # blank
      /\ chat[4] = "completions" /\ responses[3] # "completions" /\ messages[3] # "completions"
  BY <1>1, <1>2
<1>4. /\ chat \in Seq(T) /\ Len(chat) = 4 /\ responses \in Seq(T) /\ Len(responses) = 3
      /\ messages \in Seq(T) /\ Len(messages) = 3
  BY <1>1
<1>5. blank = ""
  OBVIOUS
<1> DEFINE end == [i \in 1 .. n |-> blank]
<1> HIDE DEF T, chat, responses, messages, blank
<1>6. \A p \in Seq(T) :
        Len(p) > 1 /\ p[Len(p)] # blank =>
          streamFramingFor(p \o end) = IF p[Len(p)] = "completions" THEN "raw" ELSE "SSE"
  BY <1>3, <1>5, FramingOf
<1> HIDE DEF end
<1>7. /\ Len(chat) > 1 /\ chat[Len(chat)] # blank /\ chat[Len(chat)] = "completions"
      /\ Len(responses) > 1 /\ responses[Len(responses)] # blank
      /\ responses[Len(responses)] # "completions"
      /\ Len(messages) > 1 /\ messages[Len(messages)] # blank
      /\ messages[Len(messages)] # "completions"
      /\ chat \in Seq(T) /\ responses \in Seq(T) /\ messages \in Seq(T)
  BY <1>3, <1>4
<1>8. streamFramingFor(chat \o end) = "raw"
  BY <1>6, <1>7
<1>9. streamFramingFor(responses \o end) = "SSE"
  BY <1>6, <1>7
<1>10. streamFramingFor(messages \o end) = "SSE"
  BY <1>6, <1>7
<1> QED BY <1>8, <1>9, <1>10 DEF chat, responses, messages, end, blank

LEMMA RequestsMeant == EffortsAreWords => RequestsAreMeant
BY ToolsMeant, ParamsMeant, OneShotsMeant, ArgumentsMeant, FramingsMeant DEF RequestsAreMeant

\* An agent that is there has the client's tools and parameters, and a request that means the
\* same finds it again, for all tools, choices, bodies and lengths.  An effort with a comma may
\* spell another's parameters (KeysTellParams): the theorem is about efforts without one.
THEOREM CallsStayMeant == EffortsAreWords => (CursorSpec => []CallsAreMeant)
<1> SUFFICES ASSUME EffortsAreWords
             PROVE  CursorSpec => []CallsAreMeant
  OBVIOUS
<1>1. CallsAreMeant
  BY RequestsMeant DEF CallsAreMeant
<1> QED BY <1>1, PTL

(***************************************************************************)
(* The invariant.  An entry was asked for before it was stored, at most    *)
(* Timeout before, and neither lies in the future; a fetch under way is    *)
(* not older than Timeout; and a sweep leaves nothing stale behind it.     *)
(***************************************************************************)
EntriesFit ==
  \A k \in Keys : catalogs[k] # NoEntry =>
    /\ catalogs[k].asked <= catalogs[k].fetched /\ catalogs[k].fetched <= now
    /\ catalogs[k].fetched - catalogs[k].asked <= Timeout

FetchesFit ==
  \A a \in Calls : call[a].pc = "fetching" =>
    call[a].at <= now /\ now - call[a].at <= Timeout

SweepsFit ==
  \A a \in Calls : call[a].pc = "sweeping" =>
    /\ call[a].age <= Timeout /\ SweepTime(a) <= now
    /\ \A k \in Keys : (k \notin call[a].left /\ k # call[a].drop) => ~Stale(a, k)

\* Models come with their age only; without models the age is 0.
AgesFit == \A a \in Calls : call[a].pc = "resolving" => call[a].age < Ttl + Timeout

KeysFit == \A a \in Calls : call[a].pc # "idle" => call[a].key \in Keys

AgesBegin ==
  \A a \in Calls : call[a].pc \in {"looking", "dropping", "fetching"} => call[a].age = 0

ModelsInv ==
  /\ ModelsTypeOK /\ EntriesFit /\ FetchesFit /\ SweepsFit /\ AgesFit /\ AgesBegin
  /\ KeysFit

USE ModelsAssumption
USE DEF Times

(***************************************************************************)
(* What a step is to the call that takes it and to the others.             *)
(***************************************************************************)
CallFits(a) ==
  /\ call[a].pc # "idle" => call[a].key \in Keys
  /\ call[a].pc = "fetching" => call[a].at <= now /\ now - call[a].at <= Timeout
  /\ call[a].pc = "resolving" => call[a].age < Ttl + Timeout
  /\ call[a].pc \in {"looking", "dropping", "fetching"} => call[a].age = 0
  /\ call[a].pc = "sweeping" =>
       /\ call[a].age <= Timeout /\ SweepTime(a) <= now
       /\ \A k \in Keys : (k \notin call[a].left /\ k # call[a].drop) => ~Stale(a, k)

LEMMA FitsAll ==
  ModelsInv <=> ModelsTypeOK /\ EntriesFit /\ \A a \in Calls : CallFits(a)
BY DEF ModelsInv, FetchesFit, SweepsFit, AgesFit, AgesBegin, KeysFit, CallFits

LEMMA FitsAllNext ==
  ASSUME ModelsTypeOK', EntriesFit', \A a \in Calls : CallFits(a)'
  PROVE  ModelsInv'
BY DEF ModelsInv, FetchesFit, SweepsFit, AgesFit, AgesBegin, KeysFit, CallFits

LEMMA NoCallType == NoCall \in Call
BY DEF NoCall, Call

\* Another call is not disturbed by what happens to the catalogs: an entry is deleted, or
\* stored now.
LEMMA OthersFit ==
  ASSUME ModelsInv, NEW b \in Calls, call'[b] = call[b], now' = now,
         \A k \in Keys : \/ catalogs'[k] = catalogs[k]
                         \/ catalogs'[k] = NoEntry
                         \/ catalogs'[k].fetched = now
  PROVE  CallFits(b)'
<1>1. CallFits(b)
  BY FitsAll
<1>2. call[b] \in Call /\ now \in 0..MaxTime
  BY DEF ModelsInv, ModelsTypeOK
<1>3. SweepTime(b)' = SweepTime(b)
  BY DEF SweepTime
<1>4. ASSUME call[b].pc = "sweeping", NEW k \in Keys, ~Stale(b, k)
      PROVE  ~Stale(b, k)'
  <2>1. SweepTime(b) <= now /\ SweepTime(b) \in Int
    BY <1>1, <1>2, <1>4 DEF CallFits, SweepTime, Call
  <2> QED BY <1>2, <1>3, <1>4, <2>1 DEF Stale
<1> QED BY <1>1, <1>3, <1>4 DEF CallFits

\* What is left to show of a step of call a: its own part, and that of the catalogs.
LEMMA OwnFit ==
  ASSUME ModelsInv, NEW a \in Calls, NEW value \in Call, CallBecomes(a, value), now' = now,
         catalogs' \in [Keys -> Entry \cup {NoEntry}],
         discovered' \in {discoverModels(list) : list \in Lists \cup {<<>>}} \cup {<<>>},
         \A k \in Keys : \/ catalogs'[k] = catalogs[k]
                         \/ catalogs'[k] = NoEntry
                         \/ catalogs'[k].fetched = now,
         EntriesFit', call'[a] = value => CallFits(a)'
  PROVE  ModelsInv'
<1>1. ModelsTypeOK
  BY DEF ModelsInv
<1>2. call'[a] = value /\ \A b \in Calls \ {a} : call'[b] = call[b]
  BY <1>1 DEF CallBecomes, ModelsTypeOK
<1>3. ModelsTypeOK'
  BY <1>1 DEF CallBecomes, ModelsTypeOK
<1>4. \A b \in Calls \ {a} : CallFits(b)'
  BY <1>2, OthersFit
<1> QED BY <1>2, <1>3, <1>4, FitsAllNext

\* A step that leaves clock and catalogs alone has its own part to show only.
LEMMA QuietFit ==
  ASSUME ModelsInv, NEW a \in Calls, NEW value \in Call, CallBecomes(a, value),
         UNCHANGED <<now, catalogs>>,
         discovered' \in {discoverModels(list) : list \in Lists \cup {<<>>}} \cup {<<>>},
         call'[a] = value => CallFits(a)'
  PROVE  ModelsInv'
<1>1. ModelsTypeOK /\ EntriesFit
  BY DEF ModelsInv
<1>2. EntriesFit'
  BY <1>1 DEF EntriesFit
<1>3. catalogs' \in [Keys -> Entry \cup {NoEntry}]
  BY <1>1 DEF ModelsTypeOK
<1> QED BY <1>2, <1>3, OwnFit

(***************************************************************************)
(* One lemma for each action.                                              *)
(***************************************************************************)
LEMMA StepAsk ==
  ASSUME ModelsInv, NEW a \in Calls, NEW kind \in {"auth", "generate"}, NEW key \in Keys,
         Ask(a, kind, key)
  PROVE  ModelsInv'
<1> DEFINE value == IF kind = "auth"
       THEN [NoCall EXCEPT !.pc = "fetching", !.kind = kind, !.key = key, !.at = now]
       ELSE [NoCall EXCEPT !.pc = "looking", !.kind = kind, !.key = key]
<1>1. ModelsTypeOK
  BY DEF ModelsInv
<1>2. value \in Call
  <2>1. now \in Times /\ kind \in {"auth", "generate", "none"} /\ key \in Keys \cup {NoEntry}
    BY <1>1 DEF ModelsTypeOK
  <2>2. \A pc \in {"fetching", "looking"}, at \in Times :
          [NoCall EXCEPT !.pc = pc, !.kind = kind, !.key = key, !.at = at] \in Call
    BY <2>1, NoCallType DEF Call
  <2>3. [NoCall EXCEPT !.pc = "looking", !.kind = kind, !.key = key] \in Call
    BY <2>1, NoCallType DEF Call
  <2> QED BY <2>1, <2>2, <2>3
<1>3. CallBecomes(a, value) /\ UNCHANGED <<now, catalogs>> /\ discovered' = discovered
  BY DEF Ask
<1>4. call'[a] = value => CallFits(a)'
  BY <1>1, <1>3 DEF NoCall, CallFits, ModelsTypeOK
<1>5. discovered' \in {discoverModels(list) : list \in Lists \cup {<<>>}} \cup {<<>>}
  BY <1>1, <1>3 DEF ModelsTypeOK
<1> HIDE DEF value
<1> QED BY <1>2, <1>3, <1>4, <1>5, QuietFit

LEMMA StepLookHits ==
  ASSUME ModelsInv, NEW a \in Calls, LookHits(a)
  PROVE  ModelsInv'
<1> DEFINE found == catalogs[call[a].key]
           value == [call[a] EXCEPT !.pc = "resolving", !.models = found.models,
                                    !.age = now - found.asked]
<1>1. ModelsTypeOK /\ EntriesFit /\ call[a] \in Call /\ now \in Times /\ CallFits(a)
  BY FitsAll DEF ModelsInv, ModelsTypeOK
<1>2. CallBecomes(a, value) /\ UNCHANGED <<now, catalogs>> /\ discovered' = discovered
  BY DEF LookHits
<1>3. call[a].key \in Keys /\ found # NoEntry /\ now - found.fetched < Ttl
  BY <1>1 DEF LookHits, Fresh, CallFits
<1>4. found \in Entry
  BY <1>1, <1>3 DEF ModelsTypeOK
<1>5. found.asked <= found.fetched /\ found.fetched <= now
      /\ found.fetched - found.asked <= Timeout
  BY <1>1, <1>3 DEF EntriesFit
<1>6. /\ found.models \in Lists /\ found.asked \in Times /\ found.fetched \in Times
  BY <1>4 DEF Entry
<1>7. now - found.asked \in Times /\ now - found.asked < Ttl + Timeout
  BY <1>1, <1>3, <1>5, <1>6
<1>8. value \in Call
  BY <1>1, <1>6, <1>7 DEF Call
<1>9. call'[a] = value => CallFits(a)'
  BY <1>1, <1>3, <1>7 DEF CallFits, Call
<1>10. discovered' \in {discoverModels(list) : list \in Lists \cup {<<>>}} \cup {<<>>}
  BY <1>1, <1>2 DEF ModelsTypeOK
<1> HIDE DEF value
<1> QED BY <1>2, <1>8, <1>9, <1>10, QuietFit

LEMMA StepLookMisses ==
  ASSUME ModelsInv, NEW a \in Calls, LookMisses(a)
  PROVE  ModelsInv'
<1> DEFINE value == IF catalogs[call[a].key] = NoEntry
       THEN [call[a] EXCEPT !.pc = "fetching", !.at = now]
       ELSE [call[a] EXCEPT !.pc = "dropping", !.drop = call[a].key]
<1>1. ModelsTypeOK /\ call[a] \in Call /\ now \in Times /\ CallFits(a)
  BY FitsAll DEF ModelsInv, ModelsTypeOK
<1>2. CallBecomes(a, value) /\ UNCHANGED <<now, catalogs>> /\ discovered' = discovered
  BY DEF LookMisses
<1>3. call[a].pc = "looking"
  BY DEF LookMisses
<1>4. value \in Call
  BY <1>1 DEF Call
<1>5. call'[a] = value => CallFits(a)'
  BY <1>1, <1>2, <1>3 DEF CallFits, Call
<1>6. discovered' \in {discoverModels(list) : list \in Lists \cup {<<>>}} \cup {<<>>}
  BY <1>1, <1>2 DEF ModelsTypeOK
<1> HIDE DEF value
<1> QED BY <1>2, <1>4, <1>5, <1>6, QuietFit

LEMMA StepDrop ==
  ASSUME ModelsInv, NEW a \in Calls, Drop(a)
  PROVE  ModelsInv'
<1> DEFINE value == IF call[a].pc = "dropping"
       THEN [call[a] EXCEPT !.pc = "fetching", !.drop = NoEntry, !.at = now]
       ELSE [call[a] EXCEPT !.drop = NoEntry]
<1>1. ModelsTypeOK /\ EntriesFit /\ call[a] \in Call /\ now \in Times /\ CallFits(a)
  BY FitsAll DEF ModelsInv, ModelsTypeOK
<1>2. /\ CallBecomes(a, value) /\ now' = now /\ discovered' = discovered
      /\ catalogs' = [catalogs EXCEPT ![call[a].drop] = NoEntry]
      /\ call[a].drop \in Keys
  BY <1>1 DEF Drop, Call
<1>3. catalogs' \in [Keys -> Entry \cup {NoEntry}]
  BY <1>1, <1>2 DEF ModelsTypeOK
<1>4. /\ catalogs'[call[a].drop] = NoEntry
      /\ \A k \in Keys \ {call[a].drop} : catalogs'[k] = catalogs[k]
  BY <1>1, <1>2 DEF ModelsTypeOK
<1>5. EntriesFit'
  BY <1>1, <1>2, <1>4 DEF EntriesFit
<1>6. value \in Call
  BY <1>1 DEF Call
<1>7. call'[a] = value => CallFits(a)'
  <2> SUFFICES ASSUME call'[a] = value
               PROVE  CallFits(a)'
    OBVIOUS
  <2>1. CASE call[a].pc = "dropping"
    BY <1>1, <1>2, <2>1 DEF CallFits, Call
  <2>2. CASE call[a].pc # "dropping"
    <3>1. /\ call'[a].pc = call[a].pc /\ call'[a].at = call[a].at /\ call'[a].age = call[a].age
          /\ call'[a].left = call[a].left /\ call'[a].key = call[a].key
          /\ call'[a].drop = NoEntry
      BY <1>1, <2>2 DEF Call
    <3>2. SweepTime(a)' = SweepTime(a)
      BY <3>1 DEF SweepTime
    <3>3. \A k \in Keys \ {call[a].drop} : Stale(a, k)' <=> Stale(a, k)
      BY <1>4, <3>2 DEF Stale
    <3>4. \A k \in Keys : k = call[a].drop => ~Stale(a, k)'
      BY <1>4 DEF Stale
    <3> QED BY <1>1, <1>2, <3>1, <3>2, <3>3, <3>4 DEF CallFits
  <2> QED BY <2>1, <2>2
<1>8. discovered' \in {discoverModels(list) : list \in Lists \cup {<<>>}} \cup {<<>>}
  BY <1>1, <1>2 DEF ModelsTypeOK
<1> HIDE DEF value
<1> QED BY <1>2, <1>3, <1>4, <1>5, <1>6, <1>7, <1>8, OwnFit

LEMMA StepFetchAnswers ==
  ASSUME ModelsInv, NEW a \in Calls, NEW list \in Lists, FetchAnswers(a, list)
  PROVE  ModelsInv'
<1> DEFINE stored == [models |-> list, fetched |-> now, asked |-> call[a].at]
           value == Answered(a, list)
<1>1. ModelsTypeOK /\ EntriesFit /\ call[a] \in Call /\ now \in Times /\ CallFits(a)
  BY FitsAll DEF ModelsInv, ModelsTypeOK
<1>2. /\ CallBecomes(a, value) /\ now' = now /\ discovered' = discovered
      /\ catalogs' = [catalogs EXCEPT ![call[a].key] = stored]
      /\ call[a].pc = "fetching"
  BY DEF FetchAnswers
<1>3. /\ call[a].key \in Keys /\ call[a].at \in Times /\ call[a].at <= now
      /\ now - call[a].at <= Timeout
  BY <1>1, <1>2 DEF CallFits, Call
<1>4. stored \in Entry
  BY <1>1, <1>3 DEF Entry
<1>5. catalogs' \in [Keys -> Entry \cup {NoEntry}]
  BY <1>1, <1>2, <1>4 DEF ModelsTypeOK
<1>6. /\ catalogs'[call[a].key] = stored
      /\ \A k \in Keys \ {call[a].key} : catalogs'[k] = catalogs[k]
  BY <1>1, <1>2, <1>3 DEF ModelsTypeOK
<1>7. EntriesFit'
  BY <1>1, <1>2, <1>3, <1>6 DEF EntriesFit
<1>8. now - call[a].at \in Times
  BY <1>1, <1>3
<1>9. value \in Call
  BY <1>1, <1>8 DEF Answered, Call
<1>10. call'[a] = value => CallFits(a)'
  <2> SUFFICES ASSUME call'[a] = value
               PROVE  CallFits(a)'
    OBVIOUS
  <2>1. /\ call'[a].pc = "sweeping" /\ call'[a].at = call[a].at
        /\ call'[a].age = now - call[a].at /\ call'[a].left = Keys /\ call'[a].key = call[a].key
    BY <1>1 DEF Answered, Call
  <2>2. SweepTime(a)' = now
    BY <1>1, <1>3, <2>1 DEF SweepTime
  <2> QED BY <1>1, <1>2, <1>3, <2>1, <2>2 DEF CallFits
<1>11. discovered' \in {discoverModels(l) : l \in Lists \cup {<<>>}} \cup {<<>>}
  BY <1>1, <1>2 DEF ModelsTypeOK
<1>12. catalogs'[call[a].key].fetched = now
  BY <1>6
<1> HIDE DEF value
<1> QED BY <1>2, <1>5, <1>6, <1>7, <1>9, <1>10, <1>11, <1>12, OwnFit

LEMMA StepFetchFails ==
  ASSUME ModelsInv, NEW a \in Calls, FetchFails(a)
  PROVE  ModelsInv'
<1> DEFINE value == [call[a] EXCEPT !.pc = "resolving"]
<1>1. ModelsTypeOK /\ call[a] \in Call /\ now \in Times /\ CallFits(a)
  BY FitsAll DEF ModelsInv, ModelsTypeOK
<1>2. CallBecomes(a, value) /\ UNCHANGED <<now, catalogs>> /\ discovered' = discovered
  BY DEF FetchFails
<1>3. call[a].pc = "fetching"
  BY DEF FetchFails
<1>4. value \in Call
  BY <1>1 DEF Call
<1>5. call'[a] = value => CallFits(a)'
  BY <1>1, <1>3 DEF CallFits, Call
<1>6. discovered' \in {discoverModels(list) : list \in Lists \cup {<<>>}} \cup {<<>>}
  BY <1>1, <1>2 DEF ModelsTypeOK
<1> HIDE DEF value
<1> QED BY <1>2, <1>4, <1>5, <1>6, QuietFit

LEMMA StepSweep ==
  ASSUME ModelsInv, NEW a \in Calls, NEW key \in Keys, Sweep(a, key)
  PROVE  ModelsInv'
<1> DEFINE value == [call[a] EXCEPT !.left = call[a].left \ {key},
                                    !.drop = IF Stale(a, key) THEN key ELSE NoEntry]
<1>1. ModelsTypeOK /\ call[a] \in Call /\ now \in Times /\ CallFits(a)
  BY FitsAll DEF ModelsInv, ModelsTypeOK
<1>2. CallBecomes(a, value) /\ UNCHANGED <<now, catalogs>> /\ discovered' = discovered
  BY DEF Sweep
<1>3. call[a].pc = "sweeping" /\ call[a].drop = NoEntry
  BY DEF Sweep
<1>4. value \in Call
  BY <1>1 DEF Call
<1>5. call'[a] = value => CallFits(a)'
  <2> SUFFICES ASSUME call'[a] = value
               PROVE  CallFits(a)'
    OBVIOUS
  <2>1. /\ call'[a].pc = "sweeping" /\ call'[a].at = call[a].at
        /\ call'[a].age = call[a].age /\ call'[a].key = call[a].key
        /\ call'[a].left = call[a].left \ {key}
        /\ call'[a].drop = IF Stale(a, key) THEN key ELSE NoEntry
    BY <1>1, <1>3 DEF Call
  <2>2. SweepTime(a)' = SweepTime(a)
    BY <2>1 DEF SweepTime
  <2>3. \A k \in Keys : Stale(a, k)' <=> Stale(a, k)
    BY <1>2, <2>2 DEF Stale
  <2>4. \A k \in Keys : (k \notin call[a].left /\ k # call[a].drop) => ~Stale(a, k)
    BY <1>1, <1>3 DEF CallFits
  <2>5. ASSUME NEW k \in Keys, k \notin call'[a].left, k # call'[a].drop
        PROVE  ~Stale(a, k)'
    <3>1. CASE k = key
      BY <2>1, <2>3, <2>5, <3>1
    <3>2. CASE k # key
      <4>1. k \notin call[a].left
        BY <2>1, <2>5, <3>2
      <4>2. k # call[a].drop
        BY <1>3
      <4> QED BY <2>3, <2>4, <4>1, <4>2
    <3> QED BY <3>1, <3>2
  <2> QED BY <1>1, <1>2, <1>3, <2>1, <2>2, <2>5 DEF CallFits
<1>6. discovered' \in {discoverModels(list) : list \in Lists \cup {<<>>}} \cup {<<>>}
  BY <1>1, <1>2 DEF ModelsTypeOK
<1> HIDE DEF value
<1> QED BY <1>2, <1>4, <1>5, <1>6, QuietFit

LEMMA StepSweepEnds ==
  ASSUME ModelsInv, NEW a \in Calls, SweepEnds(a)
  PROVE  ModelsInv'
<1> DEFINE value == [call[a] EXCEPT !.pc = "resolving"]
<1>1. ModelsTypeOK /\ call[a] \in Call /\ now \in Times /\ CallFits(a)
  BY FitsAll DEF ModelsInv, ModelsTypeOK
<1>2. CallBecomes(a, value) /\ UNCHANGED <<now, catalogs>> /\ discovered' = discovered
  BY DEF SweepEnds
<1>3. call[a].pc = "sweeping"
  BY DEF SweepEnds
<1>4. value \in Call
  BY <1>1 DEF Call
<1>5. call'[a] = value => CallFits(a)'
  BY <1>1, <1>3 DEF CallFits, Call
<1>6. discovered' \in {discoverModels(list) : list \in Lists \cup {<<>>}} \cup {<<>>}
  BY <1>1, <1>2 DEF ModelsTypeOK
<1> HIDE DEF value
<1> QED BY <1>2, <1>4, <1>5, <1>6, QuietFit

\* The calls end in the same state.
LEMMA StepReturns ==
  ASSUME ModelsInv, NEW a \in Calls, AuthAnswers(a) \/ Selects(a)
  PROVE  ModelsInv'
<1>1. ModelsTypeOK /\ call[a] \in Call
  BY DEF ModelsInv, ModelsTypeOK
<1>2. CallBecomes(a, NoCall) /\ UNCHANGED <<now, catalogs>>
  BY DEF AuthAnswers, Selects, Returns
<1>3. call'[a] = NoCall => CallFits(a)'
  BY DEF NoCall, CallFits
<1>4. discovered' \in {discoverModels(list) : list \in Lists \cup {<<>>}} \cup {<<>>}
  <2>1. call[a].models \in Lists \cup {<<>>}
    BY <1>1 DEF Call
  <2>2. discovered \in {discoverModels(list) : list \in Lists \cup {<<>>}} \cup {<<>>}
    BY <1>1 DEF ModelsTypeOK
  <2>3. discovered' = discoverModels(call[a].models) \/ discovered' = discovered
    BY DEF AuthAnswers, Selects, Discovered
  <2> QED BY <2>1, <2>2, <2>3
<1> QED BY <1>2, <1>3, <1>4, NoCallType, QuietFit

LEMMA StepTick ==
  ASSUME ModelsInv, Tick
  PROVE  ModelsInv'
<1>1. ModelsTypeOK /\ EntriesFit /\ \A a \in Calls : CallFits(a)
  BY FitsAll
<1>2. /\ now < MaxTime /\ now' = now + 1 /\ UNCHANGED <<catalogs, discovered, call>>
      /\ \A a \in Calls : call[a].pc = "fetching" => now - call[a].at < Timeout
  BY DEF Tick
<1>3. ModelsTypeOK'
  BY <1>1, <1>2 DEF ModelsTypeOK
<1>4. EntriesFit'
  <2> SUFFICES ASSUME NEW k \in Keys, catalogs[k] # NoEntry
               PROVE  catalogs[k].fetched <= now'
    BY <1>1, <1>2 DEF EntriesFit
  <2>1. catalogs[k] \in Entry /\ catalogs[k].fetched <= now /\ now \in Times
    BY <1>1 DEF ModelsTypeOK, EntriesFit
  <2> QED BY <1>2, <2>1 DEF Entry
<1>5. ASSUME NEW a \in Calls
      PROVE  CallFits(a)'
  <2>1. CallFits(a) /\ call[a] \in Call /\ now \in Times
    BY <1>1 DEF ModelsTypeOK
  <2>2. SweepTime(a)' = SweepTime(a) /\ SweepTime(a) \in Int
    BY <1>2, <2>1 DEF SweepTime, Call
  <2>3. \A k \in Keys : Stale(a, k)' <=> Stale(a, k)
    BY <1>2, <2>2 DEF Stale
  <2> QED BY <1>2, <2>1, <2>2, <2>3 DEF CallFits, Call
<1> QED BY <1>3, <1>4, <1>5, FitsAllNext

-----------------------------------------------------------------------------
LEMMA ModelsInvInit == ModelsInit => ModelsInv
<1> SUFFICES ASSUME ModelsInit
             PROVE  ModelsInv
  OBVIOUS
<1>1. ModelsTypeOK
  BY NoCallType DEF ModelsInit, ModelsTypeOK
<1>2. \A a \in Calls : CallFits(a)
  BY DEF ModelsInit, NoCall, CallFits
<1>3. EntriesFit
  BY DEF ModelsInit, EntriesFit
<1> QED BY <1>1, <1>2, <1>3, FitsAll

LEMMA ModelsInvStep == ModelsInv /\ [ModelsNext]_modelsVars => ModelsInv'
<1> SUFFICES ASSUME ModelsInv, [ModelsNext]_modelsVars
             PROVE  ModelsInv'
  OBVIOUS
<1>1. ASSUME NEW a \in Calls, CallStep(a)
      PROVE  ModelsInv'
  BY <1>1, StepAsk, StepLookHits, StepLookMisses, StepDrop, StepFetchAnswers,
     StepFetchFails, StepSweep, StepSweepEnds, StepReturns DEF CallStep
<1>2. CASE UNCHANGED modelsVars
  <2>1. ModelsTypeOK /\ EntriesFit /\ \A a \in Calls : CallFits(a)
    BY FitsAll
  <2>2. ModelsTypeOK' /\ EntriesFit'
    BY <1>2, <2>1 DEF modelsVars, ModelsTypeOK, EntriesFit
  <2>3. \A a \in Calls : CallFits(a)'
    BY <1>2, <2>1 DEF modelsVars, CallFits, SweepTime, Stale
  <2> QED BY <2>2, <2>3, FitsAllNext
<1> QED BY <1>1, <1>2, StepTick DEF ModelsNext

LEMMA ModelsInvAlways == ModelsSpec => []ModelsInv
BY ModelsInvInit, ModelsInvStep, PTL DEF ModelsSpec

\* The variables have their types, and what a generation goes by was asked for less than
\* catalogTTL and catalogTimeout ago: the age of an entry is counted from the answer, that of
\* its content from the question before (catalogFor).
THEOREM ListsStayRecent == ModelsSpec => []ListsAreRecent
<1>1. ModelsInv => ListsAreRecent
  BY DEF ModelsInv, AgesFit, ListsAreRecent, UsedListIsRecent
<1> QED BY <1>1, ModelsInvAlways, PTL

\* A sweep that ends leaves no entry that was too old when it began, whatever is stored and
\* deleted meanwhile (evictStaleCatalogs), and a discovery is never forgotten (modelsForAuth).
THEOREM CatalogsStayUp == ModelsSpec => CatalogsAreKeptUp
<1>1. ASSUME ModelsInv, ModelsNext, NEW a \in Calls,
             call[a].pc = "sweeping", call'[a].pc = "resolving",
             NEW k \in Keys, catalogs[k] # NoEntry
      PROVE  SweepTime(a) - catalogs[k].fetched <= Ttl
  <2>1. ModelsTypeOK /\ CallFits(a) /\ call[a] \in Call /\ now \in Times
    BY <1>1, FitsAll DEF ModelsTypeOK
  <2>2. SweepEnds(a)
    <3>1. PICK b \in Calls : CallStep(b)
      BY <1>1 DEF ModelsNext, Tick
    <3>2. b = a
      <4>1. \E value : CallBecomes(b, value)
        BY <3>1 DEF CallStep, Ask, LookHits, LookMisses, Drop, FetchAnswers, FetchFails,
           Sweep, SweepEnds, AuthAnswers, Selects, Returns
      <4> QED BY <1>1, <2>1, <4>1 DEF CallBecomes, ModelsTypeOK
    <3>3. \A value : CallBecomes(a, value) => call'[a] = value
      BY <2>1 DEF CallBecomes, ModelsTypeOK
    <3>4. ~Drop(a)
      BY <1>1, <2>1, <3>3 DEF Drop, Call
    <3>5. \A key \in Keys : ~Sweep(a, key)
      BY <1>1, <2>1, <3>3 DEF Sweep, Call
    <3>6. \A key \in Keys, kind \in {"auth", "generate"} : ~Ask(a, kind, key)
      BY <1>1 DEF Ask
    <3>7. /\ ~LookHits(a) /\ ~LookMisses(a) /\ ~FetchFails(a) /\ ~AuthAnswers(a) /\ ~Selects(a)
          /\ \A list \in Lists : ~FetchAnswers(a, list)
      BY <1>1 DEF LookHits, LookMisses, FetchFails, AuthAnswers, Selects, FetchAnswers
    <3> QED BY <3>1, <3>2, <3>4, <3>5, <3>6, <3>7 DEF CallStep
  <2>3. ~Stale(a, k)
    BY <1>1, <2>1, <2>2 DEF SweepEnds, CallFits
  <2>4. catalogs[k].fetched \in Int /\ SweepTime(a) \in Int
    BY <1>1, <2>1 DEF ModelsTypeOK, Entry, SweepTime, Call
  <2> QED BY <1>1, <2>3, <2>4 DEF Stale
<1>2. ModelsInv /\ [ModelsNext]_modelsVars =>
        [\A a \in Calls : (call[a].pc = "sweeping" /\ call'[a].pc = "resolving") =>
           \A k \in Keys : catalogs[k] # NoEntry =>
             SweepTime(a) - catalogs[k].fetched <= Ttl]_modelsVars
  BY <1>1
<1>3. [ModelsNext]_modelsVars => [discovered # <<>> => discovered' # <<>>]_modelsVars
  BY DEF ModelsNext, CallStep, Ask, LookHits, LookMisses, Drop, FetchAnswers, FetchFails,
     Sweep, SweepEnds, AuthAnswers, Selects, Tick, Discovered, modelsVars
<1>4. ModelsSpec => SweepLeavesNothingStale
  BY <1>2, ModelsInvAlways, PTL DEF ModelsSpec, SweepLeavesNothingStale
<1>5. ModelsSpec => DiscoveryIsKept
  BY <1>3, PTL DEF ModelsSpec, DiscoveryIsKept
<1> QED BY <1>4, <1>5 DEF CatalogsAreKeptUp

(***************************************************************************)
(* What is listed, and what is selected of it.                             *)
(***************************************************************************)

\* A model of a catalog, whatever its letters, parameters and values are.
Model(Letters, Params, Values) ==
  [id : Seq(Letters), params : Seq([id : Params, values : Seq(Values)])]

Patterns(Letters) == Seq(Seq(Letters))

\* Names of parameters that are not there twice.
EachOnce(model) == \A d, e \in ToSet(model.params) : d.id = e.id => d = e

LEMMA MembersOf ==
  ASSUME NEW T, NEW s \in Seq(T)
  PROVE  /\ ToSet(s) \in SUBSET T /\ \A i \in DOMAIN s : s[i] \in ToSet(s)
         /\ (s # <<>> => Head(s) \in ToSet(s))
<1>1. DOMAIN s = 1..Len(s) /\ Len(s) \in Nat
  OBVIOUS
<1>2. ToSet(s) \in SUBSET T /\ \A i \in DOMAIN s : s[i] \in ToSet(s)
  BY DEF ToSet
<1>3. ASSUME s # <<>>
      PROVE  Head(s) \in ToSet(s)
  <2>1. 1 \in DOMAIN s /\ Head(s) = s[1]
    BY <1>1, <1>3
  <2> QED BY <1>2, <2>1
<1> QED BY <1>2, <1>3

LEMMA ListedRightly ==
  ASSUME NEW Letters, NEW Models, \A model \in Models : model.id \in Seq(Letters),
         NEW list \in Seq(Models), NEW excluded \in Patterns(Letters)
  PROVE  LET models == discoverModels(list)
             listed == applyExcludedModels(models, excluded) IN
         \A i \in DOMAIN models :
           (models[i] \in ToSet(listed)) <=>
             ~ \E j \in DOMAIN excluded : Matches(excluded[j], models[i].id)
<1> DEFINE nameless == {model \in ToSet(list) : model.id = <<>>}
           models == discoverModels(list)
           out == {model \in ToSet(models) :
                     \E j \in DOMAIN excluded : matchExcludedModel(excluded[j], model.id)}
           listed == applyExcludedModels(models, excluded)
<1>1. models \in Seq(Models) /\ ToSet(models) = ToSet(list) \ nameless
  BY WithoutKeeps DEF discoverModels
<1> HIDE DEF models
<1>2. ToSet(listed) = ToSet(models) \ out
  <2>1. ToSet(Without(models, out)) = ToSet(models) \ out
    <3> HIDE DEF out
    <3> QED BY <1>1, WithoutKeeps
  <2> QED BY <2>1 DEF applyExcludedModels
<1>3. ASSUME NEW i \in DOMAIN models
      PROVE  (models[i] \in ToSet(listed)) <=>
               ~ \E j \in DOMAIN excluded : Matches(excluded[j], models[i].id)
  <2> DEFINE model == models[i]
  <2>1. model \in ToSet(models) /\ model \in Models
    BY <1>1, MembersOf
  <2>2. model.id \in Seq(Letters) /\ model.id # <<>>
    BY <1>1, <2>1
  <2> HIDE DEF model
  <2>3. ASSUME NEW j \in DOMAIN excluded
        PROVE  matchExcludedModel(excluded[j], model.id) <=> Matches(excluded[j], model.id)
    <3> DEFINE p == excluded[j]
               v == model.id
    <3>1. p \in Seq(Letters)
      BY DEF Patterns
    <3>2. v \in Seq(Letters) /\ v # <<>>
      BY <2>2
    <3> HIDE DEF p, v
    <3>3. matchExcludedModel(p, v) <=> p # <<>> /\ Matches(p, v)
      BY <3>1, <3>2, MatchIsRight
    <3>4. ASSUME Matches(p, v)
          PROVE  p # <<>>
      <4> SUFFICES ASSUME p = <<>>
                   PROVE  FALSE
        OBVIOUS
      <4>1. PICK f : Taken(f, p, v)
        BY <3>4, Zenon DEF Matches, Taken
      <4>2. Len(p) = 0 /\ f[0] = 0 /\ f[Len(p)] = Len(v)
        BY <4>1 DEF Taken
      <4>3. Len(v) = 0
        BY <4>2
      <4> QED BY <3>2, <4>3
    <3> QED BY <3>3, <3>4 DEF p, v
  <2>4. model \in ToSet(listed) <=>
          ~ \E j \in DOMAIN excluded : matchExcludedModel(excluded[j], model.id)
    BY <1>2, <2>1
  <2> HIDE DEF listed
  <2> QED BY <2>3, <2>4 DEF model
<1> HIDE DEF listed
<1> QED BY <1>3 DEF listed, models

LEMMA ValueIsOffered ==
  ASSUME NEW Values, NoValue \notin Values, NEW d, d.values \in Seq(Values), NEW asked
  PROVE  /\ ParamValue(d, asked) # NoValue => ParamValue(d, asked) \in ToSet(d.values)
         /\ (d.id = "optimize_for" /\ d.values # <<>>) => ParamValue(d, asked) # NoValue
<1> DEFINE supplied == requestedValue(asked.params, d.id)
<1>1. ToSet(d.values) \in SUBSET Values /\ (d.values # <<>> => Head(d.values) \in ToSet(d.values))
  BY MembersOf
<1>2. ParamValue(d, asked) =
        IF supplied \in ToSet(d.values) THEN supplied
        ELSE IF d.id = "optimize_for" THEN preferredOptimizeFor(d, asked.optimizeFor)
        ELSE NoValue
  BY DEF ParamValue
<1> HIDE DEF supplied
<1>3. preferredOptimizeFor(d, asked.optimizeFor) =
        IF asked.optimizeFor \in ToSet(d.values) THEN asked.optimizeFor
        ELSE IF d.values # <<>> THEN Head(d.values) ELSE NoValue
  BY DEF preferredOptimizeFor
<1> QED BY <1>1, <1>2, <1>3

LEMMA FirstIsFound ==
  ASSUME NEW Models, NEW models \in Seq(Models), NEW asked, NEW i \in DOMAIN models,
         models[i].id # <<>>, models[i].id = asked.model,
         \A j \in 1..(i - 1) : models[j].id # asked.model
  PROVE  resolveModelSelection(models, asked) =
           Selection(asked.model,
             {<<d.id, ParamValue(d, asked)>> :
                d \in {e \in ToSet(models[i].params) : ParamValue(e, asked) # NoValue}})
<1> DEFINE I == {j \in 1..Len(models) : models[j].id # <<>> /\ models[j].id = asked.model}
           found == SelectInSeq(models, LAMBDA model : model.id # <<>> /\ model.id = asked.model)
<1>1. DOMAIN models = 1..Len(models) /\ Len(models) \in Nat
  OBVIOUS
<1>2. found = IF I # {} THEN Min(I) ELSE 0
  BY DEF SelectInSeq
<1>3. i \in I /\ I \in SUBSET Nat
  BY <1>1
<1>4. Min(I) \in I /\ \A j \in I : Min(I) <= j
  <2> HIDE DEF I
  <2> QED BY <1>3, Least
<1>5. found = i /\ i # 0
  <2> DEFINE x == Min(I)
  <2>1. x \in 1..Len(models) /\ models[x].id = asked.model /\ x <= i
    BY <1>3, <1>4
  <2> HIDE DEF x
  <2>2. x \notin 1..(i - 1)
    BY <2>1
  <2>3. x = i /\ i # 0
    BY <1>1, <2>1, <2>2
  <2> QED BY <1>2, <1>3, <2>3 DEF x
<1> HIDE DEF I
<1> QED BY <1>5 DEF resolveModelSelection

LEMMA SelectedRightly ==
  ASSUME NEW Letters, NEW Params, NEW Values, NoValue \notin Values,
         NEW models \in Seq(Model(Letters, Params, Values)),
         \A model \in ToSet(models) : EachOnce(model),
         NEW asked, NEW i \in DOMAIN models,
         models[i].id # <<>>, models[i].id = asked.model,
         \A j \in 1..(i - 1) : models[j].id # asked.model
  PROVE  LET definitions == ToSet(models[i].params)
             params == resolveModelSelection(models, asked).params IN
         /\ \A p \in params : \E d \in definitions : p[1] = d.id /\ p[2] \in ToSet(d.values)
         /\ \A p, q \in params : p[1] = q[1] => p = q
         /\ \A d \in definitions : (d.id = "optimize_for" /\ d.values # <<>>) =>
              \E p \in params : p[1] = d.id
<1> DEFINE definitions == ToSet(models[i].params)
           chosen == {d \in definitions : ParamValue(d, asked) # NoValue}
           params == {<<d.id, ParamValue(d, asked)>> : d \in chosen}
<1>1. resolveModelSelection(models, asked).params = params
  BY FirstIsFound DEF Selection
<1>2. EachOnce(models[i]) /\ models[i].params \in Seq([id : Params, values : Seq(Values)])
  <2>1. models[i] \in ToSet(models)
    BY DEF ToSet
  <2>2. models[i] \in Model(Letters, Params, Values)
    OBVIOUS
  <2> QED BY <2>1, <2>2 DEF Model
<1>3. definitions \in SUBSET [id : Params, values : Seq(Values)]
  <2> DEFINE T == [id : Params, values : Seq(Values)]
             s == models[i].params
  <2>1. s \in Seq(T)
    BY <1>2
  <2> HIDE DEF T, s
  <2>2. ToSet(s) \in SUBSET T
    BY <2>1, MembersOf
  <2> QED BY <2>2 DEF T, s
<1>4. ASSUME NEW d \in definitions
      PROVE  /\ ParamValue(d, asked) # NoValue => ParamValue(d, asked) \in ToSet(d.values)
             /\ (d.id = "optimize_for" /\ d.values # <<>>) => ParamValue(d, asked) # NoValue
  <2>1. d.values \in Seq(Values)
    BY <1>3
  <2> HIDE DEF definitions
  <2> QED BY <2>1, ValueIsOffered
<1>5. \A d, e \in definitions : d.id = e.id => d = e
  BY <1>2 DEF EachOnce
<1> HIDE DEF definitions
<1>6. \A p \in params : \E d \in definitions : p[1] = d.id /\ p[2] \in ToSet(d.values)
  BY <1>4
<1>7. ASSUME NEW p \in params, NEW q \in params, p[1] = q[1]
      PROVE  p = q
  <2>1. PICK d \in chosen : p = <<d.id, ParamValue(d, asked)>>
    OBVIOUS
  <2>2. PICK e \in chosen : q = <<e.id, ParamValue(e, asked)>>
    OBVIOUS
  <2>3. d = e
    BY <1>5, <1>7, <2>1, <2>2
  <2> QED BY <2>1, <2>2, <2>3
<1>8. ASSUME NEW d \in definitions, d.id = "optimize_for", d.values # <<>>
      PROVE  \E p \in params : p[1] = d.id
  <2>1. d \in chosen
    BY <1>4, <1>8
  <2>2. <<d.id, ParamValue(d, asked)>> \in params
    BY <2>1
  <2> QED BY <2>2
<1> HIDE DEF params
<1> QED BY <1>1, <1>6, <1>7, <1>8 DEF definitions

\* Whatever the catalogs list and the patterns in force are, a discovery answers a model if
\* and only if no pattern matches its id, although the search in matchExcludedModel never goes
\* back; and Cursor is sent, for a model it lists, its own parameters with values it offers,
\* one each, a router's optimize_for among them (resolveModelSelection), as long as no model
\* has a parameter twice.
THEOREM ModelsStayUsable ==
  ASSUME NEW Letters, NEW Params, NEW Values, NoValue \notin Values,
         Lists \in SUBSET Seq(Model(Letters, Params, Values)),
         \A list \in Lists : \A model \in ToSet(list) : EachOnce(model),
         Exclusions \in SUBSET [attributes : Patterns(Letters), host : Patterns(Letters),
                                storage : Patterns(Letters)]
  PROVE  ModelsSpec => []ModelsAreUsable
<1>1. Lists \in SUBSET RightlyListed
  <2> SUFFICES ASSUME NEW list \in Lists, NEW x \in Exclusions
               PROVE  LET models == discoverModels(list)
                          excluded == excludedModelsForRequest(x)
                          listed == applyExcludedModels(models, excluded) IN
                      \A i \in DOMAIN models :
                        (models[i] \in ToSet(listed)) <=>
                          ~ \E j \in DOMAIN excluded : Matches(excluded[j], models[i].id)
    BY DEF RightlyListed
  <2> DEFINE Models == Model(Letters, Params, Values)
             excluded == excludedModelsForRequest(x)
  <2>1. \A model \in Models : model.id \in Seq(Letters)
    BY DEF Model
  <2>2. list \in Seq(Models)
    OBVIOUS
  <2>3. excluded \in Patterns(Letters)
    <3>1. /\ x.attributes \in Patterns(Letters) /\ x.host \in Patterns(Letters)
          /\ x.storage \in Patterns(Letters)
      OBVIOUS
    <3>2. x.host \o x.storage \in Patterns(Letters)
      BY <3>1 DEF Patterns
    <3> QED BY <3>1, <3>2 DEF excludedModelsForRequest
  <2> HIDE DEF Models, excluded
  <2>4. LET models == discoverModels(list)
            listed == applyExcludedModels(models, excluded) IN
        \A i \in DOMAIN models :
          (models[i] \in ToSet(listed)) <=>
            ~ \E j \in DOMAIN excluded : Matches(excluded[j], models[i].id)
    BY <2>1, <2>2, <2>3, ListedRightly
  <2> QED BY <2>4 DEF excluded
<1>2. Lists \in SUBSET RightlySelected
  <2> SUFFICES ASSUME NEW models \in Lists, NEW asked \in Asked, NEW i \in DOMAIN models,
                      models[i].id # <<>>, models[i].id = asked.model,
                      \A j \in 1..(i - 1) : models[j].id # asked.model
               PROVE  LET definitions == ToSet(models[i].params)
                          params == resolveModelSelection(models, asked).params IN
                      /\ \A p \in params :
                           \E d \in definitions : p[1] = d.id /\ p[2] \in ToSet(d.values)
                      /\ \A p, q \in params : p[1] = q[1] => p = q
                      /\ \A d \in definitions : (d.id = "optimize_for" /\ d.values # <<>>) =>
                           \E p \in params : p[1] = d.id
    BY DEF RightlySelected
  <2>1. models \in Seq(Model(Letters, Params, Values)) /\ \A model \in ToSet(models) : EachOnce(model)
    OBVIOUS
  <2> QED BY <2>1, SelectedRightly
<1>3. ModelsInv => ModelsAreUsable
  <2> SUFFICES ASSUME ModelsInv, NEW a \in Calls
               PROVE  call[a].models \in Lists \cup {<<>>}
    BY <1>1, <1>2 DEF ModelsAreUsable, ListedUnlessExcluded, SelectionIsAccepted
  <2>1. call[a] \in Call
    BY DEF ModelsInv, ModelsTypeOK
  <2> QED BY <2>1 DEF Call
<1> QED BY <1>3, ModelsInvAlways, PTL
=============================================================================
