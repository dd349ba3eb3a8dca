------------------------- MODULE CommandCodeStream -------------------------
(***************************************************************************)
(* Requests of the Command Code plugin and its quiesce                     *)
(* (auth-commandcode/go: executor.go, inflight.go, openai.go, anthropic.go,*)
(* sse.go, hosthttp.go, upstream.go).                                      *)
(*                                                                         *)
(* A request is forwarded to /chat/completions, whose stream is passed on  *)
(* as it is, or to /messages, whose events are turned into chat chunks.    *)
(* executeStream returns at once and a goroutine does the rest; execute    *)
(* waits.  Each is registered as in-flight work, which a quiesce cancels.  *)
(*                                                                         *)
(* A step is one call to the host (open, read, emit, close) or one         *)
(* critical section of inFlight.mu.  A host call is not interrupted: a     *)
(* cancelled context is only noticed before the next read.                 *)
(***************************************************************************)
EXTENDS Lists

CONSTANTS
  Requests,
  MaxEvents  \* bound: the events an upstream sends for a request, not counting pings and a cut one

ASSUME StreamAssumption == MaxEvents \in Nat

VARIABLES
  req,        \* [Requests -> the goroutine and its variables]
  sent,       \* [Requests -> the events read from the upstream, in order]
  got,        \* [Requests -> the chunks the host took from the plugin, in order]
  inFlight,   \* inFlight.cancels
  snapshot,   \* requests whose cancel function a quiesce has copied and not yet called
  cancelled   \* requests whose context a quiesce has cancelled

streamVars == <<req, sent, got, inFlight, snapshot, cancelled>>

-----------------------------------------------------------------------------
Routes == {"chat", "messages", "unary"}

StopReasons == {"end_turn", "max_tokens", "tool_use"}

FinishReasons == {"stop", "length", "tool_calls"}

\* mapStopReason.  "end_turn" stands for every other reason.
MapStopReason(reason) ==
  CASE reason = "max_tokens" -> "length"
    [] reason = "tool_use" -> "tool_calls"
    [] OTHER -> "stop"

\* An event of the upstream.  A tool_use block has an ordinal, which its arguments share.
\* "ping" is an event nothing is made of (a comment, message_start, the end of a block),
\* "cut" the visible part of an event in the middle of which the connection ended.
WireEvent == [kind : {"text", "tool", "args", "delta", "stop", "ping", "cut"},
              tool : Int, reason : StopReasons \cup {"none"}]

\* A chunk for the client.  "done" is the terminator [DONE].
Chunk == [role : BOOLEAN, kind : {"text", "tool", "args", "finish", "cut", "done"},
          tool : Int, reason : FinishReasons \cup {"none"}]

Wire(kind, tool, reason) == [kind |-> kind, tool |-> tool, reason |-> reason]

NoEvent == Wire("ping", -1, "none")

Pcs == {"idle", "calling", "opening", "reading", "forwarding", "terminating", "returned",
        "closing", "leaving", "ended"}

Results == {"none", "complete", "error"}

Request == [pc : Pcs, route : Routes, framed : BOOLEAN,
            body : {"none", "open", "closed"}, more : BOOLEAN, over : BOOLEAN,
            event : WireEvent, roleSent : BOOLEAN, toolIndex : Int,
            finish : FinishReasons \cup {"none"},
            result : Results, told : Results]

StreamTypeOK ==
  /\ req \in [Requests -> Request]
  /\ sent \in [Requests -> Seq(WireEvent)]
  /\ got \in [Requests -> Seq(Chunk)]
  /\ inFlight \in SUBSET Requests
  /\ snapshot \in SUBSET Requests
  /\ cancelled \in SUBSET Requests

ReqBecomes(r, value) == req' = [req EXCEPT ![r] = value]

ReqAt(r, pc) == ReqBecomes(r, [req[r] EXCEPT !.pc = pc])

\* A return of streamOpenAI or streamAnthropic; deferred calls come next.
StreamReturns(r, result) ==
  ReqBecomes(r, [req[r] EXCEPT !.pc = "returned", !.result = result, !.event = NoEvent])

-----------------------------------------------------------------------------
(* execute and executeStream *)

Idle(route, framed) ==
  [pc |-> "idle", route |-> route, framed |-> framed, body |-> "none", more |-> FALSE,
   over |-> FALSE, event |-> NoEvent, roleSent |-> FALSE, toolIndex |-> -1,
   finish |-> "none", result |-> "none", told |-> "none"]

\* A request that can be built is registered; the goroutine of a stream starts.
Accept(r, route, framed) ==
  /\ req[r].pc = "idle"
  /\ ReqBecomes(r, [Idle(route, framed) EXCEPT
                      !.pc = IF route = "unary" THEN "calling" ELSE "opening"])
  /\ inFlight' = inFlight \cup {r}
  /\ UNCHANGED <<sent, got, snapshot, cancelled>>

\* executeOpenAI or executeAnthropic, and the answer to the host.
Call(r, result) ==
  /\ req[r].pc = "calling"
  /\ ReqBecomes(r, [req[r] EXCEPT !.pc = "leaving", !.result = result, !.told = result])
  /\ UNCHANGED <<sent, got, inFlight, snapshot, cancelled>>

\* doHTTP opens the upstream's stream, with a status in 200..299.
Open(r) ==
  /\ req[r].pc = "opening"
  /\ ReqBecomes(r, [req[r] EXCEPT !.pc = "reading", !.body = "open"])
  /\ UNCHANGED <<sent, got, inFlight, snapshot, cancelled>>

\* The request cannot be converted or sent.
OpenFails(r) ==
  /\ req[r].pc = "opening"
  /\ StreamReturns(r, "error")
  /\ UNCHANGED <<sent, got, inFlight, snapshot, cancelled>>

\* Variant: this return comes before the deferred Close.
OpenRefused_NoClose(r) ==
  /\ req[r].pc = "opening"
  /\ ReqBecomes(r, [req[r] EXCEPT !.pc = "closing", !.result = "error", !.body = "open"])
  /\ UNCHANGED <<sent, got, inFlight, snapshot, cancelled>>

\* Another status: the body is read for the error's text and closed like any other.
OpenRefused(r) ==
  /\ req[r].pc = "opening"
  /\ ReqBecomes(r, [req[r] EXCEPT !.pc = "returned", !.result = "error", !.body = "open"])
  /\ UNCHANGED <<sent, got, inFlight, snapshot, cancelled>>

-----------------------------------------------------------------------------
(* Reading the stream: hostStreamBody.Read and readSSEEvent *)

Ordinals(s) == Cardinality({i \in DOMAIN s : s[i].kind = "tool"})

\* The upstream's protocol: a message is a sequence of blocks, one after the other, then its
\* stop reason and its end.  Of blocks there are text and tool_use only: convertTools sends no
\* tools but functions.
Upstream(r) ==
  LET s == sent[r]
      last == IF s = <<>> THEN "none" ELSE Last(s).kind
      text == Wire("text", -1, "none")
      tool == Wire("tool", Ordinals(s), "none")
      args == Wire("args", Ordinals(s) - 1, "none")
      stop == Wire("stop", -1, "none")
  IN IF req[r].route = "chat" THEN {text, stop}
     ELSE IF last = "delta" THEN {stop}
     ELSE {text, tool, stop} \cup {Wire("delta", -1, reason) : reason \in StopReasons}
            \cup IF last \in {"tool", "args"} THEN {args} ELSE {}

\* Variant: the context is not looked at.
MayRead_Cancelled(r) == ~req[r].over

\* The buffer holds more, or the host may be asked: not for a context that is cancelled.
MayRead(r) == ~req[r].over /\ (req[r].more \/ r \notin cancelled)

\* An event is read; a chunk of the host may have held two.
Receive(r, e, more) ==
  /\ req[r].pc = "reading"
  /\ MayRead(r)
  /\ more => ~req[r].more
  /\ ReqBecomes(r, [req[r] EXCEPT !.pc = "forwarding", !.event = e, !.more = more,
                                  !.over = e.kind = "cut"])
  /\ sent' = IF e.kind \in {"ping", "cut"} THEN sent ELSE [sent EXCEPT ![r] = Append(@, e)]
  /\ UNCHANGED <<got, inFlight, snapshot, cancelled>>

\* Variant: the end of the connection is taken for the end of the answer.
StreamFails_Complete(r) ==
  /\ req[r].pc = "reading"
  /\ \E result \in {"complete", "error"} : StreamReturns(r, result)
  /\ UNCHANGED <<sent, got, inFlight, snapshot, cancelled>>

\* The connection ends or breaks, the context is cancelled, or the event is an error.
StreamFails(r) ==
  /\ req[r].pc = "reading"
  /\ StreamReturns(r, "error")
  /\ UNCHANGED <<sent, got, inFlight, snapshot, cancelled>>

-----------------------------------------------------------------------------
(* Forwarding an event: forwardOpenAISSE and forwardAnthropicSSE *)

\* Variant: the index counts the blocks.
ToolIndex_OfBlock(r) ==
  IF req[r].event.kind \in {"text", "tool"} THEN req[r].toolIndex + 1 ELSE req[r].toolIndex

ToolIndex(r) ==
  IF req[r].event.kind = "tool" THEN req[r].toolIndex + 1 ELSE req[r].toolIndex

\* An event nothing is sent for.
Silent(r) ==
  \/ req[r].event.kind \in {"ping", "delta"}
  \/ req[r].event.kind = "args" /\ req[r].toolIndex < 0
  \/ req[r].event.kind = "stop" /\ req[r].route = "chat"

\* emitDelta, or the chunk as it came.
ChunkOf(r) ==
  LET e == req[r].event
      finish == IF req[r].finish = "none" THEN "stop" ELSE req[r].finish
  IN [role   |-> req[r].route # "chat" /\ ~req[r].roleSent,
      kind   |-> IF e.kind = "stop" THEN "finish" ELSE e.kind,
      tool   |-> IF e.kind \in {"tool", "args"} THEN ToolIndex(r) ELSE -1,
      reason |-> IF e.kind = "stop" THEN finish ELSE "none"]

\* What an event may be made into.  Of one that is cut off there may be nothing to show.
ChunksOf(r) ==
  IF Silent(r) THEN {<<>>}
  ELSE {<<ChunkOf(r)>>} \cup IF req[r].event.kind = "cut" THEN {<<>>} ELSE {}

\* What the goroutine does next when the host took the chunk.
Forwarded(r, chunks) ==
  LET e == req[r].event
      rr == [req[r] EXCEPT !.event = NoEvent, !.toolIndex = ToolIndex(r),
                           !.roleSent = @ \/ (chunks # <<>> /\ chunks[1].role),
                           !.finish = IF e.kind = "delta" THEN MapStopReason(e.reason) ELSE @]
  IN IF e.kind # "stop" THEN [rr EXCEPT !.pc = "reading"]
     ELSE IF rr.framed THEN [rr EXCEPT !.pc = "terminating"]
     ELSE [rr EXCEPT !.pc = "returned", !.result = "complete"]

Forward(r) ==
  /\ req[r].pc = "forwarding"
  /\ \E chunks \in ChunksOf(r) :
       /\ got' = [got EXCEPT ![r] = @ \o chunks]
       /\ ReqBecomes(r, Forwarded(r, chunks))
  /\ UNCHANGED <<sent, inFlight, snapshot, cancelled>>

\* framing.terminator.
Terminate(r) ==
  /\ req[r].pc = "terminating"
  /\ got' = [got EXCEPT ![r] = Append(@, [role |-> FALSE, kind |-> "done", tool |-> -1,
                                          reason |-> "none"])]
  /\ StreamReturns(r, "complete")
  /\ UNCHANGED <<sent, inFlight, snapshot, cancelled>>

\* The host does not take a chunk; or the goroutine panics making it, which its recover turns
\* into an error as well.
EmitFails(r) ==
  /\ req[r].pc = "terminating" \/ (req[r].pc = "forwarding" /\ ~Silent(r))
  /\ StreamReturns(r, "error")
  /\ UNCHANGED <<sent, got, inFlight, snapshot, cancelled>>

-----------------------------------------------------------------------------
(* The end of a request, and quiesce *)

\* The deferred resp.Body.Close.
CloseBody(r) ==
  /\ req[r].pc = "returned"
  /\ ReqBecomes(r, [req[r] EXCEPT !.pc = "closing",
                                  !.body = IF @ = "open" THEN "closed" ELSE @])
  /\ UNCHANGED <<sent, got, inFlight, snapshot, cancelled>>

\* closePluginStream, with the error if there was one.
CloseStream(r) ==
  /\ req[r].pc = "closing"
  /\ ReqBecomes(r, [req[r] EXCEPT !.pc = "leaving", !.told = req[r].result])
  /\ UNCHANGED <<sent, got, inFlight, snapshot, cancelled>>

\* The deferred cancel and unregisterInFlight.
Unregister(r) ==
  /\ req[r].pc = "leaving"
  /\ ReqAt(r, "ended")
  /\ inFlight' = inFlight \ {r}
  /\ UNCHANGED <<sent, got, snapshot, cancelled>>

\* quiesce copies the cancel functions of all work that is registered ...
Quiesce ==
  /\ snapshot' = snapshot \cup inFlight
  /\ UNCHANGED <<req, sent, got, inFlight, cancelled>>

\* ... and calls them.
CancelNext(r) ==
  /\ r \in snapshot
  /\ snapshot' = snapshot \ {r}
  /\ cancelled' = cancelled \cup {r}
  /\ UNCHANGED <<req, sent, got, inFlight>>

-----------------------------------------------------------------------------
StreamInit ==
  /\ req = [r \in Requests |-> Idle("chat", FALSE)]
  /\ sent = [r \in Requests |-> <<>>]
  /\ got = [r \in Requests |-> <<>>]
  /\ inFlight = {}
  /\ snapshot = {}
  /\ cancelled = {}

Events(r) ==
  {Wire("ping", -1, "none"), Wire("cut", -1, "none")}
    \cup IF Len(sent[r]) < MaxEvents THEN Upstream(r) ELSE {}

RequestStep(r) ==
  \/ \E result \in {"complete", "error"} : Call(r, result)
  \/ Open(r) \/ OpenFails(r) \/ OpenRefused(r)
  \/ \E e \in Events(r), more \in BOOLEAN : Receive(r, e, more)
  \/ StreamFails(r) \/ Forward(r) \/ Terminate(r) \/ EmitFails(r)
  \/ CloseBody(r) \/ CloseStream(r) \/ Unregister(r)

StreamNext ==
  \/ \E r \in Requests :
       \/ \E route \in Routes, framed \in BOOLEAN : Accept(r, route, framed)
       \/ RequestStep(r)
       \/ CancelNext(r)
  \/ Quiesce

StreamSpec == StreamInit /\ [][StreamNext]_streamVars

\* A goroutine runs, and a call to the host returns.
StreamFairness ==
  \A r \in Requests : WF_streamVars(RequestStep(r)) /\ WF_streamVars(CancelNext(r))

StreamFairSpec == StreamSpec /\ StreamFairness

-----------------------------------------------------------------------------
(* What the client should have heard of the events sent so far, from the whole of them: a role *)
(* on the first chunk alone, each tool with its ordinal, the reason and the terminator at the  *)
(* end.                                                                                        *)

Reason(s) ==
  LET says(reason) == Contains(s, Wire("delta", -1, reason)) IN
  CASE says("max_tokens") -> "length"
    [] says("tool_use") -> "tool_calls"
    [] OTHER -> "stop"

Unsaid(r) == {e \in WireEvent : e.kind = "delta" \/ (e.kind = "stop" /\ req[r].route = "chat")}

Said(r) == Without(sent[r], Unsaid(r))

Stopped(r) == sent[r] # <<>> /\ Last(sent[r]).kind = "stop"

Expected(r) ==
  LET said == Said(r)
      chunk(i) == [role |-> i = 1 /\ req[r].route # "chat",
                   kind |-> IF said[i].kind = "stop" THEN "finish" ELSE said[i].kind,
                   tool |-> said[i].tool,
                   reason |-> IF said[i].kind = "stop" THEN Reason(sent[r]) ELSE "none"]
      done == [role |-> FALSE, kind |-> "done", tool |-> -1, reason |-> "none"]
  IN [i \in DOMAIN said |-> chunk(i)]
       \o IF Stopped(r) /\ req[r].framed THEN <<done>> ELSE <<>>

CutChunks == {c \in Chunk : c.kind = "cut"}

\* The client hears what the upstream said, in its order, with nothing left out, doubled or
\* made up on the way, whenever the stream breaks.  What follows is at most the visible part
\* of a last event that was cut off.
RelayedInOrder ==
  \A r \in Requests :
    LET whole == Without(got[r], CutChunks) IN
    /\ IsPrefix(whole, Expected(r))
    /\ IsPrefix(whole, got[r]) /\ Len(got[r]) <= Len(whole) + 1

\* A stream that is closed without an error is a whole answer: the upstream sent its end, and
\* the client has all of it.
CompleteMeansAll ==
  \A r \in Requests : (req[r].route # "unary" /\ req[r].told = "complete") =>
    Stopped(r) /\ got[r] = Expected(r)

\* A client gets the answer the upstream sent, and knows whether it got all of it.
StreamIsRelayed == RelayedInOrder /\ CompleteMeansAll

\* A request that is over has told the host so, has closed what it opened and is nothing a
\* quiesce would wait for.
NothingLeft ==
  \A r \in Requests : req[r].pc = "ended" =>
    req[r].told # "none" /\ req[r].body # "open" /\ r \notin inFlight

\* inflight.go:8: what is in flight when a quiesce comes ends, whatever its upstream does.
QuiesceEndsWork ==
  \A r \in Requests : (r \in snapshot) ~> (req[r].pc = "ended")
=============================================================================
