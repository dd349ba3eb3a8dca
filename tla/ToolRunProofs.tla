--------------------------- MODULE ToolRunProofs ---------------------------
(* Theorems about the tool relay, for every set of runs, turns and calls. *)
EXTENDS ToolRun, TLAPS

(***************************************************************************)
(* Type correctness.                                                       *)
(***************************************************************************)
LEMMA AnswerTypes ==
  /\ NoAnswer \in Answer
  /\ \A kind \in AnswerKinds : Failure(kind) \in Answer
BY DEF NoAnswer, Failure, AnswerKinds, Answer

LEMMA RunTypes ==
  ASSUME NEW rr \in Run
  PROVE  /\ Scheduled(rr) \in Run
         /\ \A q \in Turns : Attached(rr, q) \in Run
         /\ \A c \in Calls : WithCall(rr, c) \in Run
         /\ Taken(rr) \in Run
         /\ Delivered(rr) \in Run
         /\ Finished(rr) \in Run
BY DEF Scheduled, Attached, WithCall, Taken, Delivered, Finished, Timers, Run

LEMMA BecomesTypes ==
  ASSUME TypeOK
  PROVE  /\ \A r, rr : RunBecomes(r, rr) /\ (r \in Runs => rr \in Run)
              => run' \in [Runs -> Run]
         /\ \A q, t : TurnBecomes(q, t) /\ (q \in Turns => t \in Turn)
              => turn' \in [Turns -> Turn]
         /\ \A c, k : CallBecomes(c, k) /\ (c \in Calls => k \in Call)
              => call' \in [Calls -> Call]
         /\ \A r, v : ReaderBecomes(r, v) /\ (r \in Runs => v \in Reader)
              => reader' \in [Runs -> Reader]
         /\ \A r, a : AnnouncerBecomes(r, a) /\ (r \in Runs => a \in Announcer)
              => announcer' \in [Runs -> Announcer]
         /\ \A r, d : TeardownBecomes(r, d) /\ (r \in Runs => d \in Teardown)
              => teardown' \in [Runs -> Teardown]
BY DEF TypeOK, RunBecomes, TurnBecomes, CallBecomes, ReaderBecomes, AnnouncerBecomes,
       TeardownBecomes

LEMMA AtTypes ==
  ASSUME TypeOK
  PROVE  /\ \A q, pc : TurnAt(q, pc) /\ pc \in TurnPcs => turn' \in [Turns -> Turn]
         /\ \A c, pc : CallAt(c, pc) /\ pc \in CallPcs => call' \in [Calls -> Call]
         /\ \A r, pc : ReaderAt(r, pc) /\ pc \in ReaderPcs => reader' \in [Runs -> Reader]
         /\ \A r, stage : TeardownAt(r, stage) /\ stage \in Stages
              => teardown' \in [Runs -> Teardown]
<1>1. \A t \in Turn, pc \in TurnPcs : [t EXCEPT !.pc = pc] \in Turn
  BY DEF Turn
<1>2. \A k \in Call, pc \in CallPcs : [k EXCEPT !.pc = pc] \in Call
  BY DEF Call
<1>3. \A v \in Reader, pc \in ReaderPcs : [v EXCEPT !.pc = pc] \in Reader
  BY DEF Reader
<1>4. \A d \in Teardown, stage \in Stages : [d EXCEPT !.stage = stage] \in Teardown
  BY DEF Teardown
<1> QED
  BY <1>1, <1>2, <1>3, <1>4, BecomesTypes DEF TypeOK, TurnAt, CallAt, ReaderAt, TeardownAt

LEMMA SendTypes ==
  ASSUME TypeOK, NEW q, NEW answer \in Answer, Send(q, answer)
  PROVE  turn' \in [Turns -> Turn]
<1>1. \A t \in Turn, n \in Nat : [t EXCEPT !.answer = answer, !.sends = n] \in Turn
  BY DEF Turn
<1>2. \A t \in Turn : t.sends + 1 \in Nat
  BY DEF Turn
<1> QED BY <1>1, <1>2, BecomesTypes DEF TypeOK, Send

LEMMA RejectTypes ==
  ASSUME TypeOK, NEW q, NEW kind \in AnswerKinds, Reject(q, kind)
  PROVE  turn' \in [Turns -> Turn]
<1>1. \A t \in Turn : [t EXCEPT !.pc = "returned", !.answer = Failure(kind)] \in Turn
  BY AnswerTypes DEF Turn, TurnPcs
<1> QED BY <1>1, BecomesTypes DEF TypeOK, Reject

LEMMA BeginTypes ==
  ASSUME TypeOK, NEW r, NEW answer \in Answer, Begin(r, answer)
  PROVE  /\ run' \in [Runs -> Run]
         /\ teardown' \in [Runs -> Teardown]
<1>1. run' \in [Runs -> Run]
  BY RunTypes, BecomesTypes DEF TypeOK, Begin
<1>2. teardown' \in [Runs -> Teardown]
  <2>1. \A d \in Teardown, w \in Turns \cup {None} :
          [d EXCEPT !.stage = "marked", !.waiter = w, !.answer = answer] \in Teardown
    BY DEF Teardown, Stages
  <2>2. r \in Runs => run[r].waiter \in Turns \cup {None} /\ teardown[r] \in Teardown
    BY DEF TypeOK, Run
  <2> QED BY <2>1, <2>2, BecomesTypes DEF Begin
<1> QED BY <1>1, <1>2

LEMMA TypeStartRun == ASSUME TypeOK, NEW q \in Turns, NEW r \in Runs, StartRun(q, r) PROVE TypeOK'
<1>1. \A t \in Turn : [t EXCEPT !.pc = "registered", !.run = r] \in Turn
  BY DEF Turn, TurnPcs
<1> QED BY <1>1, BecomesTypes, AtTypes DEF TypeOK, StartRun, registry, ReaderPcs

LEMMA TypeAttachStart == ASSUME TypeOK, NEW q \in Turns, AttachStart(q) PROVE TypeOK'
BY RunTypes, BecomesTypes, AtTypes DEF TypeOK, AttachStart, registry, TurnPcs

LEMMA TypeOpenSend == ASSUME TypeOK, NEW q \in Turns, OpenSend(q) PROVE TypeOK'
BY AtTypes DEF TypeOK, OpenSend, registry, TurnPcs, ReaderPcs

LEMMA TypeSendFails == ASSUME TypeOK, NEW q \in Turns, SendFails(q) PROVE TypeOK'
BY AtTypes DEF TypeOK, SendFails, registry, TurnPcs

LEMMA TypeLookupResume == ASSUME TypeOK, NEW q \in Turns, NEW ids \in SUBSET Calls, LookupResume(q, ids) PROVE TypeOK'
<1>1. \A t \in Turn : [t EXCEPT !.pc = "fresh", !.ids = ids] \in Turn
  BY DEF Turn, TurnPcs
<1>2. \A t \in Turn, r \in Runs : [t EXCEPT !.pc = "found", !.ids = ids, !.run = r] \in Turn
  BY DEF Turn, TurnPcs
<1>3. Owners(ids) \subseteq Runs
  BY DEF TypeOK, Owners
<1>4. turn' \in [Turns -> Turn]
  BY <1>1, <1>2, <1>3, BecomesTypes, RejectTypes DEF TypeOK, LookupResume, AnswerKinds
<1> QED BY <1>4 DEF TypeOK, LookupResume, registry

LEMMA TypeAttachResume == ASSUME TypeOK, NEW q \in Turns, AttachResume(q) PROVE TypeOK'
BY RunTypes, BecomesTypes, AtTypes, RejectTypes DEF TypeOK, AttachResume, registry, TurnPcs, AnswerKinds

LEMMA TypeDeliver == ASSUME TypeOK, NEW q \in Turns, Deliver(q) PROVE TypeOK'
BY RunTypes, BecomesTypes, AtTypes DEF TypeOK, Deliver, registry, TurnPcs

LEMMA TypeDeliverReply == ASSUME TypeOK, NEW q \in Turns, DeliverReply(q) PROVE TypeOK'
<1>1. \A k \in Call : [k EXCEPT !.reply = q] \in Call
  BY DEF Call
<1>2. call' \in [Calls -> Call]
  BY <1>1 DEF TypeOK, DeliverReply
<1>3. byExposedCallID' \in [Calls -> Runs \cup {None}]
  BY DEF TypeOK, DeliverReply
<1>4. turn' \in [Turns -> Turn]
  BY AtTypes DEF TypeOK, DeliverReply, TurnPcs
<1> QED BY <1>2, <1>3, <1>4 DEF TypeOK, DeliverReply

LEMMA TypeDetach == ASSUME TypeOK, NEW q \in Turns, Detach(q) PROVE TypeOK'
<1>1. \A rr \in Run, w \in Turns \cup {None} : [rr EXCEPT !.waiter = w] \in Run
  BY DEF Run
<1>2. \A rr \in Run : rr.waiter \in Turns \cup {None}
  BY DEF Run
<1>3. run' \in [Runs -> Run]
  BY <1>1, <1>2, BecomesTypes DEF TypeOK, Detach
<1>4. turn' \in [Turns -> Turn]
  BY RejectTypes DEF Detach, AnswerKinds
<1> QED BY <1>3, <1>4 DEF TypeOK, Detach, registry

LEMMA TypeReceiveTurn == ASSUME TypeOK, NEW q \in Turns, ReceiveTurn(q) PROVE TypeOK'
BY AtTypes DEF TypeOK, ReceiveTurn, registry, TurnPcs

LEMMA TypeCancelTurn == ASSUME TypeOK, NEW q \in Turns, CancelTurn(q) PROVE TypeOK'
<1>1. \A rr \in Run : [rr EXCEPT !.waiter = None] \in Run
  BY DEF Run
<1>2. \A t \in Turn : [t EXCEPT !.pc = "aborting", !.answer = Failure("cancelled")] \in Turn
  BY AnswerTypes DEF Turn, TurnPcs, AnswerKinds
<1> QED BY <1>1, <1>2, BecomesTypes, AtTypes DEF TypeOK, CancelTurn, registry, TurnPcs

LEMMA TypeTurnAborts == ASSUME TypeOK, NEW q \in Turns, TurnAborts(q) PROVE TypeOK'
BY AnswerTypes, BeginTypes DEF TypeOK, TurnAborts, registry, AnswerKinds

LEMMA TypeTurnAborted == ASSUME TypeOK, NEW q \in Turns, TurnAborted(q) PROVE TypeOK'
BY AtTypes, RejectTypes DEF TypeOK, TurnAborted, registry, TurnPcs, AnswerKinds

LEMMA TypeReturnTurn == ASSUME TypeOK, NEW q \in Turns, ReturnTurn(q) PROVE TypeOK'
<1>1. \A t \in Turn : [t EXCEPT !.pc = "returned", !.waited = TRUE] \in Turn
  BY DEF Turn, TurnPcs
<1> QED BY <1>1, BecomesTypes DEF TypeOK, ReturnTurn, registry

LEMMA TypeCallLookup == ASSUME TypeOK, NEW c \in Calls, NEW r \in Runs, CallLookup(c, r) PROVE TypeOK'
<1>1. \A k \in Call, pc \in CallPcs : [k EXCEPT !.run = r, !.pc = pc] \in Call
  BY DEF Call
<1> QED BY <1>1, BecomesTypes DEF TypeOK, CallLookup, registry, CallPcs

LEMMA TypeCallPark == ASSUME TypeOK, NEW c \in Calls, CallPark(c) PROVE TypeOK'
BY RunTypes, BecomesTypes, AtTypes DEF TypeOK, CallPark, registry, CallPcs

LEMMA TypeCallReplied == ASSUME TypeOK, NEW c \in Calls, CallReplied(c) PROVE TypeOK'
<1>1. \A k \in Call : [k EXCEPT !.pc = "answered", !.result = k.reply] \in Call
  BY DEF Call, CallPcs
<1> QED BY <1>1, BecomesTypes DEF TypeOK, CallReplied, registry

LEMMA TypeCallCancelled == ASSUME TypeOK, NEW c \in Calls, CallCancelled(c) PROVE TypeOK'
BY AtTypes DEF TypeOK, CallCancelled, registry, CallPcs

LEMMA TypeCallRunDone == ASSUME TypeOK, NEW c \in Calls, CallRunDone(c) PROVE TypeOK'
BY AtTypes DEF TypeOK, CallRunDone, registry, CallPcs

LEMMA TypeCallAborts == ASSUME TypeOK, NEW c \in Calls, CallAborts(c) PROVE TypeOK'
BY AnswerTypes, BeginTypes DEF TypeOK, CallAborts, registry, AnswerKinds

LEMMA TypeCallAborted == ASSUME TypeOK, NEW c \in Calls, CallAborted(c) PROVE TypeOK'
BY AtTypes DEF TypeOK, CallAborted, registry, CallPcs

LEMMA TypeAnnounceTake == ASSUME TypeOK, NEW r \in Runs, AnnounceTake(r) PROVE TypeOK'
<1>1. run[r] \in Run
  BY DEF TypeOK
<1>2. [run[r] EXCEPT !.timers = @ \ {"batch"}] \in Run
  BY <1>1 DEF Run
<1>3. [stage |-> "taken", waiter |-> run[r].waiter,
       answer |-> [kind |-> "calls", batch |-> run[r].fresh, text |-> run[r].text]] \in Announcer
  BY <1>1 DEF Run, Announcer, Answer, AnswerKinds
<1> QED BY <1>1, <1>2, <1>3, RunTypes, BecomesTypes DEF TypeOK, AnnounceTake, registry

LEMMA TypeAnnounceRegister == ASSUME TypeOK, NEW r \in Runs, AnnounceRegister(r) PROVE TypeOK'
<1>1. \A a \in Announcer : [a EXCEPT !.stage = "registered"] \in Announcer
  BY DEF Announcer
<1>2. announcer' \in [Runs -> Announcer]
  BY <1>1, BecomesTypes DEF TypeOK, AnnounceRegister
<1> QED BY <1>2 DEF TypeOK, AnnounceRegister

LEMMA TypeAnnounceAnswer == ASSUME TypeOK, NEW r \in Runs, AnnounceAnswer(r) PROVE TypeOK'
<1>1. \A a \in Announcer : [a EXCEPT !.stage = "idle"] \in Announcer
  BY DEF Announcer
<1>2. announcer' \in [Runs -> Announcer]
  BY <1>1, BecomesTypes DEF TypeOK, AnnounceAnswer
<1>3. announcer[r].answer \in Answer
  BY DEF TypeOK, Announcer
<1>4. turn' \in [Turns -> Turn]
  BY <1>3, SendTypes DEF AnnounceAnswer
<1> QED BY <1>2, <1>4 DEF TypeOK, AnnounceAnswer, registry

LEMMA TypeResultTimerFires == ASSUME TypeOK, NEW r \in Runs, ResultTimerFires(r) PROVE TypeOK'
<1>1. [run[r] EXCEPT !.timers = @ \ {"result"}] \in Run
  BY DEF TypeOK, Run
<1> QED BY <1>1, BecomesTypes DEF TypeOK, ResultTimerFires, registry

LEMMA TypeTimeoutAborts == ASSUME TypeOK, NEW r \in Runs, TimeoutAborts(r) PROVE TypeOK'
BY AnswerTypes, BeginTypes DEF TypeOK, TimeoutAborts, registry, AnswerKinds

LEMMA TypeReadDelta == ASSUME TypeOK, NEW r \in Runs, NEW d \in Deltas, ReadDelta(r, d) PROVE TypeOK'
<1> DEFINE seen == reader[r].seen \cup {d}
<1>1. run[r] \in Run /\ reader[r] \in Reader
  BY DEF TypeOK
<1>2. /\ [reader[r] EXCEPT !.seen = seen] \in Reader
      /\ \A w \in Turns : [reader[r] EXCEPT !.seen = seen, !.pc = "delta", !.waiter = w] \in Reader
  BY <1>1 DEF Reader, ReaderPcs
<1>3. [run[r] EXCEPT !.text = run[r].text \cup {d}] \in Run
  BY <1>1 DEF Run
<1>4. \A t \in Turn : [t EXCEPT !.streamed = t.streamed \cup {d}] \in Turn
  BY DEF Turn
<1>5. run[r].waiter \in Turns \cup {None}
  BY <1>1 DEF Run
<1>6. reader' \in [Runs -> Reader]
  BY <1>2, <1>5, BecomesTypes DEF ReadDelta
<1>7. run' \in [Runs -> Run]
  BY <1>3, BecomesTypes DEF TypeOK, ReadDelta
<1>8. turn' \in [Turns -> Turn]
  BY <1>4, BecomesTypes DEF TypeOK, ReadDelta
<1> QED BY <1>6, <1>7, <1>8 DEF TypeOK, ReadDelta, registry

LEMMA TypeDeltaDone == ASSUME TypeOK, NEW r \in Runs, DeltaDone(r) PROVE TypeOK'
<1>1. \A v \in Reader, pc \in ReaderPcs : [v EXCEPT !.pc = pc, !.waiter = None] \in Reader
  BY DEF Reader
<1> QED BY <1>1, BecomesTypes DEF TypeOK, DeltaDone, registry, ReaderPcs

LEMMA TypeStreamEnds == ASSUME TypeOK, NEW r \in Runs, StreamEnds(r) PROVE TypeOK'
<1>1. run[r].text \in SUBSET Deltas
  BY DEF TypeOK, Run
<1>2. \A v \in Reader, pc \in ReaderPcs : [v EXCEPT !.pc = pc, !.text = run[r].text] \in Reader
  BY <1>1 DEF Reader
<1> QED BY <1>2, BecomesTypes DEF TypeOK, StreamEnds, registry, ReaderPcs

LEMMA TypeReaderEndsRun == ASSUME TypeOK, NEW r \in Runs, ReaderEndsRun(r) PROVE TypeOK'
<1>1. [kind |-> "final", batch |-> {}, text |-> reader[r].text] \in Answer
  BY DEF TypeOK, Reader, Answer, AnswerKinds
<1>2. run' \in [Runs -> Run] /\ teardown' \in [Runs -> Teardown]
  BY <1>1, AnswerTypes, BeginTypes DEF ReaderEndsRun, AnswerKinds
<1> QED BY <1>2 DEF TypeOK, ReaderEndsRun, registry

LEMMA TypeReaderExits == ASSUME TypeOK, NEW r \in Runs, ReaderExits(r) PROVE TypeOK'
BY AtTypes DEF TypeOK, ReaderExits, registry, ReaderPcs

LEMMA TypeTeardownCancel == ASSUME TypeOK, NEW r \in Runs, TeardownCancel(r) PROVE TypeOK'
BY AtTypes DEF TypeOK, TeardownCancel, registry, Stages

LEMMA TypeTeardownUnregister == ASSUME TypeOK, NEW r \in Runs, TeardownUnregister(r) PROVE TypeOK'
BY AtTypes DEF TypeOK, TeardownUnregister, registry, Stages

LEMMA TypeTeardownRelease == ASSUME TypeOK, NEW r \in Runs, TeardownRelease(r) PROVE TypeOK'
<1>1. \A d \in Teardown : d.releases + 1 \in Nat
  BY DEF Teardown
<1>2. \A d \in Teardown, n \in Nat : [d EXCEPT !.stage = "released", !.releases = n] \in Teardown
  BY DEF Teardown, Stages
<1>3. teardown' \in [Runs -> Teardown]
  BY <1>1, <1>2, BecomesTypes DEF TypeOK, TeardownRelease
<1> QED BY <1>3 DEF TypeOK, TeardownRelease, registry

LEMMA TypeTeardownAnswer == ASSUME TypeOK, NEW r \in Runs, TeardownAnswer(r) PROVE TypeOK'
<1>1. teardown[r].answer \in Answer
  BY DEF TypeOK, Teardown
<1>2. turn' \in [Turns -> Turn]
  BY <1>1, SendTypes DEF TypeOK, TeardownAnswer
<1>3. teardown' \in [Runs -> Teardown]
  BY AtTypes DEF TeardownAnswer, Stages
<1> QED BY <1>2, <1>3 DEF TypeOK, TeardownAnswer, registry

LEMMA TypeStopperAborts == ASSUME TypeOK, NEW r \in Runs, StopperAborts(r) PROVE TypeOK'
BY AnswerTypes, BeginTypes DEF TypeOK, StopperAborts, registry, AnswerKinds

LEMMA TypeAbortAll ==
  ASSUME TypeOK, AbortParkedToolRuns \/ \E p \in Processes : FailToolRunsForProcess(p)
  PROVE  TypeOK'
BY DEF TypeOK, AbortParkedToolRuns, FailToolRunsForProcess, registry

LEMMA TypeTurnStep == ASSUME TypeOK, NEW q \in Turns, TurnStep(q) PROVE TypeOK'
BY TypeAttachStart, TypeOpenSend, TypeSendFails, TypeAttachResume, TypeDeliver,
   TypeDeliverReply, TypeDetach, TypeReceiveTurn, TypeTurnAborts, TypeTurnAborted,
   TypeReturnTurn DEF TurnStep

LEMMA TypeCallStep == ASSUME TypeOK, NEW c \in Calls, CallStep(c) PROVE TypeOK'
BY TypeCallPark, TypeCallReplied, TypeCallRunDone, TypeCallAborts, TypeCallAborted DEF CallStep

LEMMA TypeRunStep == ASSUME TypeOK, NEW r \in Runs, RunStep(r) PROVE TypeOK'
BY TypeAnnounceTake, TypeAnnounceRegister, TypeAnnounceAnswer, TypeResultTimerFires,
   TypeTimeoutAborts, TypeDeltaDone, TypeReaderEndsRun, TypeReaderExits, TypeTeardownCancel,
   TypeTeardownUnregister, TypeTeardownRelease, TypeTeardownAnswer, TypeStopperAborts
   DEF RunStep, TeardownStep

LEMMA KnownCalls == ASSUME TypeOK PROVE Known \subseteq Calls
BY DEF TypeOK, Known, Turn, Answer

LEMMA TypeClientStep == ASSUME TypeOK, NEW q \in Turns, ClientStep(q) PROVE TypeOK'
BY KnownCalls, TypeStartRun, TypeLookupResume, TypeCancelTurn DEF ClientStep

LEMMA TypeBridgeStep == ASSUME TypeOK, BridgeStep PROVE TypeOK'
BY TypeCallLookup, TypeCallCancelled, TypeReadDelta, TypeStreamEnds, TypeAbortAll DEF BridgeStep

LEMMA TypeNext == ASSUME TypeOK, [Next]_vars PROVE TypeOK'
<1>1. CASE Next
  BY <1>1, TypeTurnStep, TypeClientStep, TypeCallStep, TypeRunStep, TypeBridgeStep DEF Next
<1>2. CASE UNCHANGED vars
  BY <1>2 DEF TypeOK, vars, registry
<1> QED BY <1>1, <1>2

LEMMA TypeInit == Init => TypeOK
<1> SUFFICES ASSUME Init PROVE TypeOK
  OBVIOUS
<1>1. [finished |-> FALSE, waiter |-> None, calls |-> {}, fresh |-> {}, announced |-> {},
       text |-> {}, timers |-> {}] \in Run
  BY DEF Run
<1>2. [stage |-> "idle", waiter |-> None, answer |-> NoAnswer] \in Announcer
  BY AnswerTypes DEF Announcer
<1>3. [pc |-> "unborn", waiter |-> None, text |-> {}, seen |-> {}] \in Reader
  BY DEF Reader, ReaderPcs
<1>4. [stage |-> "none", waiter |-> None, answer |-> NoAnswer, releases |-> 0] \in Teardown
  BY AnswerTypes DEF Teardown, Stages
<1>5. [pc |-> "idle", run |-> None, ids |-> {}, answer |-> NoAnswer, sends |-> 0,
       streamed |-> {}, waited |-> FALSE] \in Turn
  BY AnswerTypes DEF Turn, TurnPcs
<1>6. [pc |-> "idle", run |-> None, reply |-> None, result |-> None] \in Call
  BY DEF Call, CallPcs
<1> QED BY <1>1, <1>2, <1>3, <1>4, <1>5, <1>6 DEF Init, TypeOK

\* Every variable of the relay keeps its type, whatever the clients, the bridge and the
\* timers do.
THEOREM TypeCorrect == Spec => []TypeOK
BY TypeInit, TypeNext, PTL DEF Spec

(***************************************************************************)
(* The state a run guards with run.mu.  Both facts are local to one run: a *)
(* step that writes a run writes one that is quiet if finished, and armed  *)
(* if it can be announced.                                                 *)
(***************************************************************************)
RunOK(rr) ==
  /\ rr.finished => rr.waiter = None /\ rr.timers = {}
  /\ MayAnnounce(rr) => "batch" \in rr.timers

RunsOK == \A r \in Runs : RunOK(run[r])

LEMMA ScheduledOK ==
  ASSUME NEW rr \in Run, rr.finished => rr.waiter = None /\ rr.timers = {}
  PROVE  RunOK(Scheduled(rr))
BY DEF Scheduled, RunOK, MayAnnounce, Run, Timers

LEMMA HelpersOK ==
  ASSUME NEW rr \in Run, RunOK(rr)
  PROVE  /\ ~rr.finished => \A q \in Turns : RunOK(Attached(rr, q))
         /\ ~rr.finished => \A c \in Calls : RunOK(WithCall(rr, c))
         /\ ~rr.finished => RunOK(Delivered(rr)) /\ RunOK(Taken(rr))
         /\ RunOK(Finished(rr))
         /\ RunOK([rr EXCEPT !.waiter = None])
         /\ RunOK([rr EXCEPT !.waiter = rr.waiter])
         /\ RunOK([rr EXCEPT !.timers = rr.timers \ {"result"}])
         /\ ~MayAnnounce(rr) => RunOK([rr EXCEPT !.timers = rr.timers \ {"batch"}])
         /\ \A text : RunOK([rr EXCEPT !.text = text])
<1>1. ~rr.finished => \A q \in Turns : RunOK(Attached(rr, q))
  <2> SUFFICES ASSUME ~rr.finished, NEW q \in Turns PROVE RunOK(Attached(rr, q))
    OBVIOUS
  <2>1. [rr EXCEPT !.waiter = q] \in Run /\ ~[rr EXCEPT !.waiter = q].finished
    BY DEF Run
  <2> QED BY <2>1, ScheduledOK DEF Attached
<1>2. ~rr.finished => \A c \in Calls : RunOK(WithCall(rr, c))
  <2> SUFFICES ASSUME ~rr.finished, NEW c \in Calls PROVE RunOK(WithCall(rr, c))
    OBVIOUS
  <2> DEFINE new == [rr EXCEPT !.calls = @ \cup {c}, !.fresh = @ \cup {c}]
  <2>1. new \in Run /\ ~new.finished
    BY DEF Run
  <2> HIDE DEF new
  <2>2. RunOK(Scheduled(new))
    BY <2>1, ScheduledOK
  <2> QED BY <2>2 DEF WithCall, new
<1>3. ~rr.finished => RunOK(Delivered(rr)) /\ RunOK(Taken(rr))
  <2> SUFFICES ASSUME ~rr.finished PROVE RunOK(Delivered(rr)) /\ RunOK(Taken(rr))
    OBVIOUS
  <2> DEFINE new == [rr EXCEPT !.announced = {}, !.timers = @ \ {"result"}]
  <2>1. new \in Run /\ ~new.finished
    BY DEF Run
  <2> HIDE DEF new
  <2>2. RunOK(Scheduled(new))
    BY <2>1, ScheduledOK
  <2>3. RunOK(Taken(rr))
    BY DEF RunOK, Taken, MayAnnounce, Run
  <2> QED BY <2>2, <2>3 DEF Delivered, new
<1>4. RunOK(Finished(rr))
  BY DEF RunOK, Finished, MayAnnounce, Run
<1>5. /\ RunOK([rr EXCEPT !.waiter = None])
      /\ RunOK([rr EXCEPT !.waiter = rr.waiter])
  BY DEF RunOK, MayAnnounce, Run
<1>6. /\ RunOK([rr EXCEPT !.timers = rr.timers \ {"result"}])
      /\ ~MayAnnounce(rr) => RunOK([rr EXCEPT !.timers = rr.timers \ {"batch"}])
  BY DEF RunOK, MayAnnounce, Run
<1>7. \A text : RunOK([rr EXCEPT !.text = text])
  BY DEF RunOK, MayAnnounce, Run
<1> QED BY <1>1, <1>2, <1>3, <1>4, <1>5, <1>6, <1>7

LEMMA BecomesOK ==
  ASSUME TypeOK, RunsOK, NEW r, NEW rr, RunBecomes(r, rr), r \in Runs => RunOK(rr)
  PROVE  RunsOK'
BY DEF TypeOK, RunsOK, RunBecomes, RunOK, MayAnnounce

LEMMA BeginOK ==
  ASSUME TypeOK, RunsOK, NEW r, NEW answer, Begin(r, answer)
  PROVE  RunsOK'
BY HelpersOK, BecomesOK DEF TypeOK, RunsOK, Begin

LEMMA RunsOKNext == ASSUME TypeOK, RunsOK, [Next]_vars PROVE RunsOK'
<1> USE DEF TypeOK
<1>1. ASSUME NEW q \in Turns, TurnStep(q) PROVE RunsOK'
  <2>1. CASE AttachStart(q)
    BY <2>1, HelpersOK, BecomesOK DEF AttachStart, MayAttach, RunsOK
  <2>2. CASE AttachResume(q)
    BY <2>2, HelpersOK, BecomesOK DEF AttachResume, MayAttach, RunsOK
  <2>3. CASE Deliver(q)
    BY <2>3, HelpersOK, BecomesOK DEF Deliver, MayDeliver, RunsOK
  <2>4. CASE Detach(q)
    BY <2>4, HelpersOK, BecomesOK DEF Detach, RunsOK
  <2>5. CASE TurnAborts(q)
    BY <2>5, BeginOK DEF TurnAborts
  <2>6. CASE \/ OpenSend(q) \/ SendFails(q) \/ DeliverReply(q) \/ ReceiveTurn(q)
             \/ TurnAborted(q) \/ ReturnTurn(q)
    BY <2>6 DEF OpenSend, SendFails, DeliverReply, ReceiveTurn, TurnAborted, ReturnTurn,
                RunsOK, RunOK, MayAnnounce
  <2> QED BY <1>1, <2>1, <2>2, <2>3, <2>4, <2>5, <2>6 DEF TurnStep
<1>2. ASSUME NEW q \in Turns, ClientStep(q) PROVE RunsOK'
  <2>1. CASE CancelTurn(q)
    BY <2>1, HelpersOK, BecomesOK DEF CancelTurn, RunsOK
  <2>2. CASE \/ \E r \in Runs : StartRun(q, r)
             \/ \E ids \in SUBSET Known : LookupResume(q, ids)
    BY <2>2 DEF StartRun, LookupResume, RunsOK, RunOK, MayAnnounce
  <2> QED BY <1>2, <2>1, <2>2 DEF ClientStep
<1>3. ASSUME NEW c \in Calls, CallStep(c) PROVE RunsOK'
  <2>1. CASE CallPark(c)
    BY <2>1, HelpersOK, BecomesOK DEF CallPark, RunsOK
  <2>2. CASE CallAborts(c)
    BY <2>2, BeginOK DEF CallAborts
  <2>3. CASE CallReplied(c) \/ CallRunDone(c) \/ CallAborted(c)
    BY <2>3 DEF CallReplied, CallRunDone, CallAborted, RunsOK, RunOK, MayAnnounce
  <2> QED BY <1>3, <2>1, <2>2, <2>3 DEF CallStep
<1>4. ASSUME NEW r \in Runs, RunStep(r) PROVE RunsOK'
  <2>1. CASE AnnounceTake(r)
    BY <2>1, HelpersOK, BecomesOK DEF AnnounceTake, MayAnnounce, RunsOK
  <2>2. CASE ResultTimerFires(r)
    BY <2>2, HelpersOK, BecomesOK DEF ResultTimerFires, RunsOK
  <2>3. CASE TimeoutAborts(r) \/ ReaderEndsRun(r) \/ StopperAborts(r)
    BY <2>3, BeginOK DEF TimeoutAborts, ReaderEndsRun, StopperAborts
  <2>4. CASE \/ AnnounceRegister(r) \/ AnnounceAnswer(r) \/ DeltaDone(r) \/ ReaderExits(r)
             \/ TeardownStep(r)
    BY <2>4 DEF AnnounceRegister, AnnounceAnswer, DeltaDone, ReaderExits, TeardownStep,
                TeardownCancel, TeardownUnregister, TeardownRelease, TeardownAnswer,
                RunsOK, RunOK, MayAnnounce
  <2> QED BY <1>4, <2>1, <2>2, <2>3, <2>4 DEF RunStep
<1>5. ASSUME BridgeStep PROVE RunsOK'
  <2>1. ASSUME NEW r \in Runs, NEW d \in Deltas, ReadDelta(r, d) PROVE RunsOK'
    <3>1. CASE UNCHANGED run
      BY <3>1 DEF RunsOK, RunOK, MayAnnounce
    <3>2. CASE RunBecomes(r, [run[r] EXCEPT !.text = @ \cup {d}])
      BY <3>2, HelpersOK, BecomesOK DEF RunsOK
    <3> QED BY <2>1, <3>1, <3>2 DEF ReadDelta
  <2>2. CASE \/ \E c \in Calls, r \in Runs : CallLookup(c, r)
             \/ \E c \in Calls : CallCancelled(c)
             \/ \E r \in Runs : StreamEnds(r)
             \/ AbortParkedToolRuns
             \/ \E p \in Processes : FailToolRunsForProcess(p)
    BY <2>2 DEF CallLookup, CallCancelled, StreamEnds, AbortParkedToolRuns,
                FailToolRunsForProcess, RunsOK, RunOK, MayAnnounce
  <2> QED BY <1>5, <2>1, <2>2 DEF BridgeStep
<1>6. CASE UNCHANGED vars
  BY <1>6 DEF vars, RunsOK, RunOK, MayAnnounce
<1> QED BY <1>1, <1>2, <1>3, <1>4, <1>5, <1>6 DEF Next

LEMMA RunsOKInit == Init => RunsOK
BY DEF Init, RunsOK, RunOK, MayAnnounce

\* Once the teardown has marked a run finished, no waiter is attached to it and no timer
\* is armed, whichever attach, callback or delivery is still on its way.
THEOREM FinishedRunsAreQuiet == Spec => []FinishedRunIsQuiet
<1>1. RunsOK => FinishedRunIsQuiet
  BY DEF RunsOK, RunOK, FinishedRunIsQuiet
<1> QED BY <1>1, TypeInit, TypeNext, RunsOKInit, RunsOKNext, PTL DEF Spec

\* A waiting turn and ready calls always have the batch timer armed: no order of attach,
\* callback and delivery loses the wake-up.
THEOREM NoBatchIsLost == Spec => []NoLostBatch
<1>1. RunsOK => NoLostBatch
  BY DEF RunsOK, RunOK, NoLostBatch
<1> QED BY <1>1, TypeInit, TypeNext, RunsOKInit, RunsOKNext, PTL DEF Spec

(***************************************************************************)
(* Deadlines.  A run is overdue when a client owes it results and no timer *)
(* is armed; only the firing of the timer makes it so.                     *)
(***************************************************************************)
Overdue(rr) == ~rr.finished /\ rr.announced # {} /\ "result" \notin rr.timers

LEMMA HelpersNotOverdue ==
  ASSUME NEW rr \in Run
  PROVE  /\ \A q \in Turns : Overdue(Attached(rr, q)) => Overdue(rr)
         /\ \A c \in Calls : Overdue(WithCall(rr, c)) => Overdue(rr)
         /\ ~Overdue(Taken(rr)) /\ ~Overdue(Delivered(rr)) /\ ~Overdue(Finished(rr))
         /\ \A w : Overdue([rr EXCEPT !.waiter = w]) => Overdue(rr)
         /\ \A text : Overdue([rr EXCEPT !.text = text]) => Overdue(rr)
         /\ Overdue([rr EXCEPT !.timers = rr.timers \ {"batch"}]) => Overdue(rr)
BY DEF Overdue, Attached, WithCall, Taken, Delivered, Finished, Scheduled, Run

LEMMA BecomesDeadline ==
  ASSUME TypeOK, ParkedRunHasDeadline, NEW r, NEW rr, RunBecomes(r, rr),
         r \in Runs => (Overdue(rr) => r \in timedOut'),
         \A p \in Runs : p \in timedOut /\ p # r => p \in timedOut'
  PROVE  ParkedRunHasDeadline'
BY DEF TypeOK, ParkedRunHasDeadline, RunBecomes, Overdue

LEMMA DeadlineKept ==
  ASSUME TypeOK, ParkedRunHasDeadline, NEW r, NEW rr, RunBecomes(r, rr),
         r \in Runs => (Overdue(rr) => Overdue(run[r])), UNCHANGED timedOut
  PROVE  ParkedRunHasDeadline'
BY BecomesDeadline DEF ParkedRunHasDeadline, Overdue

LEMMA DeadlineSame ==
  ASSUME ParkedRunHasDeadline, UNCHANGED <<run, timedOut>>
  PROVE  ParkedRunHasDeadline'
BY DEF ParkedRunHasDeadline

LEMMA BeginDeadline ==
  ASSUME TypeOK, ParkedRunHasDeadline, NEW r, NEW answer, Begin(r, answer),
         \A p \in Runs : p \in timedOut /\ p # r => p \in timedOut'
  PROVE  ParkedRunHasDeadline'
BY HelpersNotOverdue, BecomesDeadline DEF TypeOK, Begin

LEMMA DeadlineNext == ASSUME TypeOK, ParkedRunHasDeadline, [Next]_vars PROVE ParkedRunHasDeadline'
<1>1. ASSUME NEW q \in Turns, TurnStep(q) PROVE ParkedRunHasDeadline'
  <2>1. CASE AttachStart(q) \/ AttachResume(q) \/ Deliver(q) \/ Detach(q)
    <3> DEFINE r == turn[q].run
    <3>1. UNCHANGED timedOut
      BY <2>1 DEF AttachStart, AttachResume, Deliver, Detach
    <3>2. \/ UNCHANGED run
          \/ RunBecomes(r, Attached(run[r], q)) \/ RunBecomes(r, Delivered(run[r]))
          \/ RunBecomes(r, [run[r] EXCEPT !.waiter = IF @ = q THEN None ELSE @])
      BY <2>1 DEF AttachStart, AttachResume, Deliver, Detach
    <3>3. r \in Runs => run[r] \in Run
      BY DEF TypeOK
    <3> DEFINE rr == [run[r] EXCEPT !.waiter = IF @ = q THEN None ELSE @]
    <3>4. r \in Runs => (Overdue(rr) => Overdue(run[r]))
      BY <3>3, HelpersNotOverdue
    <3>5. CASE RunBecomes(r, rr)
      BY <3>1, <3>4, <3>5, DeadlineKept
    <3> QED BY <3>1, <3>2, <3>3, <3>5, HelpersNotOverdue, DeadlineKept, DeadlineSame
  <2>2. CASE TurnAborts(q)
    BY <2>2, BeginDeadline DEF TurnAborts
  <2>3. CASE \/ OpenSend(q) \/ SendFails(q) \/ DeliverReply(q) \/ ReceiveTurn(q)
             \/ TurnAborted(q) \/ ReturnTurn(q)
    BY <2>3 DEF OpenSend, SendFails, DeliverReply, ReceiveTurn, TurnAborted, ReturnTurn,
                ParkedRunHasDeadline
  <2> QED BY <1>1, <2>1, <2>2, <2>3 DEF TurnStep
<1>2. ASSUME NEW q \in Turns, ClientStep(q) PROVE ParkedRunHasDeadline'
  <2>1. CASE CancelTurn(q)
    <3> DEFINE r == turn[q].run
    <3>1. UNCHANGED timedOut
      BY <2>1 DEF CancelTurn
    <3>2. UNCHANGED run \/ RunBecomes(r, [run[r] EXCEPT !.waiter = None])
      BY <2>1 DEF CancelTurn
    <3>3. r \in Runs => run[r] \in Run
      BY DEF TypeOK
    <3> QED BY <3>1, <3>2, <3>3, HelpersNotOverdue, DeadlineKept, DeadlineSame
  <2>2. CASE \/ \E r \in Runs : StartRun(q, r)
             \/ \E ids \in SUBSET Known : LookupResume(q, ids)
    BY <2>2 DEF StartRun, LookupResume, ParkedRunHasDeadline
  <2> QED BY <1>2, <2>1, <2>2 DEF ClientStep
<1>3. ASSUME NEW c \in Calls, CallStep(c) PROVE ParkedRunHasDeadline'
  <2>1. CASE CallPark(c)
    <3> DEFINE r == call[c].run
    <3>1. UNCHANGED timedOut
      BY <2>1 DEF CallPark
    <3>2. UNCHANGED run \/ RunBecomes(r, WithCall(run[r], c))
      BY <2>1 DEF CallPark
    <3>3. r \in Runs => run[r] \in Run
      BY DEF TypeOK
    <3> QED BY <3>1, <3>2, <3>3, HelpersNotOverdue, DeadlineKept, DeadlineSame
  <2>2. CASE CallAborts(c)
    BY <2>2, BeginDeadline DEF CallAborts
  <2>3. CASE CallReplied(c) \/ CallRunDone(c) \/ CallAborted(c)
    BY <2>3 DEF CallReplied, CallRunDone, CallAborted, ParkedRunHasDeadline
  <2> QED BY <1>3, <2>1, <2>2, <2>3 DEF CallStep
<1>4. ASSUME NEW r \in Runs, RunStep(r) PROVE ParkedRunHasDeadline'
  <2>1. CASE AnnounceTake(r)
    BY <2>1, HelpersNotOverdue, DeadlineKept DEF AnnounceTake, TypeOK
  <2>2. CASE ResultTimerFires(r)
    BY <2>2, BecomesDeadline DEF ResultTimerFires
  <2>3. CASE TimeoutAborts(r) \/ ReaderEndsRun(r) \/ StopperAborts(r)
    BY <2>3, BeginDeadline DEF TimeoutAborts, ReaderEndsRun, StopperAborts
  <2>4. CASE \/ AnnounceRegister(r) \/ AnnounceAnswer(r) \/ DeltaDone(r) \/ ReaderExits(r)
             \/ TeardownStep(r)
    BY <2>4 DEF AnnounceRegister, AnnounceAnswer, DeltaDone, ReaderExits, TeardownStep,
                TeardownCancel, TeardownUnregister, TeardownRelease, TeardownAnswer,
                ParkedRunHasDeadline
  <2> QED BY <1>4, <2>1, <2>2, <2>3, <2>4 DEF RunStep
<1>5. ASSUME BridgeStep PROVE ParkedRunHasDeadline'
  <2>1. ASSUME NEW r \in Runs, NEW d \in Deltas, ReadDelta(r, d) PROVE ParkedRunHasDeadline'
    <3>1. UNCHANGED timedOut
      BY <2>1 DEF ReadDelta
    <3>2. UNCHANGED run \/ RunBecomes(r, [run[r] EXCEPT !.text = @ \cup {d}])
      BY <2>1 DEF ReadDelta
    <3>3. Overdue([run[r] EXCEPT !.text = @ \cup {d}]) => Overdue(run[r])
      BY HelpersNotOverdue DEF TypeOK
    <3> QED BY <3>1, <3>2, <3>3, DeadlineKept, DeadlineSame
  <2>2. CASE \/ \E c \in Calls, r \in Runs : CallLookup(c, r)
             \/ \E c \in Calls : CallCancelled(c)
             \/ \E r \in Runs : StreamEnds(r)
             \/ AbortParkedToolRuns
             \/ \E p \in Processes : FailToolRunsForProcess(p)
    BY <2>2 DEF CallLookup, CallCancelled, StreamEnds, AbortParkedToolRuns,
                FailToolRunsForProcess, ParkedRunHasDeadline
  <2> QED BY <1>5, <2>1, <2>2 DEF BridgeStep
<1>6. CASE UNCHANGED vars
  BY <1>6 DEF vars, ParkedRunHasDeadline
<1> QED BY <1>1, <1>2, <1>3, <1>4, <1>5, <1>6 DEF Next

LEMMA DeadlineInit == Init => ParkedRunHasDeadline
BY DEF Init, ParkedRunHasDeadline

\* A run whose results a client owes is always on a deadline, or its timeout has fired and
\* is about to abort it (announceBatch, deliver, teardown).
THEOREM ParkedRunsHaveDeadlines == Spec => []ParkedRunHasDeadline
BY TypeInit, TypeNext, DeadlineInit, DeadlineNext, PTL DEF Spec

\* A run's timers are always those that what it waits for needs (scheduleAnnounceLocked,
\* announceBatch, deliver, teardown).
THEOREM TimersDoFit == Spec => []TimersFit
<1>1. FinishedRunIsQuiet /\ NoLostBatch /\ ParkedRunHasDeadline => TimersFit
  BY DEF TimersFit
<1> QED
  BY <1>1, FinishedRunsAreQuiet, NoBatchIsLost, ParkedRunsHaveDeadlines, PTL

(***************************************************************************)
(* Answers.                                                                *)
(*                                                                         *)
(* A turn is answered at most once.  The waiter of a turn is handed from   *)
(* the run to the batch announcement or to the teardown, and the one that  *)
(* holds it sends.  The inductive invariant says that a waiter has one     *)
(* holder at most, that a held waiter has not been answered, and that a    *)
(* turn which has yet to attach is not held at all.                        *)
(*                                                                         *)
(* On it rest what a turn that ends leaves behind (EndInv), what a turn is *)
(* told of the calls (BatchInv), what of the text it hears (DeltaInv), and *)
(* that the relay keeps the promise of CallRelay.                          *)
(***************************************************************************)
\* Where a turn stands before it attaches its waiter.
Early == {"idle", "fresh", "registered", "found"}

HeldByRun(r, q) == run[r].waiter = q
HeldByAnnouncer(r, q) == announcer[r].stage # "idle" /\ announcer[r].waiter = q
HeldByTeardown(r, q) == teardown[r].stage \notin {"none", "done"} /\ teardown[r].waiter = q

Held(r, q) == HeldByRun(r, q) \/ HeldByAnnouncer(r, q) \/ HeldByTeardown(r, q)

OneHolder(r, q) ==
  /\ ~(HeldByRun(r, q) /\ HeldByAnnouncer(r, q))
  /\ ~(HeldByRun(r, q) /\ HeldByTeardown(r, q))
  /\ ~(HeldByAnnouncer(r, q) /\ HeldByTeardown(r, q))

HeldUnanswered(r, q) ==
  Held(r, q) => turn[q].run = r /\ turn[q].sends = 0 /\ turn[q].pc \notin Early

HolderInv ==
  \A q \in Turns :
    /\ turn[q].sends <= 1
    /\ turn[q].pc \in Early => turn[q].sends = 0
    /\ \A r \in Runs : OneHolder(r, q) /\ HeldUnanswered(r, q)

\* The steps that hand no waiter on: no holder appears, and no turn is answered.
RunsKeep == \A r \in Runs, q \in Turns : HeldByRun(r, q)' => HeldByRun(r, q)
AnnouncersKeep == \A r \in Runs, q \in Turns : HeldByAnnouncer(r, q)' => HeldByAnnouncer(r, q)
TeardownsKeep == \A r \in Runs, q \in Turns : HeldByTeardown(r, q)' => HeldByTeardown(r, q)
TurnsKeep ==
  \A q \in Turns :
    /\ turn'[q].sends = turn[q].sends
    /\ turn'[q].pc \in Early => turn[q].pc \in Early
    /\ turn'[q].run = turn[q].run \/ turn[q].pc \in Early

LEMMA NothingHandedOn ==
  ASSUME HolderInv, RunsKeep, AnnouncersKeep, TeardownsKeep, TurnsKeep
  PROVE  HolderInv'
<1> SUFFICES ASSUME NEW q \in Turns
             PROVE  /\ turn'[q].sends <= 1
                    /\ turn'[q].pc \in Early => turn'[q].sends = 0
                    /\ \A r \in Runs : OneHolder(r, q)' /\ HeldUnanswered(r, q)'
  BY DEF HolderInv
<1>1. turn'[q].sends <= 1 /\ (turn'[q].pc \in Early => turn'[q].sends = 0)
  BY DEF HolderInv, TurnsKeep
<1>2. ASSUME NEW r \in Runs PROVE OneHolder(r, q)' /\ HeldUnanswered(r, q)'
  <2>1. OneHolder(r, q)'
    BY DEF HolderInv, OneHolder, RunsKeep, AnnouncersKeep, TeardownsKeep
  <2>2. Held(r, q)' => Held(r, q)
    BY DEF Held, RunsKeep, AnnouncersKeep, TeardownsKeep
  <2>3. HeldUnanswered(r, q)'
    BY <2>2 DEF HolderInv, HeldUnanswered, TurnsKeep
  <2> QED BY <2>1, <2>3
<1> QED BY <1>1, <1>2

LEMMA Unchanging ==
  /\ UNCHANGED run => RunsKeep
  /\ UNCHANGED announcer => AnnouncersKeep
  /\ UNCHANGED teardown => TeardownsKeep
  /\ UNCHANGED turn => TurnsKeep
BY DEF RunsKeep, AnnouncersKeep, TeardownsKeep, TurnsKeep, HeldByRun, HeldByAnnouncer,
       HeldByTeardown

LEMMA RunKept ==
  ASSUME TypeOK, NEW r, NEW rr, RunBecomes(r, rr),
         r \in Runs => rr.waiter = run[r].waiter \/ rr.waiter = None
  PROVE  RunsKeep
BY ConstantsAssumption DEF TypeOK, RunBecomes, RunsKeep, HeldByRun

LEMMA TeardownKept ==
  ASSUME TypeOK, NEW r \in Runs, NEW d \in Teardown, TeardownBecomes(r, d),
         d.waiter = teardown[r].waiter,
         teardown[r].stage \in {"none", "done"} => d.stage \in {"none", "done"}
  PROVE  TeardownsKeep
BY DEF TypeOK, TeardownBecomes, TeardownsKeep, HeldByTeardown

LEMMA TurnKept ==
  ASSUME TypeOK, NEW q \in Turns, NEW t, TurnBecomes(q, t),
         t.sends = turn[q].sends,
         t.pc \in Early => turn[q].pc \in Early,
         t.run = turn[q].run \/ turn[q].pc \in Early
  PROVE  TurnsKeep
BY DEF TypeOK, TurnBecomes, TurnsKeep

LEMMA TurnAtKept ==
  ASSUME TypeOK, NEW q \in Turns, NEW pc \in TurnPcs \ Early, TurnAt(q, pc)
  PROVE  TurnsKeep
<1>1. turn[q] \in Turn
  BY DEF TypeOK
<1>2. \A t \in Turn : LET s == [t EXCEPT !.pc = pc]
                      IN s.pc = pc /\ s.sends = t.sends /\ s.run = t.run
  BY DEF Turn
<1> QED BY <1>1, <1>2, TurnKept DEF TurnAt

LEMMA RejectKept ==
  ASSUME TypeOK, NEW q \in Turns, NEW kind, Reject(q, kind)
  PROVE  TurnsKeep
<1>1. turn[q] \in Turn
  BY DEF TypeOK
<1>2. \A t \in Turn : LET s == [t EXCEPT !.pc = "returned", !.answer = Failure(kind)]
                      IN s.pc = "returned" /\ s.sends = t.sends /\ s.run = t.run
  BY DEF Turn
<1> QED BY <1>1, <1>2, TurnKept DEF Reject, Early

LEMMA Waiters ==
  ASSUME NEW rr \in Run
  PROVE  /\ \A q \in Turns : Attached(rr, q).waiter = q
         /\ \A c \in Calls : WithCall(rr, c).waiter = rr.waiter
         /\ Delivered(rr).waiter = rr.waiter
         /\ Taken(rr).waiter = None
         /\ Finished(rr).waiter = None
         /\ \A timers : [rr EXCEPT !.timers = timers].waiter = rr.waiter
         /\ \A text : [rr EXCEPT !.text = text].waiter = rr.waiter
         /\ \A w : [rr EXCEPT !.waiter = w].waiter = w
BY DEF Attached, WithCall, Delivered, Taken, Finished, Scheduled, Run

(* The steps that do hand a waiter on. *)

LEMMA Attaching ==
  ASSUME TypeOK, HolderInv, NEW q \in Turns, NEW pc \in TurnPcs \ Early, turn[q].pc \in Early,
         RunBecomes(turn[q].run, Attached(run[turn[q].run], q)), TurnAt(q, pc),
         UNCHANGED <<announcer, teardown>>
  PROVE  HolderInv'
<1> DEFINE r == turn[q].run
<1>1. /\ turn'[q].pc = pc /\ turn'[q].run = r /\ turn'[q].sends = turn[q].sends
      /\ \A p \in Turns : p # q => turn'[p] = turn[p]
  <2>1. turn[q] \in Turn
    BY DEF TypeOK
  <2>2. \A t \in Turn : LET s == [t EXCEPT !.pc = pc]
                        IN s.pc = pc /\ s.sends = t.sends /\ s.run = t.run
    BY DEF Turn
  <2> QED BY <2>1, <2>2 DEF TypeOK, TurnAt, TurnBecomes
<1>2. /\ r \in Runs => run'[r].waiter = q
      /\ \A p \in Runs : p # r => run'[p] = run[p]
  BY Waiters DEF TypeOK, RunBecomes
<1>3. \A p \in Runs : ~Held(p, q) /\ turn[q].sends = 0
  BY DEF HolderInv, HeldUnanswered
<1>4. \A p \in Runs, o \in Turns :
        /\ HeldByRun(p, o)' => HeldByRun(p, o) \/ (p = r /\ o = q)
        /\ HeldByAnnouncer(p, o)' => HeldByAnnouncer(p, o)
        /\ HeldByTeardown(p, o)' => HeldByTeardown(p, o)
  BY <1>2 DEF HeldByRun, HeldByAnnouncer, HeldByTeardown
<1>5. ASSUME NEW o \in Turns, NEW p \in Runs PROVE OneHolder(p, o)' /\ HeldUnanswered(p, o)'
  <2>1. CASE o = q
    BY <1>1, <1>3, <1>4, <2>1
       DEF Held, OneHolder, HeldUnanswered
  <2>2. CASE o # q
    <3>1. Held(p, o)' => Held(p, o)
      BY <1>4, <2>2 DEF Held
    <3>2. HeldUnanswered(p, o)'
      BY <1>1, <2>2, <3>1 DEF HolderInv, HeldUnanswered
    <3>3. OneHolder(p, o)'
      BY <1>4, <2>2 DEF HolderInv, OneHolder
    <3> QED BY <3>2, <3>3
  <2> QED BY <2>1, <2>2
<1>6. \A o \in Turns : turn'[o].sends <= 1 /\ (turn'[o].pc \in Early => turn'[o].sends = 0)
  BY <1>1 DEF HolderInv
<1> QED BY <1>5, <1>6 DEF HolderInv

\* The teardown takes the waiter from the run.
LEMMA Beginning ==
  ASSUME TypeOK, HolderInv, NEW r, NEW answer, Begin(r, answer), UNCHANGED <<announcer, turn>>
  PROVE  HolderInv'
<1>1. \A p \in Runs, o \in Turns : HeldByRun(p, o)' => HeldByRun(p, o) /\ p # r
  BY Waiters, ConstantsAssumption DEF TypeOK, Begin, RunBecomes, HeldByRun
<1>2. \A p \in Runs, o \in Turns :
        HeldByTeardown(p, o)' => \/ HeldByTeardown(p, o) /\ p # r
                                 \/ p = r /\ HeldByRun(p, o) /\ ~HeldByTeardown(p, o)
  <2>1. \A p \in Runs : teardown'[p] = IF p = r
          THEN [teardown[p] EXCEPT !.stage = "marked", !.waiter = run[p].waiter, !.answer = answer]
          ELSE teardown[p]
    BY DEF TypeOK, Begin, TeardownBecomes
  <2>3. \A p \in Runs : p = r => teardown'[p].waiter = run[p].waiter
    <3>1. \A d \in Teardown :
            [d EXCEPT !.stage = "marked", !.waiter = run[r].waiter, !.answer = answer].waiter
              = run[r].waiter
      BY DEF Teardown
    <3>2. \A p \in Runs : teardown[p] \in Teardown
      BY DEF TypeOK
    <3> QED BY <2>1, <3>1, <3>2
  <2>4. teardown[r].stage = "none"
    BY DEF Begin
  <2> QED BY <2>1, <2>3, <2>4 DEF HeldByTeardown, HeldByRun
<1>3. \A p \in Runs, o \in Turns : HeldByAnnouncer(p, o)' => HeldByAnnouncer(p, o)
  BY DEF HeldByAnnouncer
<1>4. ASSUME NEW p \in Runs, NEW o \in Turns PROVE OneHolder(p, o)' /\ HeldUnanswered(p, o)'
  <2>1. OneHolder(p, o) /\ HeldUnanswered(p, o)
    BY DEF HolderInv
  <2>2. OneHolder(p, o)'
    BY <1>1, <1>2, <1>3, <2>1 DEF OneHolder
  <2>3. Held(p, o)' => Held(p, o)
    BY <1>1, <1>2, <1>3 DEF Held
  <2> QED BY <2>1, <2>2, <2>3 DEF HeldUnanswered
<1> QED BY <1>4 DEF HolderInv

\* The batch announcement takes the waiter from the run.
LEMMA Taking ==
  ASSUME TypeOK, HolderInv, NEW r \in Runs, AnnounceTake(r)
  PROVE  HolderInv'
<1>1. run[r] \in Run /\ UNCHANGED <<teardown, turn>>
  BY DEF TypeOK, AnnounceTake
<1>2. CASE UNCHANGED announcer /\ RunBecomes(r, [run[r] EXCEPT !.timers = @ \ {"batch"}])
  <2>1. RunsKeep
    BY <1>1, <1>2, Waiters, RunKept
  <2> QED BY <1>1, <1>2, <2>1, Unchanging, NothingHandedOn
<1>3. CASE /\ RunBecomes(r, Taken(run[r]))
           /\ AnnouncerBecomes(r,
                [stage |-> "taken", waiter |-> run[r].waiter,
                 answer |-> [kind |-> "calls", batch |-> run[r].fresh, text |-> run[r].text]])
  <2>1. \A p \in Runs, o \in Turns : HeldByRun(p, o)' => HeldByRun(p, o) /\ p # r
    BY <1>1, <1>3, Waiters, ConstantsAssumption DEF TypeOK, RunBecomes, HeldByRun
  <2>2. \A p \in Runs, o \in Turns :
          HeldByAnnouncer(p, o)' => \/ HeldByAnnouncer(p, o) /\ p # r
                                    \/ p = r /\ HeldByRun(p, o)
    BY <1>3 DEF TypeOK, AnnouncerBecomes, HeldByAnnouncer, HeldByRun
  <2>3. \A p \in Runs, o \in Turns : HeldByTeardown(p, o)' => HeldByTeardown(p, o)
    BY <1>1 DEF HeldByTeardown
  <2>4. ASSUME NEW p \in Runs, NEW o \in Turns PROVE OneHolder(p, o)' /\ HeldUnanswered(p, o)'
    <3>1. OneHolder(p, o) /\ HeldUnanswered(p, o)
      BY DEF HolderInv
    <3>2. OneHolder(p, o)'
      BY <2>1, <2>2, <2>3, <3>1 DEF OneHolder
    <3>3. Held(p, o)' => Held(p, o)
      BY <2>1, <2>2, <2>3 DEF Held
    <3> QED BY <1>1, <3>1, <3>2, <3>3 DEF HeldUnanswered
  <2> QED BY <1>1, <2>4 DEF HolderInv
<1> QED BY <1>2, <1>3 DEF AnnounceTake

\* The holder of a waiter lets go of it with the answer.
LEMMA Answering ==
  ASSUME TypeOK, HolderInv, NEW r \in Runs, NEW q, NEW answer, Send(q, answer),
         RunsKeep, AnnouncersKeep, TeardownsKeep,
         q \in Turns => Held(r, q) /\ ~Held(r, q)'
  PROVE  HolderInv'
<1>1. CASE q \notin Turns
  <2>1. UNCHANGED turn
    BY <1>1 DEF TypeOK, Send, TurnBecomes
  <2> QED BY <2>1, Unchanging, NothingHandedOn
<1>2. CASE q \in Turns
  <2>1. /\ turn'[q].pc = turn[q].pc /\ turn'[q].run = turn[q].run
        /\ turn'[q].sends = turn[q].sends + 1
        /\ \A p \in Turns : p # q => turn'[p] = turn[p]
    <3>1. \A t \in Turn : LET s == [t EXCEPT !.answer = answer, !.sends = @ + 1]
                          IN s.pc = t.pc /\ s.sends = t.sends + 1 /\ s.run = t.run
      BY DEF Turn
    <3>2. turn[q] \in Turn
      BY <1>2 DEF TypeOK
    <3> QED BY <1>2, <3>1, <3>2 DEF TypeOK, Send, TurnBecomes
  <2>2. turn[q].run = r /\ turn[q].sends = 0 /\ turn[q].pc \notin Early
    BY <1>2 DEF HolderInv, HeldUnanswered
  <2>3. \A p \in Runs, o \in Turns : Held(p, o)' => Held(p, o)
    BY DEF Held, RunsKeep, AnnouncersKeep, TeardownsKeep
  <2>4. \A p \in Runs : ~Held(p, q)'
    BY <1>2, <2>2, <2>3 DEF HolderInv, HeldUnanswered
  <2>5. ASSUME NEW p \in Runs, NEW o \in Turns PROVE OneHolder(p, o)' /\ HeldUnanswered(p, o)'
    <3>1. OneHolder(p, o)'
      BY DEF HolderInv, OneHolder, RunsKeep, AnnouncersKeep, TeardownsKeep
    <3>2. HeldUnanswered(p, o)'
      BY <2>1, <2>3, <2>4 DEF HolderInv, HeldUnanswered
    <3> QED BY <3>1, <3>2
  <2>6. \A o \in Turns : turn'[o].sends <= 1 /\ (turn'[o].pc \in Early => turn'[o].sends = 0)
    BY <2>1, <2>2 DEF HolderInv
  <2> QED BY <2>5, <2>6 DEF HolderInv
<1> QED BY <1>1, <1>2

LEMMA AnnounceAnswers ==
  ASSUME TypeOK, HolderInv, NEW r \in Runs, AnnounceAnswer(r)
  PROVE  HolderInv'
<1>0. PICK q : q = announcer[r].waiter
  OBVIOUS
<1>1. /\ announcer'[r].stage = "idle"
      /\ \A p \in Runs : p # r => announcer'[p] = announcer[p]
  BY DEF TypeOK, AnnounceAnswer, AnnouncerBecomes, Announcer
<1>2. AnnouncersKeep /\ ~HeldByAnnouncer(r, q)'
  BY <1>1 DEF AnnouncersKeep, HeldByAnnouncer
<1>3. RunsKeep /\ TeardownsKeep
  BY Unchanging DEF AnnounceAnswer
<1>4. q \in Turns => Held(r, q) /\ ~Held(r, q)'
  <2>1. HeldByAnnouncer(r, q)
    BY <1>0 DEF AnnounceAnswer, HeldByAnnouncer
  <2>2. q \in Turns => ~HeldByRun(r, q) /\ ~HeldByTeardown(r, q)
    BY <2>1 DEF HolderInv, OneHolder
  <2> QED BY <1>2, <1>3, <2>1, <2>2 DEF Held, RunsKeep, TeardownsKeep
<1>5. Send(q, announcer[r].answer)
  BY <1>0 DEF AnnounceAnswer
<1> QED BY <1>2, <1>3, <1>4, <1>5, Answering

LEMMA TeardownAnswers ==
  ASSUME TypeOK, HolderInv, NEW r \in Runs, TeardownAnswer(r)
  PROVE  HolderInv'
<1>0. PICK q : q = teardown[r].waiter
  OBVIOUS
<1>1. /\ teardown'[r].stage = "done"
      /\ \A p \in Runs : p # r => teardown'[p] = teardown[p]
  BY DEF TypeOK, TeardownAnswer, TeardownAt, TeardownBecomes, Teardown
<1>2. TeardownsKeep /\ ~HeldByTeardown(r, q)'
  BY <1>1 DEF TeardownsKeep, HeldByTeardown
<1>3. RunsKeep /\ AnnouncersKeep
  BY Unchanging DEF TeardownAnswer
<1>4. q \in Turns => Held(r, q) /\ ~Held(r, q)'
  <2>1. HeldByTeardown(r, q)
    BY <1>0 DEF TeardownAnswer, HeldByTeardown
  <2>2. q \in Turns => ~HeldByRun(r, q) /\ ~HeldByAnnouncer(r, q)
    BY <2>1 DEF HolderInv, OneHolder
  <2> QED BY <1>2, <1>3, <2>1, <2>2 DEF Held, RunsKeep, AnnouncersKeep
<1>5. CASE UNCHANGED turn
  BY <1>2, <1>3, <1>5, Unchanging, NothingHandedOn
<1>6. CASE Send(q, teardown[r].answer)
  BY <1>2, <1>3, <1>4, <1>6, Answering
<1> QED BY <1>0, <1>5, <1>6 DEF TeardownAnswer

(* One step per action. *)

LEMMA HolderTurnStep == ASSUME TypeOK, HolderInv, NEW q \in Turns, TurnStep(q) PROVE HolderInv'
<1> DEFINE r == turn[q].run
<1>a. r \in Runs => run[r] \in Run
  BY DEF TypeOK
<1>1. CASE AttachStart(q) \/ AttachResume(q)
  <2>1. UNCHANGED <<announcer, teardown>>
    BY <1>1 DEF AttachStart, AttachResume
  <2>2. CASE MayAttach(r)
    <3>1. turn[q].pc \in Early /\ RunBecomes(r, Attached(run[r], q))
      BY <1>1, <2>2 DEF AttachStart, AttachResume, Early
    <3>2. TurnAt(q, "attached") \/ TurnAt(q, "delivering")
      BY <1>1, <2>2 DEF AttachStart, AttachResume
    <3> QED BY <2>1, <3>1, <3>2, Attaching DEF TurnPcs, Early
  <2>3. CASE ~MayAttach(r)
    <3>1. UNCHANGED run /\ (TurnAt(q, "failing") \/ Reject(q, "rejected"))
      BY <1>1, <2>3 DEF AttachStart, AttachResume
    <3>2. TurnsKeep
      BY <3>1, TurnAtKept, RejectKept DEF TurnPcs, Early
    <3> QED BY <2>1, <3>1, <3>2, Unchanging, NothingHandedOn
  <2> QED BY <2>2, <2>3
<1>2. CASE OpenSend(q) \/ SendFails(q) \/ DeliverReply(q) \/ ReceiveTurn(q)
  <2>1. UNCHANGED <<run, announcer, teardown>>
    BY <1>2 DEF OpenSend, SendFails, DeliverReply, ReceiveTurn
  <2>2. TurnAt(q, "waiting") \/ TurnAt(q, "failing") \/ TurnAt(q, "draining")
    BY <1>2 DEF OpenSend, SendFails, DeliverReply, ReceiveTurn
  <2>3. TurnsKeep
    BY <2>2, TurnAtKept DEF TurnPcs, Early
  <2> QED BY <2>1, <2>3, Unchanging, NothingHandedOn
<1>3. CASE Deliver(q)
  <2>1. UNCHANGED <<announcer, teardown>>
    BY <1>3 DEF Deliver
  <2>2. UNCHANGED run \/ RunBecomes(r, Delivered(run[r]))
    BY <1>3 DEF Deliver
  <2>3. RunsKeep
    BY <1>a, <2>2, Waiters, RunKept, Unchanging
  <2>4. TurnAt(q, "detaching") \/ TurnAt(q, "replying")
    BY <1>3 DEF Deliver
  <2>5. TurnsKeep
    BY <2>4, TurnAtKept DEF TurnPcs, Early
  <2> QED BY <2>1, <2>3, <2>5, Unchanging, NothingHandedOn
<1>4. CASE Detach(q)
  <2>1. UNCHANGED <<announcer, teardown>>
    BY <1>4 DEF Detach
  <2> DEFINE rr == [run[r] EXCEPT !.waiter = IF @ = q THEN None ELSE @]
  <2>2. r \in Runs => rr.waiter = run[r].waiter \/ rr.waiter = None
    BY <1>a DEF Run
  <2>3. RunsKeep
    BY <1>4, <2>2, RunKept DEF Detach
  <2>4. TurnsKeep
    BY <1>4, RejectKept DEF Detach
  <2> QED BY <2>1, <2>3, <2>4, Unchanging, NothingHandedOn
<1>5. CASE TurnAborts(q)
  BY <1>5, Beginning DEF TurnAborts
<1>6. CASE TurnAborted(q)
  <2>1. UNCHANGED <<run, announcer, teardown>>
    BY <1>6 DEF TurnAborted
  <2>2. TurnAt(q, "draining") \/ Reject(q, "failed")
    BY <1>6 DEF TurnAborted
  <2>3. TurnsKeep
    BY <2>2, TurnAtKept, RejectKept DEF TurnPcs, Early
  <2> QED BY <2>1, <2>3, Unchanging, NothingHandedOn
<1>7. CASE ReturnTurn(q)
  <2>1. UNCHANGED <<run, announcer, teardown>>
    BY <1>7 DEF ReturnTurn
  <2> DEFINE t == [turn[q] EXCEPT !.pc = "returned", !.waited = TRUE]
  <2>2. t.pc = "returned" /\ t.sends = turn[q].sends /\ t.run = turn[q].run
    BY DEF TypeOK, Turn
  <2>3. TurnsKeep
    BY <1>7, <2>2, TurnKept DEF ReturnTurn, Early
  <2> QED BY <2>1, <2>3, Unchanging, NothingHandedOn
<1> QED BY <1>1, <1>2, <1>3, <1>4, <1>5, <1>6, <1>7 DEF TurnStep

LEMMA HolderClientStep == ASSUME TypeOK, HolderInv, NEW q \in Turns, ClientStep(q) PROVE HolderInv'
<1>a. turn[q] \in Turn
  BY DEF TypeOK
<1>1. ASSUME NEW r \in Runs, StartRun(q, r) PROVE HolderInv'
  <2>1. UNCHANGED <<run, announcer, teardown>> /\ turn[q].pc \in Early
    BY <1>1 DEF StartRun, Early
  <2> DEFINE t == [turn[q] EXCEPT !.pc = "registered", !.run = r]
  <2>2. t.sends = turn[q].sends
    BY <1>a DEF Turn
  <2>3. TurnsKeep
    BY <1>1, <2>1, <2>2, TurnKept DEF StartRun
  <2> QED BY <2>1, <2>3, Unchanging, NothingHandedOn
<1>2. ASSUME NEW ids \in SUBSET Known, LookupResume(q, ids) PROVE HolderInv'
  <2>1. UNCHANGED <<run, announcer, teardown>> /\ turn[q].pc \in Early
    BY <1>2 DEF LookupResume, Early
  <2>2. CASE Reject(q, "rejected")
    BY <2>1, <2>2, RejectKept, Unchanging, NothingHandedOn
  <2>3. ASSUME NEW t, t.sends = turn[q].sends, TurnBecomes(q, t) PROVE HolderInv'
    BY <2>1, <2>3, TurnKept, Unchanging, NothingHandedOn
  <2>4. [turn[q] EXCEPT !.pc = "fresh", !.ids = ids].sends = turn[q].sends
    BY <1>a DEF Turn
  <2>5. \A r : [turn[q] EXCEPT !.pc = "found", !.ids = ids, !.run = r].sends = turn[q].sends
    BY <1>a DEF Turn
  <2> QED BY <1>2, <2>2, <2>3, <2>4, <2>5 DEF LookupResume
<1>3. CASE CancelTurn(q)
  <2> DEFINE r == turn[q].run
             t == [turn[q] EXCEPT !.pc = "aborting", !.answer = Failure("cancelled")]
  <2>1. UNCHANGED <<announcer, teardown>>
    BY <1>3 DEF CancelTurn
  <2>2. t.pc = "aborting" /\ t.sends = turn[q].sends /\ t.run = turn[q].run
    BY <1>a DEF Turn
  <2>3. TurnAt(q, "handover") \/ TurnBecomes(q, t)
    BY <1>3 DEF CancelTurn
  <2>4. TurnsKeep
    BY <2>2, <2>3, TurnAtKept, TurnKept DEF TurnPcs, Early
  <2>5. UNCHANGED run \/ RunBecomes(r, [run[r] EXCEPT !.waiter = None])
    BY <1>3 DEF CancelTurn
  <2>6. r \in Runs => run[r] \in Run
    BY DEF TypeOK
  <2>7. RunsKeep
    BY <2>5, <2>6, Waiters, RunKept, Unchanging
  <2> QED BY <2>1, <2>4, <2>7, Unchanging, NothingHandedOn
<1> QED BY <1>1, <1>2, <1>3 DEF ClientStep

LEMMA HolderCallStep == ASSUME TypeOK, HolderInv, NEW c \in Calls, CallStep(c) PROVE HolderInv'
<1>1. CASE CallPark(c)
  <2> DEFINE r == call[c].run
  <2>1. UNCHANGED <<announcer, teardown, turn>>
    BY <1>1 DEF CallPark
  <2>2. UNCHANGED run \/ RunBecomes(r, WithCall(run[r], c))
    BY <1>1 DEF CallPark
  <2>3. r \in Runs => run[r] \in Run
    BY DEF TypeOK
  <2>4. RunsKeep
    BY <2>2, <2>3, Waiters, RunKept, Unchanging
  <2> QED BY <2>1, <2>4, Unchanging, NothingHandedOn
<1>2. CASE CallAborts(c)
  BY <1>2, Beginning DEF CallAborts
<1>3. CASE CallReplied(c) \/ CallRunDone(c) \/ CallAborted(c)
  BY <1>3, Unchanging, NothingHandedOn DEF CallReplied, CallRunDone, CallAborted
<1> QED BY <1>1, <1>2, <1>3 DEF CallStep

LEMMA HolderRunStep == ASSUME TypeOK, HolderInv, NEW r \in Runs, RunStep(r) PROVE HolderInv'
<1>1. CASE AnnounceTake(r)
  BY <1>1, Taking
<1>2. CASE AnnounceRegister(r)
  <2>1. announcer'[r].waiter = announcer[r].waiter /\ announcer[r].stage # "idle"
        /\ \A p \in Runs : p # r => announcer'[p] = announcer[p]
    BY <1>2 DEF TypeOK, AnnounceRegister, AnnouncerBecomes, Announcer
  <2>2. AnnouncersKeep
    BY <2>1 DEF AnnouncersKeep, HeldByAnnouncer
  <2>3. UNCHANGED <<run, teardown, turn>>
    BY <1>2 DEF AnnounceRegister
  <2> QED BY <2>2, <2>3, Unchanging, NothingHandedOn
<1>3. CASE AnnounceAnswer(r)
  BY <1>3, AnnounceAnswers
<1>4. CASE ResultTimerFires(r)
  <2>1. UNCHANGED <<announcer, teardown, turn>>
    BY <1>4 DEF ResultTimerFires
  <2>2. RunsKeep
    BY <1>4, Waiters, RunKept DEF TypeOK, ResultTimerFires
  <2> QED BY <2>1, <2>2, Unchanging, NothingHandedOn
<1>5. CASE TimeoutAborts(r) \/ ReaderEndsRun(r) \/ StopperAborts(r)
  BY <1>5, Beginning DEF TimeoutAborts, ReaderEndsRun, StopperAborts
<1>6. CASE DeltaDone(r) \/ ReaderExits(r)
  BY <1>6, Unchanging, NothingHandedOn DEF DeltaDone, ReaderExits
<1>7. CASE TeardownCancel(r) \/ TeardownUnregister(r) \/ TeardownRelease(r)
  <2>1. UNCHANGED <<run, announcer, turn>>
    BY <1>7 DEF TeardownCancel, TeardownUnregister, TeardownRelease
  <2>2. /\ teardown'[r].waiter = teardown[r].waiter /\ teardown[r].stage \notin {"none", "done"}
        /\ \A p \in Runs : p # r => teardown'[p] = teardown[p]
    BY <1>7 DEF TypeOK, TeardownCancel, TeardownUnregister, TeardownRelease, TeardownAt,
                TeardownBecomes, Teardown
  <2>3. TeardownsKeep
    BY <2>2 DEF TeardownsKeep, HeldByTeardown
  <2> QED BY <2>1, <2>3, Unchanging, NothingHandedOn
<1>8. CASE TeardownAnswer(r)
  BY <1>8, TeardownAnswers
<1> QED BY <1>1, <1>2, <1>3, <1>4, <1>5, <1>6, <1>7, <1>8 DEF RunStep, TeardownStep

LEMMA HolderBridgeStep == ASSUME TypeOK, HolderInv, BridgeStep PROVE HolderInv'
<1>1. ASSUME NEW r \in Runs, NEW d \in Deltas, ReadDelta(r, d) PROVE HolderInv'
  <2> DEFINE q == run[r].waiter
             t == [turn[q] EXCEPT !.streamed = @ \cup {d}]
  <2>1. UNCHANGED <<announcer, teardown>>
    BY <1>1 DEF ReadDelta
  <2>2. run[r] \in Run
    BY DEF TypeOK
  <2>3. UNCHANGED run \/ RunBecomes(r, [run[r] EXCEPT !.text = @ \cup {d}])
    BY <1>1 DEF ReadDelta
  <2>4. [run[r] EXCEPT !.text = @ \cup {d}].waiter = run[r].waiter
    BY <2>2, Waiters
  <2>5. RunsKeep
    BY <2>3, <2>4, RunKept, Unchanging
  <2>6. q \in Turns => t.pc = turn[q].pc /\ t.sends = turn[q].sends /\ t.run = turn[q].run
    BY DEF TypeOK, Turn
  <2>7. q # None => q \in Turns
    BY <2>2 DEF Run
  <2>8. TurnsKeep
    BY <1>1, <2>6, <2>7, TurnKept, Unchanging DEF ReadDelta
  <2> QED BY <2>1, <2>5, <2>8, Unchanging, NothingHandedOn
<1>2. CASE \/ \E c \in Calls, r \in Runs : CallLookup(c, r)
           \/ \E c \in Calls : CallCancelled(c)
           \/ \E r \in Runs : StreamEnds(r)
           \/ AbortParkedToolRuns
           \/ \E p \in Processes : FailToolRunsForProcess(p)
  BY <1>2, Unchanging, NothingHandedOn
     DEF CallLookup, CallCancelled, StreamEnds, AbortParkedToolRuns, FailToolRunsForProcess
<1> QED BY <1>1, <1>2 DEF BridgeStep

LEMMA HolderNext == ASSUME TypeOK, HolderInv, [Next]_vars PROVE HolderInv'
<1>1. CASE Next
  BY <1>1, HolderTurnStep, HolderClientStep, HolderCallStep, HolderRunStep, HolderBridgeStep
     DEF Next
<1>2. CASE UNCHANGED vars
  BY <1>2, Unchanging, NothingHandedOn DEF vars
<1> QED BY <1>1, <1>2

LEMMA HolderInit == Init => HolderInv
BY ConstantsAssumption DEF Init, HolderInv, OneHolder, HeldUnanswered, Held, HeldByRun,
   HeldByAnnouncer, HeldByTeardown, Early

\* A turn's channel, of capacity one, gets one answer at most: the batch announcement, the end
\* of the stream, the timeout and every abort take the waiter under run.mu before they send.
THEOREM TurnsAnsweredOnce == Spec => []AnsweredOnce
<1>1. HolderInv => AnsweredOnce
  BY DEF HolderInv, AnsweredOnce
<1> QED BY <1>1, TypeInit, TypeNext, HolderInit, HolderNext, PTL DEF Spec

(***************************************************************************)
(* What the end of a run leaves.  A turn hears of the end of its run from  *)
(* the last step of the teardown, or waits for the teardown to be over; by *)
(* then the run is unregistered for good, since a run is registered once,  *)
(* before anything else happens to it.                                     *)
(***************************************************************************)
Born(r) == reader[r].pc # "unborn"

\* Of a run that no turn has started nothing is known anywhere.
NothingUnborn ==
  \A r \in Runs : ~Born(r) =>
    /\ r \notin byAgentID /\ r \notin stopping /\ r \notin timedOut
    /\ run[r].timers = {} /\ announcer[r].stage = "idle" /\ teardown[r].stage = "none"

NamedAreBorn ==
  /\ \A q \in Turns : turn[q].run \in Runs => Born(turn[q].run)
  /\ \A c \in Calls : call[c].run \in Runs => Born(call[c].run)
  /\ \A c \in Calls : byExposedCallID[c] \in Runs => Born(byExposedCallID[c])

BornInv == NothingUnborn /\ NamedAreBorn

\* What a step does not do for a run that is unborn before it and after it.
RunsIdle == \A r \in Runs : Born(r) \/ run'[r] = run[r]
AnnouncersIdle == \A r \in Runs : Born(r) \/ announcer'[r] = announcer[r]
TeardownsIdle == \A r \in Runs : Born(r) \/ teardown'[r] = teardown[r]
BirthsStay == \A r \in Runs : Born(r) => Born(r)'
NoNewRun == \A q \in Turns : turn'[q].run = turn[q].run
NoNewCaller == \A c \in Calls : call'[c].run = call[c].run

LEMMA Named ==
  ASSUME NamedAreBorn, NoNewRun, NoNewCaller, BirthsStay,
         \A c \in Calls : \/ byExposedCallID'[c] = byExposedCallID[c]
                          \/ byExposedCallID'[c] \in Runs => Born(byExposedCallID'[c])
  PROVE  NamedAreBorn'
BY DEF NamedAreBorn, NoNewRun, NoNewCaller, BirthsStay, Born

LEMMA Unborn ==
  ASSUME NothingUnborn, RunsIdle, AnnouncersIdle, TeardownsIdle, BirthsStay,
         \A r \in Runs : ~Born(r)' =>
           (r \in byAgentID' \cup stopping' \cup timedOut' =>
             r \in byAgentID \cup stopping \cup timedOut)
  PROVE  NothingUnborn'
BY DEF NothingUnborn, RunsIdle, AnnouncersIdle, TeardownsIdle, BirthsStay, Born

LEMMA IdleWhenSame ==
  /\ UNCHANGED run => RunsIdle
  /\ UNCHANGED announcer => AnnouncersIdle
  /\ UNCHANGED teardown => TeardownsIdle
  /\ UNCHANGED reader => BirthsStay
  /\ UNCHANGED turn => NoNewRun
  /\ UNCHANGED call => NoNewCaller
BY DEF RunsIdle, AnnouncersIdle, TeardownsIdle, BirthsStay, NoNewRun, NoNewCaller, Born

LEMMA IdleElsewhere ==
  ASSUME TypeOK, NEW r, r \in Runs => Born(r)
  PROVE  /\ \A rr : RunBecomes(r, rr) => RunsIdle
         /\ \A a : AnnouncerBecomes(r, a) => AnnouncersIdle
         /\ \A d : TeardownBecomes(r, d) => TeardownsIdle
         /\ \A answer : Begin(r, answer) => RunsIdle /\ TeardownsIdle
         /\ \A stage : TeardownAt(r, stage) => TeardownsIdle
BY DEF TypeOK, RunBecomes, AnnouncerBecomes, TeardownBecomes, RunsIdle, AnnouncersIdle,
       TeardownsIdle, Begin, TeardownAt

LEMMA SameRunTurn ==
  ASSUME TypeOK, NEW q \in Turns, NEW t, TurnBecomes(q, t), t.run = turn[q].run
  PROVE  NoNewRun
BY DEF TypeOK, TurnBecomes, NoNewRun

LEMMA TurnFields ==
  ASSUME TypeOK, NEW q \in Turns
  PROVE  /\ \A pc : TurnAt(q, pc) => NoNewRun
         /\ \A kind : Reject(q, kind) => NoNewRun
         /\ \A answer : Send(q, answer) => NoNewRun
         /\ \A pc, answer : TurnBecomes(q, [turn[q] EXCEPT !.pc = pc, !.answer = answer]) => NoNewRun
         /\ \A pc, ids : TurnBecomes(q, [turn[q] EXCEPT !.pc = pc, !.ids = ids]) => NoNewRun
         /\ \A pc, w : TurnBecomes(q, [turn[q] EXCEPT !.pc = pc, !.waited = w]) => NoNewRun
         /\ \A s : TurnBecomes(q, [turn[q] EXCEPT !.streamed = s]) => NoNewRun
<1>1. \A t \in Turn :
        /\ \A pc : [t EXCEPT !.pc = pc].run = t.run
        /\ \A pc, answer : [t EXCEPT !.pc = pc, !.answer = answer].run = t.run
        /\ \A n, answer : [t EXCEPT !.answer = answer, !.sends = n].run = t.run
        /\ \A pc, ids : [t EXCEPT !.pc = pc, !.ids = ids].run = t.run
        /\ \A pc, w : [t EXCEPT !.pc = pc, !.waited = w].run = t.run
        /\ \A s : [t EXCEPT !.streamed = s].run = t.run
  BY DEF Turn
<1>2. turn[q] \in Turn
  BY DEF TypeOK
<1>3. /\ \A pc : [turn[q] EXCEPT !.pc = pc].run = turn[q].run
      /\ \A pc, answer : [turn[q] EXCEPT !.pc = pc, !.answer = answer].run = turn[q].run
      /\ \A n, answer : [turn[q] EXCEPT !.answer = answer, !.sends = n].run = turn[q].run
      /\ \A pc, ids : [turn[q] EXCEPT !.pc = pc, !.ids = ids].run = turn[q].run
      /\ \A pc, w : [turn[q] EXCEPT !.pc = pc, !.waited = w].run = turn[q].run
      /\ \A s : [turn[q] EXCEPT !.streamed = s].run = turn[q].run
  BY <1>1, <1>2
<1>4. \A pc : TurnAt(q, pc) => NoNewRun
  BY <1>3, SameRunTurn DEF TurnAt
<1>5. \A kind : Reject(q, kind) => NoNewRun
  BY <1>3, SameRunTurn DEF Reject
<1>6. \A answer : Send(q, answer) => NoNewRun
  BY <1>3, SameRunTurn DEF Send
<1>7. \A t : TurnBecomes(q, t) /\ t.run = turn[q].run => NoNewRun
  BY SameRunTurn
<1> QED BY <1>3, <1>4, <1>5, <1>6, <1>7

LEMMA CallFields ==
  ASSUME TypeOK, NEW c \in Calls
  PROVE  /\ \A pc : CallAt(c, pc) => NoNewCaller
         /\ \A pc, result : CallBecomes(c, [call[c] EXCEPT !.pc = pc, !.result = result])
              => NoNewCaller
<1>1. \A k \in Call :
        /\ \A pc : [k EXCEPT !.pc = pc].run = k.run
        /\ \A pc, result : [k EXCEPT !.pc = pc, !.result = result].run = k.run
  BY DEF Call
<1>2. call[c] \in Call
  BY DEF TypeOK
<1>3. \A k : CallBecomes(c, k) /\ k.run = call[c].run => NoNewCaller
  BY DEF TypeOK, CallBecomes, NoNewCaller
<1>4. /\ \A pc : [call[c] EXCEPT !.pc = pc].run = call[c].run
      /\ \A pc, result : [call[c] EXCEPT !.pc = pc, !.result = result].run = call[c].run
  BY <1>1, <1>2
<1> QED BY <1>3, <1>4 DEF CallAt

LEMMA NoTimersUnborn == ASSUME NothingUnborn, NEW r \in Runs, run[r].timers # {} PROVE Born(r)
BY DEF NothingUnborn

LEMMA BornTurnStep == ASSUME TypeOK, BornInv, NEW q \in Turns, TurnStep(q) PROVE BornInv'
<1> DEFINE r == turn[q].run
<1>0. r \in Runs => Born(r)
  BY DEF BornInv, NamedAreBorn
<1> USE DEF BornInv
<1>1. CASE AttachStart(q) \/ AttachResume(q) \/ Deliver(q) \/ Detach(q)
  <2>1. RunsIdle
    BY <1>0, <1>1, IdleElsewhere, IdleWhenSame DEF AttachStart, AttachResume, Deliver, Detach
  <2>2. NoNewRun
    BY <1>1, TurnFields DEF AttachStart, AttachResume, Deliver, Detach
  <2>3. UNCHANGED <<timedOut, announcer, reader, teardown, call, stopping, registry>>
    BY <1>1 DEF AttachStart, AttachResume, Deliver, Detach
  <2> QED BY <2>1, <2>2, <2>3, IdleWhenSame, Named, Unborn DEF registry
<1>2. CASE OpenSend(q)
  <2>1. NoNewRun /\ UNCHANGED <<run, timedOut, announcer, teardown, call, stopping, registry>>
    BY <1>2, TurnFields DEF OpenSend
  <2>2. BirthsStay
    BY <1>2 DEF OpenSend, ReaderAt, TypeOK, Reader, ReaderBecomes, BirthsStay, Born
  <2> QED BY <2>1, <2>2, IdleWhenSame, Named, Unborn DEF registry
<1>3. CASE SendFails(q) \/ ReceiveTurn(q) \/ TurnAborted(q) \/ ReturnTurn(q)
  <2>1. NoNewRun
    BY <1>3, TurnFields DEF SendFails, ReceiveTurn, TurnAborted, ReturnTurn
  <2>2. UNCHANGED <<run, timedOut, announcer, reader, teardown, call, stopping, registry>>
    BY <1>3 DEF SendFails, ReceiveTurn, TurnAborted, ReturnTurn
  <2> QED BY <2>1, <2>2, IdleWhenSame, Named, Unborn DEF registry
<1>4. CASE DeliverReply(q)
  <2>1. NoNewRun /\ UNCHANGED <<run, timedOut, announcer, reader, teardown, stopping, byAgentID>>
    BY <1>4, TurnFields DEF DeliverReply
  <2>2. NoNewCaller
    BY <1>4 DEF DeliverReply, NoNewCaller, TypeOK, Call
  <2>3. \A c \in Calls : byExposedCallID'[c] = byExposedCallID[c] \/ byExposedCallID'[c] = None
    BY <1>4 DEF DeliverReply
  <2> QED BY <2>1, <2>2, <2>3, IdleWhenSame, Named, Unborn, ConstantsAssumption
<1>5. CASE TurnAborts(q)
  <2>1. RunsIdle /\ TeardownsIdle
    BY <1>0, <1>5, IdleElsewhere DEF TurnAborts
  <2>2. UNCHANGED <<timedOut, announcer, reader, turn, call, stopping, registry>>
    BY <1>5 DEF TurnAborts
  <2> QED BY <2>1, <2>2, IdleWhenSame, Named, Unborn DEF registry
<1> QED BY <1>1, <1>2, <1>3, <1>4, <1>5 DEF TurnStep

LEMMA BornClientStep == ASSUME TypeOK, BornInv, NEW q \in Turns, ClientStep(q) PROVE BornInv'
<1> USE DEF BornInv
<1>1. ASSUME NEW r \in Runs, StartRun(q, r) PROVE BornInv'
  <2>1. BirthsStay /\ Born(r)'
    BY <1>1 DEF StartRun, ReaderAt, ReaderBecomes, TypeOK, Reader, BirthsStay, Born
  <2>2. UNCHANGED <<run, timedOut, announcer, teardown, call, stopping, byExposedCallID>>
    BY <1>1 DEF StartRun
  <2>3. byAgentID' = byAgentID \cup {r}
    BY <1>1 DEF StartRun
  <2>4. NothingUnborn'
    BY <2>1, <2>2, <2>3, IdleWhenSame, Unborn
  <2>5. \A p \in Turns : turn'[p].run = turn[p].run \/ turn'[p].run = r
    BY <1>1 DEF StartRun, TurnBecomes, TypeOK, Turn
  <2>6. NamedAreBorn'
    BY <2>1, <2>2, <2>5 DEF NamedAreBorn, BirthsStay, Born
  <2> QED BY <2>4, <2>6
<1>2. ASSUME NEW ids \in SUBSET Known, LookupResume(q, ids) PROVE BornInv'
  <2>1. UNCHANGED <<run, timedOut, announcer, reader, teardown, call, stopping, registry>>
    BY <1>2 DEF LookupResume
  <2>2. NothingUnborn'
    BY <2>1, IdleWhenSame, Unborn DEF registry
  <2>3. CASE NoNewRun
    BY <2>1, <2>2, <2>3, IdleWhenSame, Named DEF registry
  <2>4. ASSUME NEW r \in Owners(ids),
               TurnBecomes(q, [turn[q] EXCEPT !.pc = "found", !.ids = ids, !.run = r])
        PROVE  BornInv'
    <3>1. r \in Runs => Born(r)
      BY <1>2, KnownCalls DEF Owners, NamedAreBorn
    <3>2. \A p \in Turns : turn'[p].run = turn[p].run \/ turn'[p].run = r
      BY <2>4 DEF TurnBecomes, TypeOK, Turn
    <3>3. NamedAreBorn'
      BY <2>1, <3>1, <3>2 DEF NamedAreBorn, Born, registry
    <3> QED BY <2>2, <3>3
  <2> QED BY <1>2, <2>3, <2>4, TurnFields DEF LookupResume
<1>3. CASE CancelTurn(q)
  <2>1. UNCHANGED <<timedOut, announcer, reader, teardown, call, stopping, registry>>
    BY <1>3 DEF CancelTurn
  <2>2. NoNewRun
    BY <1>3, TurnFields DEF CancelTurn
  <2>3. RunsIdle
    BY <1>3, IdleElsewhere, IdleWhenSame DEF CancelTurn, NamedAreBorn
  <2> QED BY <2>1, <2>2, <2>3, IdleWhenSame, Named, Unborn DEF registry
<1> QED BY <1>1, <1>2, <1>3 DEF ClientStep

LEMMA BornCallStep == ASSUME TypeOK, BornInv, NEW c \in Calls, CallStep(c) PROVE BornInv'
<1> USE DEF BornInv
<1>0. call[c].run \in Runs => Born(call[c].run)
  BY DEF NamedAreBorn
<1>1. CASE CallPark(c)
  <2>1. RunsIdle /\ NoNewCaller
    BY <1>0, <1>1, IdleElsewhere, IdleWhenSame, CallFields DEF CallPark
  <2>2. UNCHANGED <<timedOut, announcer, reader, teardown, turn, stopping, registry>>
    BY <1>1 DEF CallPark
  <2> QED BY <2>1, <2>2, IdleWhenSame, Named, Unborn DEF registry
<1>2. CASE CallReplied(c) \/ CallRunDone(c) \/ CallAborted(c)
  <2>1. NoNewCaller
    BY <1>2, CallFields DEF CallReplied, CallRunDone, CallAborted
  <2>2. UNCHANGED <<run, timedOut, announcer, reader, teardown, turn, stopping, registry>>
    BY <1>2 DEF CallReplied, CallRunDone, CallAborted
  <2> QED BY <2>1, <2>2, IdleWhenSame, Named, Unborn DEF registry
<1>3. CASE CallAborts(c)
  <2>1. RunsIdle /\ TeardownsIdle
    BY <1>0, <1>3, IdleElsewhere DEF CallAborts
  <2>2. UNCHANGED <<timedOut, announcer, reader, turn, call, stopping, registry>>
    BY <1>3 DEF CallAborts
  <2> QED BY <2>1, <2>2, IdleWhenSame, Named, Unborn DEF registry
<1> QED BY <1>1, <1>2, <1>3 DEF CallStep

LEMMA BornRunStep == ASSUME TypeOK, BornInv, NEW r \in Runs, RunStep(r) PROVE BornInv'
<1> USE DEF BornInv
<1>1. Born(r)
  BY DEF RunStep, AnnounceTake, AnnounceRegister, AnnounceAnswer, ResultTimerFires, TimeoutAborts,
         DeltaDone, ReaderEndsRun, ReaderExits, TeardownStep, TeardownCancel, TeardownUnregister,
         TeardownRelease, TeardownAnswer, StopperAborts, NothingUnborn, Born
<1>2. RunsIdle /\ AnnouncersIdle /\ TeardownsIdle
  BY <1>1, IdleElsewhere, IdleWhenSame
     DEF RunStep, AnnounceTake, AnnounceRegister, AnnounceAnswer, ResultTimerFires, TimeoutAborts,
         DeltaDone, ReaderEndsRun, ReaderExits, TeardownStep, TeardownCancel, TeardownUnregister,
         TeardownRelease, TeardownAnswer, StopperAborts
<1>3. BirthsStay
  <2>1. CASE DeltaDone(r)
    BY <2>1 DEF DeltaDone, ReaderBecomes, TypeOK, Reader, BirthsStay, Born
  <2>2. CASE ReaderExits(r)
    BY <2>2 DEF ReaderExits, ReaderAt, ReaderBecomes, TypeOK, Reader, BirthsStay, Born
  <2>3. CASE UNCHANGED reader
    BY <2>3, IdleWhenSame
  <2> QED BY <2>1, <2>2, <2>3
     DEF RunStep, AnnounceTake, AnnounceRegister, AnnounceAnswer, ResultTimerFires, TimeoutAborts,
         ReaderEndsRun, TeardownStep, TeardownCancel, TeardownUnregister,
         TeardownRelease, TeardownAnswer, StopperAborts
<1>4. UNCHANGED call /\ NoNewCaller
  BY IdleWhenSame
     DEF RunStep, AnnounceTake, AnnounceRegister, AnnounceAnswer, ResultTimerFires, TimeoutAborts,
         DeltaDone, ReaderEndsRun, ReaderExits, TeardownStep, TeardownCancel, TeardownUnregister,
         TeardownRelease, TeardownAnswer, StopperAborts
<1>5. NoNewRun
  <2>1. ASSUME NEW q, NEW answer, Send(q, answer) PROVE NoNewRun
    <3>1. CASE q \in Turns
      BY <2>1, <3>1, TurnFields
    <3>2. CASE q \notin Turns
      BY <2>1, <3>2 DEF Send, TurnBecomes, TypeOK, NoNewRun
    <3> QED BY <3>1, <3>2
  <2> QED BY <2>1, IdleWhenSame
     DEF RunStep, AnnounceTake, AnnounceRegister, AnnounceAnswer, ResultTimerFires, TimeoutAborts,
         DeltaDone, ReaderEndsRun, ReaderExits, TeardownStep, TeardownCancel, TeardownUnregister,
         TeardownRelease, TeardownAnswer, StopperAborts
<1>6. \A c \in Calls : byExposedCallID'[c] \in {byExposedCallID[c], r, None}
  BY DEF TypeOK, RunStep, AnnounceTake, AnnounceRegister, AnnounceAnswer, ResultTimerFires, TimeoutAborts,
         DeltaDone, ReaderEndsRun, ReaderExits, TeardownStep, TeardownCancel, TeardownUnregister,
         TeardownRelease, TeardownAnswer, StopperAborts, registry
<1>7. \A p \in Runs : p # r => (p \in byAgentID' \cup stopping' \cup timedOut' =>
             p \in byAgentID \cup stopping \cup timedOut)
  BY DEF RunStep, AnnounceTake, AnnounceRegister, AnnounceAnswer, ResultTimerFires, TimeoutAborts,
         DeltaDone, ReaderEndsRun, ReaderExits, TeardownStep, TeardownCancel, TeardownUnregister,
         TeardownRelease, TeardownAnswer, StopperAborts, registry
<1>8. Born(r)'
  BY <1>1, <1>3 DEF BirthsStay
<1>9. NothingUnborn'
  BY <1>2, <1>3, <1>7, <1>8, Unborn
<1>10. NamedAreBorn'
  BY <1>1, <1>3, <1>4, <1>5, <1>6, Named, ConstantsAssumption
<1> QED BY <1>9, <1>10

LEMMA BornBridgeStep == ASSUME TypeOK, BornInv, BridgeStep PROVE BornInv'
<1> USE DEF BornInv
<1>1. ASSUME NEW c \in Calls, NEW r \in Runs, CallLookup(c, r) PROVE BornInv'
  <2>1. UNCHANGED <<run, timedOut, announcer, reader, teardown, turn, stopping, registry>> /\ Born(r)
    BY <1>1 DEF CallLookup, Born
  <2>2. \A k \in Calls : call'[k].run = call[k].run \/ call'[k].run = r
    BY <1>1 DEF CallLookup, CallBecomes, TypeOK, Call
  <2>3. NamedAreBorn'
    BY <2>1, <2>2 DEF NamedAreBorn, Born, registry
  <2> QED BY <2>1, <2>3, IdleWhenSame, Unborn DEF registry
<1>2. ASSUME NEW c \in Calls, CallCancelled(c) PROVE BornInv'
  <2>1. NoNewCaller
    BY <1>2, CallFields DEF CallCancelled
  <2> QED BY <1>2, <2>1, IdleWhenSame, Named, Unborn DEF CallCancelled, registry
<1>3. ASSUME NEW r \in Runs, NEW d \in Deltas, ReadDelta(r, d) PROVE BornInv'
  <2> DEFINE q == run[r].waiter
  <2>1. UNCHANGED <<timedOut, announcer, teardown, call, stopping, registry>> /\ Born(r)
    BY <1>3 DEF ReadDelta, Born
  <2>2. RunsIdle
    BY <1>3, <2>1, IdleElsewhere, IdleWhenSame DEF ReadDelta
  <2>3. BirthsStay
    BY <1>3 DEF ReadDelta, ReaderBecomes, TypeOK, Reader, BirthsStay, Born
  <2>4. q # None => q \in Turns
    BY DEF TypeOK, Run
  <2>5. NoNewRun
    BY <1>3, <2>4, TurnFields, IdleWhenSame DEF ReadDelta
  <2> QED BY <2>1, <2>2, <2>3, <2>5, IdleWhenSame, Named, Unborn DEF registry
<1>4. ASSUME NEW r \in Runs, StreamEnds(r) PROVE BornInv'
  <2>1. BirthsStay
    BY <1>4 DEF StreamEnds, ReaderBecomes, TypeOK, Reader, BirthsStay, Born
  <2> QED BY <1>4, <2>1, IdleWhenSame, Named, Unborn DEF StreamEnds, registry
<1>5. CASE AbortParkedToolRuns \/ \E p \in Processes : FailToolRunsForProcess(p)
  <2>1. /\ UNCHANGED <<run, timedOut, announcer, reader, teardown, turn, call, registry>>
        /\ stopping' \subseteq stopping \cup byAgentID
    BY <1>5 DEF AbortParkedToolRuns, FailToolRunsForProcess
  <2> QED BY <2>1, IdleWhenSame, Named, Unborn DEF registry
<1> QED BY <1>1, <1>2, <1>3, <1>4, <1>5 DEF BridgeStep

LEMMA BornNext == ASSUME TypeOK, BornInv, [Next]_vars PROVE BornInv'
<1>1. CASE Next
  BY <1>1, BornTurnStep, BornClientStep, BornCallStep, BornRunStep, BornBridgeStep DEF Next
<1>2. CASE UNCHANGED vars
  BY <1>2, IdleWhenSame, Named, Unborn DEF vars, registry, BornInv
<1> QED BY <1>1, <1>2

LEMMA BornInit == Init => BornInv
BY ConstantsAssumption DEF Init, BornInv, NothingUnborn, NamedAreBorn, Born

Ended == {"final", "failed", "timeout"}

Over(r) == r \in Runs /\ teardown[r].stage = "done"

\* What a teardown has done at each stage.
TeardownFits(r) ==
  /\ teardown[r].stage \in {"none", "marked", "cancelled", "unregistered"} => teardown[r].releases = 0
  /\ teardown[r].stage \in {"released", "done"} => teardown[r].releases = 1
  /\ teardown[r].stage \in {"unregistered", "released", "done"} => r \notin byAgentID
  /\ teardown[r].answer.kind \in Ended \cup {"none"}
  /\ announcer[r].answer.kind \in {"none", "calls"}

\* What the answer of a turn tells of its run.
TurnFits(q) ==
  /\ turn[q].pc \notin {"idle", "fresh", "returned"} => turn[q].run \in Runs
  /\ turn[q].pc \in Early => turn[q].answer.kind = "none"
  /\ turn[q].answer.kind \in Ended => Over(turn[q].run)
  /\ turn[q].answer.kind = "cancelled" =>
       \/ turn[q].pc = "aborting"
       \/ turn[q].pc \in {"draining", "returned"} /\ Over(turn[q].run)

TeardownsFit == \A r \in Runs : TeardownFits(r)
TurnsFit == \A q \in Turns : TurnFits(q)

LEMMA TeardownBegins ==
  ASSUME TypeOK, TeardownsFit, NEW r, NEW answer, Begin(r, answer),
         answer.kind \in Ended \cup {"none"}, UNCHANGED <<announcer, byAgentID>>
  PROVE  TeardownsFit'
<1>1. ASSUME NEW p \in Runs PROVE TeardownFits(p)'
  <2>1. CASE p # r
    BY <2>1 DEF TypeOK, Begin, TeardownBecomes, TeardownsFit, TeardownFits
  <2>2. CASE p = r
    <3>1. teardown[r] \in Teardown /\ teardown[r].releases = 0
      BY <2>2 DEF TypeOK, Begin, TeardownsFit, TeardownFits
    <3>2. teardown'[r] = [teardown[r] EXCEPT !.stage = "marked", !.waiter = run[r].waiter,
                                             !.answer = answer]
      BY <2>2 DEF TypeOK, Begin, TeardownBecomes
    <3>3. /\ teardown'[r].stage = "marked" /\ teardown'[r].releases = 0
          /\ teardown'[r].answer = answer
      BY <3>1, <3>2 DEF Teardown
    <3> QED BY <2>2, <3>3 DEF TeardownsFit, TeardownFits
  <2> QED BY <2>1, <2>2
<1> QED BY <1>1 DEF TeardownsFit

LEMMA TeardownsSame ==
  ASSUME TeardownsFit, UNCHANGED <<teardown, announcer>>, byAgentID' \subseteq byAgentID
  PROVE  TeardownsFit'
BY DEF TeardownsFit, TeardownFits

LEMMA FailureKind == \A kind : Failure(kind).kind = kind
BY DEF Failure

LEMMA TeardownNext == ASSUME TypeOK, BornInv, TeardownsFit, [Next]_vars PROVE TeardownsFit'
<1> USE DEF registry
<1>1. ASSUME NEW q \in Turns, TurnStep(q) PROVE TeardownsFit'
  <2>1. CASE TurnAborts(q)
    BY <2>1, TeardownBegins, FailureKind DEF TurnAborts, Ended
  <2>2. CASE UNCHANGED <<teardown, announcer, byAgentID>>
    BY <2>2, TeardownsSame
  <2> QED BY <1>1, <2>1, <2>2
     DEF TurnStep, AttachStart, OpenSend, SendFails, AttachResume, Deliver, DeliverReply, Detach,
         ReceiveTurn, TurnAborted, ReturnTurn
<1>2. ASSUME NEW q \in Turns, ClientStep(q) PROVE TeardownsFit'
  <2>1. ASSUME NEW r \in Runs, StartRun(q, r) PROVE TeardownsFit'
    <3>1. teardown[r].stage = "none"
      BY <2>1 DEF StartRun, BornInv, NothingUnborn, Born
    <3> QED BY <2>1, <3>1 DEF StartRun, TeardownsFit, TeardownFits
  <2>2. CASE UNCHANGED <<teardown, announcer, byAgentID>>
    BY <2>2, TeardownsSame
  <2> QED BY <1>2, <2>1, <2>2 DEF ClientStep, LookupResume, CancelTurn
<1>3. ASSUME NEW c \in Calls, CallStep(c) PROVE TeardownsFit'
  <2>1. CASE CallAborts(c)
    BY <2>1, TeardownBegins, FailureKind DEF CallAborts, Ended
  <2>2. CASE UNCHANGED <<teardown, announcer, byAgentID>>
    BY <2>2, TeardownsSame
  <2> QED BY <1>3, <2>1, <2>2 DEF CallStep, CallPark, CallReplied, CallRunDone, CallAborted
<1>4. ASSUME NEW r \in Runs, RunStep(r) PROVE TeardownsFit'
  <2>0. teardown[r] \in Teardown /\ announcer[r] \in Announcer
    BY DEF TypeOK
  <2>1. CASE TimeoutAborts(r) \/ ReaderEndsRun(r) \/ StopperAborts(r)
    BY <2>1, TeardownBegins, FailureKind DEF TimeoutAborts, ReaderEndsRun, StopperAborts, Ended
  <2>2. CASE AnnounceTake(r) \/ AnnounceRegister(r) \/ AnnounceAnswer(r)
    <3>1. UNCHANGED <<teardown, byAgentID>>
      BY <2>2 DEF AnnounceTake, AnnounceRegister, AnnounceAnswer
    <3>2. announcer'[r].answer.kind \in {"none", "calls"}
      BY <2>0, <2>2 DEF AnnounceTake, AnnounceRegister, AnnounceAnswer, AnnouncerBecomes, TypeOK,
                        Announcer, TeardownsFit, TeardownFits
    <3>3. \A p \in Runs : p # r => announcer'[p] = announcer[p]
      BY <2>2 DEF AnnounceTake, AnnounceRegister, AnnounceAnswer, AnnouncerBecomes, TypeOK
    <3> QED BY <3>1, <3>2, <3>3 DEF TeardownsFit, TeardownFits
  <2>3. CASE TeardownStep(r)
    <3>1. UNCHANGED announcer /\ byAgentID' \subseteq byAgentID
      BY <2>3 DEF TeardownStep, TeardownCancel, TeardownUnregister, TeardownRelease, TeardownAnswer
    <3>2. \A p \in Runs : p # r => teardown'[p] = teardown[p]
      BY <2>3 DEF TeardownStep, TeardownCancel, TeardownUnregister, TeardownRelease, TeardownAnswer,
                  TeardownAt, TeardownBecomes, TypeOK
    <3>3. TeardownFits(r)
      BY DEF TeardownsFit
    <3>4. /\ \A stage : LET d == [teardown[r] EXCEPT !.stage = stage]
                        IN d.stage = stage /\ d.releases = teardown[r].releases
                           /\ d.answer = teardown[r].answer
          /\ LET d == [teardown[r] EXCEPT !.stage = "released", !.releases = @ + 1]
             IN d.stage = "released" /\ d.releases = teardown[r].releases + 1
                /\ d.answer = teardown[r].answer
      BY <2>0 DEF Teardown
    <3>5. \A stage : TeardownAt(r, stage) =>
            /\ teardown'[r].stage = stage /\ teardown'[r].releases = teardown[r].releases
            /\ teardown'[r].answer = teardown[r].answer
      BY <3>4 DEF TeardownAt, TeardownBecomes, TypeOK
    <3>6. ASSUME TeardownCancel(r) \/ TeardownUnregister(r) PROVE TeardownFits(r)'
      BY <3>1, <3>3, <3>5, <3>6 DEF TeardownCancel, TeardownUnregister, TeardownFits
    <3>7. ASSUME TeardownRelease(r) PROVE TeardownFits(r)'
      <4>1. /\ teardown'[r].stage = "released" /\ teardown'[r].releases = teardown[r].releases + 1
            /\ teardown'[r].answer = teardown[r].answer
        BY <3>4, <3>7 DEF TeardownRelease, TeardownBecomes, TypeOK
      <4> QED BY <3>1, <3>3, <3>7, <4>1 DEF TeardownRelease, TeardownFits
    <3>8. ASSUME TeardownAnswer(r) PROVE TeardownFits(r)'
      BY <3>1, <3>3, <3>5, <3>8 DEF TeardownAnswer, TeardownFits
    <3>9. TeardownFits(r)'
      BY <2>3, <3>6, <3>7, <3>8 DEF TeardownStep
    <3> QED BY <3>1, <3>2, <3>9 DEF TeardownsFit, TeardownFits
  <2>4. CASE UNCHANGED <<teardown, announcer, byAgentID>>
    BY <2>4, TeardownsSame
  <2> QED BY <1>4, <2>1, <2>2, <2>3, <2>4 DEF RunStep, ResultTimerFires, DeltaDone, ReaderExits
<1>5. CASE BridgeStep
  <2>1. UNCHANGED <<teardown, announcer, byAgentID>>
    BY <1>5 DEF BridgeStep, CallLookup, CallCancelled, ReadDelta, StreamEnds, AbortParkedToolRuns,
                FailToolRunsForProcess
  <2> QED BY <2>1, TeardownsSame
<1>6. CASE UNCHANGED vars
  BY <1>6, TeardownsSame DEF vars
<1> QED BY <1>1, <1>2, <1>3, <1>4, <1>5, <1>6 DEF Next

OversStay == \A r \in Runs : Over(r) => Over(r)'

LEMMA BeginOver == ASSUME TypeOK, NEW r, NEW answer, Begin(r, answer) PROVE OversStay
BY DEF TypeOK, Begin, TeardownBecomes, OversStay, Over

LEMMA OverNext == ASSUME TypeOK, [Next]_vars PROVE OversStay
<1>1. CASE UNCHANGED teardown
  BY <1>1 DEF OversStay, Over
<1>2. ASSUME NEW r, NEW answer, Begin(r, answer) PROVE OversStay
  BY <1>2, BeginOver
<1>3. ASSUME NEW r \in Runs, TeardownStep(r) PROVE OversStay
  <2>1. teardown[r].stage # "done"
    BY <1>3 DEF TeardownStep, TeardownCancel, TeardownUnregister, TeardownRelease, TeardownAnswer
  <2>2. \A p \in Runs : p # r => teardown'[p] = teardown[p]
    BY <1>3 DEF TeardownStep, TeardownCancel, TeardownUnregister, TeardownRelease, TeardownAnswer,
                TeardownAt, TeardownBecomes, TypeOK
  <2> QED BY <2>1, <2>2 DEF OversStay, Over
<1>4. ASSUME NEW q \in Turns, TurnStep(q) \/ ClientStep(q) PROVE OversStay
  BY <1>1, <1>2, <1>4
     DEF TurnStep, AttachStart, OpenSend, SendFails, AttachResume, Deliver, DeliverReply, Detach,
         ReceiveTurn, TurnAborts, TurnAborted, ReturnTurn, ClientStep, StartRun, LookupResume, CancelTurn
<1>5. ASSUME NEW c \in Calls, CallStep(c) PROVE OversStay
  BY <1>1, <1>2, <1>5 DEF CallStep, CallPark, CallReplied, CallRunDone, CallAborted, CallAborts
<1>6. ASSUME NEW r \in Runs, RunStep(r) PROVE OversStay
  BY <1>1, <1>2, <1>3, <1>6
     DEF RunStep, AnnounceTake, AnnounceRegister, AnnounceAnswer, ResultTimerFires, TimeoutAborts,
         DeltaDone, ReaderEndsRun, ReaderExits, StopperAborts
<1>7. CASE BridgeStep
  BY <1>1, <1>7 DEF BridgeStep, CallLookup, CallCancelled, ReadDelta, StreamEnds,
                    AbortParkedToolRuns, FailToolRunsForProcess
<1>8. CASE UNCHANGED vars
  BY <1>1, <1>8 DEF vars
<1> QED BY <1>4, <1>5, <1>6, <1>7, <1>8 DEF Next

\* A step that changes one turn.
OnlyTurn(q) == \A p \in Turns : p # q => turn'[p] = turn[p]

LEMMA OneTurnFits ==
  ASSUME TurnsFit, OversStay, NEW q \in Turns, OnlyTurn(q), TurnFits(q)'
  PROVE  TurnsFit'
BY DEF TurnsFit, TurnFits, OnlyTurn, OversStay, Over

LEMMA NoTurnFits ==
  ASSUME TurnsFit, OversStay, UNCHANGED turn
  PROVE  TurnsFit'
BY DEF TurnsFit, TurnFits, OversStay, Over

LEMMA TurnAfter ==
  ASSUME TypeOK, NEW q \in Turns
  PROVE  /\ \A t : TurnBecomes(q, t) => OnlyTurn(q) /\ turn'[q] = t
         /\ \A pc : TurnAt(q, pc) => OnlyTurn(q) /\
              turn'[q].pc = pc /\ turn'[q].run = turn[q].run /\ turn'[q].answer = turn[q].answer
         /\ \A kind : Reject(q, kind) => OnlyTurn(q) /\
              turn'[q].pc = "returned" /\ turn'[q].run = turn[q].run /\ turn'[q].answer.kind = kind
         /\ \A answer : Send(q, answer) => OnlyTurn(q) /\
              turn'[q].pc = turn[q].pc /\ turn'[q].run = turn[q].run /\ turn'[q].answer = answer
<1>1. turn[q] \in Turn
  BY DEF TypeOK
<1>2. ASSUME NEW t, TurnBecomes(q, t) PROVE OnlyTurn(q) /\ turn'[q] = t
  BY <1>2 DEF TypeOK, TurnBecomes, OnlyTurn
<1>3. ASSUME NEW pc, TurnAt(q, pc)
      PROVE  /\ OnlyTurn(q)
             /\ turn'[q].pc = pc /\ turn'[q].run = turn[q].run /\ turn'[q].answer = turn[q].answer
  <2> DEFINE t == [turn[q] EXCEPT !.pc = pc]
  <2>1. t.pc = pc /\ t.run = turn[q].run /\ t.answer = turn[q].answer
    BY <1>1 DEF Turn
  <2>2. TurnBecomes(q, t)
    BY <1>3 DEF TurnAt
  <2> QED BY <1>2, <2>1, <2>2
<1>4. ASSUME NEW kind, Reject(q, kind)
      PROVE  /\ OnlyTurn(q)
             /\ turn'[q].pc = "returned" /\ turn'[q].run = turn[q].run /\ turn'[q].answer.kind = kind
  <2> DEFINE t == [turn[q] EXCEPT !.pc = "returned", !.answer = Failure(kind)]
  <2>1. t.pc = "returned" /\ t.run = turn[q].run /\ t.answer = Failure(kind)
    BY <1>1 DEF Turn
  <2>2. TurnBecomes(q, t)
    BY <1>4 DEF Reject
  <2> QED BY <1>2, <2>1, <2>2, FailureKind
<1>5. ASSUME NEW answer, Send(q, answer)
      PROVE  /\ OnlyTurn(q)
             /\ turn'[q].pc = turn[q].pc /\ turn'[q].run = turn[q].run /\ turn'[q].answer = answer
  <2> DEFINE t == [turn[q] EXCEPT !.answer = answer, !.sends = @ + 1]
  <2>1. t.pc = turn[q].pc /\ t.run = turn[q].run /\ t.answer = answer
    BY <1>1 DEF Turn
  <2>2. TurnBecomes(q, t)
    BY <1>5 DEF Send
  <2> QED BY <1>2, <2>1, <2>2
<1> QED BY <1>2, <1>3, <1>4, <1>5

LEMMA FitTurnStep ==
  ASSUME TypeOK, TurnsFit, OversStay, NEW q \in Turns, TurnStep(q)
  PROVE  TurnsFit'
<1>1. TurnFits(q)
  BY DEF TurnsFit
<1>3. ASSUME NEW pc, TurnAt(q, pc), pc \in TurnPcs \ Early, pc # "returned",
             turn[q].pc \notin {"idle", "fresh", "returned"},
             turn[q].answer.kind = "cancelled" =>
               pc = "aborting" \/ (pc = "draining" /\ Over(turn[q].run))
      PROVE  TurnsFit'
  <2>1. /\ OnlyTurn(q)
        /\ turn'[q].pc = pc /\ turn'[q].run = turn[q].run /\ turn'[q].answer = turn[q].answer
    BY <1>3, TurnAfter
  <2>2. Over(turn[q].run) => turn[q].run \in Runs /\ teardown'[turn[q].run].stage = "done"
    BY DEF OversStay, Over
  <2>3. TurnFits(q)'
    BY <1>1, <1>3, <2>1, <2>2 DEF TurnFits, Early, OversStay, Over
  <2> QED BY <2>1, <2>3, OneTurnFits
<1>4. ASSUME NEW kind, Reject(q, kind), kind = "rejected" \/ (kind = "failed" /\ Over(turn[q].run))
      PROVE  TurnsFit'
  <2>1. /\ OnlyTurn(q)
        /\ turn'[q].pc = "returned" /\ turn'[q].run = turn[q].run /\ turn'[q].answer.kind = kind
    BY <1>4, TurnAfter
  <2>2. Over(turn[q].run) => turn[q].run \in Runs /\ teardown'[turn[q].run].stage = "done"
    BY DEF OversStay, Over
  <2>3. TurnFits(q)'
    BY <1>4, <2>1, <2>2 DEF TurnFits, Early, Ended, OversStay, Over
  <2> QED BY <2>1, <2>3, OneTurnFits
<1>5. CASE \/ AttachStart(q) \/ OpenSend(q) \/ SendFails(q) \/ AttachResume(q) \/ Deliver(q)
           \/ DeliverReply(q) \/ Detach(q) \/ ReceiveTurn(q)
  <2>1. turn[q].answer.kind # "cancelled" \/ Reject(q, "rejected")
    BY <1>1, <1>5 DEF AttachStart, OpenSend, SendFails, AttachResume, Deliver, DeliverReply, Detach,
                      ReceiveTurn, TurnFits
  <2> QED BY <1>3, <1>4, <1>5, <2>1
          DEF AttachStart, OpenSend, SendFails, AttachResume, Deliver, DeliverReply, Detach,
              ReceiveTurn, TurnPcs, Early
<1>6. CASE TurnAborts(q)
  BY <1>6, NoTurnFits DEF TurnAborts
<1>7. CASE TurnAborted(q)
  <2>1. Over(turn[q].run)
    BY <1>1, <1>7 DEF TurnAborted, TurnFits, Over
  <2> QED BY <1>3, <1>4, <1>7, <2>1 DEF TurnAborted, TurnPcs, Early
<1>8. CASE ReturnTurn(q)
  <2> DEFINE t == [turn[q] EXCEPT !.pc = "returned", !.waited = TRUE]
  <2>1. t.pc = "returned" /\ t.run = turn[q].run /\ t.answer = turn[q].answer
    BY DEF TypeOK, Turn
  <2>2. TurnBecomes(q, t) /\ turn[q].pc = "draining"
    BY <1>8 DEF ReturnTurn
  <2>3. OnlyTurn(q) /\ turn'[q] = t
    BY <2>2, TurnAfter
  <2>4. Over(turn[q].run) => turn[q].run \in Runs /\ teardown'[turn[q].run].stage = "done"
    BY DEF OversStay, Over
  <2>5. TurnFits(q)'
    BY <1>1, <2>1, <2>2, <2>3, <2>4 DEF TurnFits, Early, OversStay, Over
  <2> QED BY <2>3, <2>5, OneTurnFits
<1> QED BY <1>5, <1>6, <1>7, <1>8 DEF TurnStep

LEMMA FitClientStep ==
  ASSUME TypeOK, BornInv, TurnsFit, OversStay, NEW q \in Turns, ClientStep(q)
  PROVE  TurnsFit'
<1>1. TurnFits(q)
  BY DEF TurnsFit
<1>a. turn[q] \in Turn
  BY DEF TypeOK
<1>b. \A t : TurnBecomes(q, t) => OnlyTurn(q) /\ turn'[q] = t
  BY TurnAfter
<1>3. ASSUME NEW r \in Runs, StartRun(q, r) PROVE TurnsFit'
  <2> DEFINE t == [turn[q] EXCEPT !.pc = "registered", !.run = r]
  <2>1. t.pc = "registered" /\ t.run = r /\ t.answer = turn[q].answer
    BY <1>a DEF Turn
  <2>2. TurnBecomes(q, t) /\ turn[q].pc \in Early
    BY <1>3 DEF StartRun, Early
  <2>3. TurnFits(q)'
    BY <1>1, <1>b, <2>1, <2>2 DEF TurnFits, Early, Ended
  <2> QED BY <1>b, <2>2, <2>3, OneTurnFits
<1>4. ASSUME NEW ids \in SUBSET Known, LookupResume(q, ids) PROVE TurnsFit'
  <2>1. turn[q].answer.kind = "none"
    BY <1>1, <1>4 DEF LookupResume, TurnFits, Early
  <2>2. CASE TurnBecomes(q, [turn[q] EXCEPT !.pc = "fresh", !.ids = ids])
    <3> DEFINE t == [turn[q] EXCEPT !.pc = "fresh", !.ids = ids]
    <3>a. t.pc = "fresh" /\ t.answer = turn[q].answer
      BY <1>a DEF Turn
    <3>b. TurnBecomes(q, t)
      BY <2>2
    <3>1. OnlyTurn(q) /\ turn'[q].pc = "fresh" /\ turn'[q].answer = turn[q].answer
      <4> HIDE DEF t
      <4> QED BY <1>b, <3>a, <3>b
    <3>2. TurnFits(q)'
      BY <2>1, <3>1 DEF TurnFits, Early, Ended
    <3> QED BY <3>1, <3>2, OneTurnFits
  <2>3. CASE Reject(q, "rejected")
    <3>1. OnlyTurn(q) /\ turn'[q].pc = "returned" /\ turn'[q].answer.kind = "rejected"
      BY <2>3, TurnAfter
    <3>2. TurnFits(q)'
      BY <3>1 DEF TurnFits, Early, Ended
    <3> QED BY <3>1, <3>2, OneTurnFits
  <2>4. ASSUME NEW r \in Owners(ids),
               TurnBecomes(q, [turn[q] EXCEPT !.pc = "found", !.ids = ids, !.run = r])
        PROVE  TurnsFit'
    <3>1. r \in Runs
      BY KnownCalls DEF Owners, TypeOK
    <3> DEFINE t == [turn[q] EXCEPT !.pc = "found", !.ids = ids, !.run = r]
    <3>a. t.pc = "found" /\ t.answer = turn[q].answer /\ t.run = r
      BY <1>a, <3>1 DEF Turn
    <3>b. TurnBecomes(q, t)
      BY <2>4
    <3>2. OnlyTurn(q) /\ turn'[q].pc = "found" /\ turn'[q].answer = turn[q].answer /\ turn'[q].run = r
      <4> HIDE DEF t
      <4> QED BY <1>b, <3>a, <3>b
    <3>3. TurnFits(q)'
      BY <2>1, <3>1, <3>2 DEF TurnFits, Early, Ended
    <3> QED BY <3>2, <3>3, OneTurnFits
  <2> QED BY <1>4, <2>2, <2>3, <2>4 DEF LookupResume
<1>5. CASE CancelTurn(q)
  <2>1. turn[q].pc = "waiting" /\ turn[q].answer.kind # "cancelled" /\ turn[q].run \in Runs
    BY <1>1, <1>5 DEF CancelTurn, TurnFits
  <2>2. CASE TurnAt(q, "handover")
    <3>1. /\ OnlyTurn(q)
          /\ turn'[q].pc = "handover" /\ turn'[q].run = turn[q].run /\ turn'[q].answer = turn[q].answer
      BY <2>2, TurnAfter
    <3>2. Over(turn[q].run) => turn[q].run \in Runs /\ teardown'[turn[q].run].stage = "done"
      BY DEF OversStay, Over
    <3>3. TurnFits(q)'
      BY <1>1, <2>1, <3>1, <3>2 DEF TurnFits, Early, Over
    <3> QED BY <3>1, <3>3, OneTurnFits
  <2>3. CASE TurnBecomes(q, [turn[q] EXCEPT !.pc = "aborting", !.answer = Failure("cancelled")])
    <3> DEFINE t == [turn[q] EXCEPT !.pc = "aborting", !.answer = Failure("cancelled")]
    <3>a. t.pc = "aborting" /\ t.run = turn[q].run /\ t.answer = Failure("cancelled")
      BY <1>a DEF Turn
    <3>b. TurnBecomes(q, t)
      BY <2>3
    <3>1. /\ OnlyTurn(q) /\ turn'[q].pc = "aborting" /\ turn'[q].run = turn[q].run
          /\ turn'[q].answer.kind = "cancelled"
      <4> HIDE DEF t
      <4> QED BY <1>b, <3>a, <3>b, FailureKind
    <3>2. TurnFits(q)'
      BY <2>1, <3>1 DEF TurnFits, Early, Ended
    <3> QED BY <3>1, <3>2, OneTurnFits
  <2> QED BY <1>5, <2>2, <2>3 DEF CancelTurn
<1> QED BY <1>3, <1>4, <1>5 DEF ClientStep

LEMMA FitSend ==
  ASSUME TypeOK, HolderInv, TurnsFit, OversStay, NEW r \in Runs, NEW q, NEW answer, Send(q, answer),
         q \in Turns => Held(r, q),
         answer.kind \in {"none", "calls"} \/ (answer.kind \in Ended /\ Over(r)')
  PROVE  TurnsFit'
<1>1. CASE q \notin Turns
  <2>1. UNCHANGED turn
    BY <1>1 DEF TypeOK, Send, TurnBecomes
  <2> QED BY <2>1, NoTurnFits
<1>2. CASE q \in Turns
  <2>1. /\ OnlyTurn(q)
        /\ turn'[q].pc = turn[q].pc /\ turn'[q].run = turn[q].run /\ turn'[q].answer = answer
    BY <1>2, TurnAfter
  <2>2. turn[q].run = r /\ turn[q].pc \notin Early
    BY <1>2 DEF HolderInv, HeldUnanswered
  <2>3. TurnFits(q)'
    BY <2>1, <2>2 DEF TurnFits, Ended, Over
  <2> QED BY <1>2, <2>1, <2>3, OneTurnFits
<1> QED BY <1>1, <1>2

LEMMA FitRunStep ==
  ASSUME TypeOK, HolderInv, TeardownsFit, TurnsFit, OversStay, NEW r \in Runs, RunStep(r)
  PROVE  TurnsFit'
<1>0. TeardownFits(r)
  BY DEF TeardownsFit
<1>1. CASE AnnounceAnswer(r)
  <2>0. PICK q : q = announcer[r].waiter
    OBVIOUS
  <2>1. Send(q, announcer[r].answer) /\ Held(r, q)
    BY <1>1, <2>0 DEF AnnounceAnswer, Held, HeldByAnnouncer
  <2>2. announcer[r].answer.kind \in {"none", "calls"}
    BY <1>0 DEF TeardownFits
  <2> QED BY <2>1, <2>2, FitSend
<1>2. CASE TeardownAnswer(r)
  <2>0. PICK q : q = teardown[r].waiter
    OBVIOUS
  <2>1. CASE UNCHANGED turn
    BY <2>1, NoTurnFits
  <2>2. CASE Send(q, teardown[r].answer)
    <3>1. Held(r, q)
      BY <1>2, <2>0 DEF TeardownAnswer, Held, HeldByTeardown
    <3>2. teardown'[r].stage = "done"
      BY <1>2 DEF TypeOK, TeardownAnswer, TeardownAt, TeardownBecomes, Teardown
    <3>3. Over(r)'
      BY <3>2 DEF Over
    <3>4. teardown[r].answer.kind \in Ended \cup {"none"}
      BY <1>0 DEF TeardownFits
    <3> QED BY <2>2, <3>1, <3>3, <3>4, FitSend
  <2> QED BY <1>2, <2>0, <2>1, <2>2 DEF TeardownAnswer
<1>3. CASE UNCHANGED turn
  BY <1>3, NoTurnFits
<1> QED BY <1>1, <1>2, <1>3
     DEF RunStep, AnnounceTake, AnnounceRegister, ResultTimerFires, TimeoutAborts, DeltaDone,
         ReaderEndsRun, ReaderExits, TeardownStep, TeardownCancel, TeardownUnregister,
         TeardownRelease, StopperAborts

LEMMA FitBridgeStep == ASSUME TypeOK, TurnsFit, OversStay, BridgeStep PROVE TurnsFit'
<1>1. ASSUME NEW r \in Runs, NEW d \in Deltas, ReadDelta(r, d) PROVE TurnsFit'
  <2> DEFINE q == run[r].waiter
             t == [turn[q] EXCEPT !.streamed = @ \cup {d}]
  <2>1. CASE UNCHANGED turn
    BY <2>1, NoTurnFits
  <2>2. CASE q \in Turns /\ TurnBecomes(q, t)
    <3>1. turn'[q] = t
      BY <2>2 DEF TypeOK, TurnBecomes
    <3>2. t.pc = turn[q].pc /\ t.run = turn[q].run /\ t.answer = turn[q].answer
      BY <2>2 DEF TypeOK, Turn
    <3>3. ASSUME NEW p \in Turns PROVE TurnFits(p)'
      <4>1. turn'[p].pc = turn[p].pc /\ turn'[p].run = turn[p].run /\ turn'[p].answer = turn[p].answer
        BY <2>2, <3>1, <3>2 DEF TypeOK, TurnBecomes
      <4> QED BY <4>1 DEF TurnsFit, TurnFits, OversStay, Over
    <3> QED BY <3>3 DEF TurnsFit
  <2>3. q # None => q \in Turns
    BY DEF TypeOK, Run
  <2> QED BY <1>1, <2>1, <2>2, <2>3 DEF ReadDelta
<1>2. CASE UNCHANGED turn
  BY <1>2, NoTurnFits
<1> QED BY <1>1, <1>2 DEF BridgeStep, CallLookup, CallCancelled, StreamEnds, AbortParkedToolRuns,
                          FailToolRunsForProcess

EndInv == BornInv /\ TeardownsFit /\ TurnsFit

LEMMA EndNext == ASSUME TypeOK, HolderInv, EndInv, [Next]_vars PROVE EndInv'
<1> USE DEF EndInv
<1>1. BornInv' /\ TeardownsFit' /\ OversStay
  BY BornNext, TeardownNext, OverNext
<1>2. ASSUME NEW c \in Calls, CallStep(c) PROVE TurnsFit'
  BY <1>1, <1>2, NoTurnFits DEF CallStep, CallPark, CallReplied, CallRunDone, CallAborts, CallAborted
<1>3. CASE UNCHANGED vars
  BY <1>1, <1>3, NoTurnFits DEF vars
<1>4. TurnsFit'
  BY <1>1, <1>2, <1>3, FitTurnStep, FitClientStep, FitRunStep, FitBridgeStep DEF Next
<1> QED BY <1>1, <1>4

LEMMA EndInit == Init => EndInv
<1> SUFFICES ASSUME Init PROVE EndInv
  OBVIOUS
<1>1. TeardownsFit
  BY DEF Init, NoAnswer, TeardownsFit, TeardownFits, Ended
<1>2. TurnsFit
  BY DEF Init, NoAnswer, TurnsFit, TurnFits, Ended, Early
<1> QED BY <1>1, <1>2, BornInit DEF EndInv

\* A turn that returns because its run ended, or that ended it, finds nothing of it left: the
\* teardown unregisters the run and releases its agent, once, before anyone hears of its end.
THEOREM EndedTurnsLeaveNoRun == Spec => []EndedTurnLeavesNoRun
<1>1. TypeOK /\ EndInv => EndedTurnLeavesNoRun
  BY DEF EndInv, TurnsFit, TurnFits, TeardownsFit, TeardownFits, Over, Ended, EndedTurnLeavesNoRun
<1> QED BY <1>1, TypeInit, TypeNext, HolderInit, HolderNext, EndInit, EndNext, PTL DEF Spec

(***************************************************************************)
(* The batches of calls.  A call is fresh, announced, told to a turn,      *)
(* being replied to or replied to, and it is never in two places: the      *)
(* batches that turns hold have no call in common, and the batch a run     *)
(* announces is the one its next turn is told.                             *)
(***************************************************************************)

Awake(c) == call[c].pc \notin {"idle", "found"}
Batch(q) == turn[q].answer.batch
Live == {"none", "marked", "cancelled"}

RunBatches(r) ==
  /\ \A c \in run[r].fresh \cup run[r].announced :
       call[c].run = r /\ Awake(c) /\ call[c].reply = None
  /\ run[r].fresh \cap run[r].announced = {}
  /\ \A q \in Turns : /\ run[r].fresh \cap Batch(q) = {}
                      /\ run[r].announced \cap Batch(q) # {} => Batch(q) = run[r].announced
  /\ announcer[r].stage # "idle" =>
       /\ announcer[r].answer.batch = run[r].announced
       /\ run[r].announced # {}
       /\ \A q \in Turns : run[r].announced \cap Batch(q) = {}
  /\ teardown[r].answer.batch = {}
  /\ teardown[r].stage \in Live =>
       \A c \in run[r].announced : byExposedCallID[c] = r \/ announcer[r].stage = "taken"

ToldByReturned(ids) == \E p \in Turns : turn[p].pc = "returned" /\ Batch(p) = ids

Replying(q) ==
  /\ turn[q].ids # {} /\ ToldByReturned(turn[q].ids)
  /\ \A c \in turn[q].ids : call[c].run = turn[q].run /\ Awake(c) /\ call[c].reply = None
  /\ \A r \in Runs : turn[q].ids \cap (run[r].fresh \cup run[r].announced) = {}
  /\ \A p \in Turns : p # q /\ turn[p].pc = "replying" => turn[p].ids \cap turn[q].ids = {}

TurnBatches(q) ==
  /\ turn[q].sends = 0 => Batch(q) = {}
  /\ \A c \in Batch(q) : Awake(c)
  /\ \A p \in Turns : p # q => Batch(p) \cap Batch(q) = {}
  /\ turn[q].pc \in {"found", "delivering"} => turn[q].ids \subseteq Known
  /\ turn[q].pc = "replying" => Replying(q)

Replied(c) ==
  LET q == call[c].reply IN
  /\ q \in Turns /\ turn[q].pc \notin Early \cup {"delivering", "replying"}
  /\ turn[q].run = call[c].run
  /\ c \in turn[q].ids /\ ToldByReturned(turn[q].ids)
  /\ \A b \in turn[q].ids : call[b].reply = q

CallBatches(c) ==
  /\ call[c].pc \in {"idle", "found"} => call[c].reply = None
  /\ call[c].pc = "answered" => call[c].reply # None
  /\ call[c].reply # None => Replied(c)

BatchInv ==
  /\ \A r \in Runs : RunBatches(r)
  /\ \A q \in Turns : TurnBatches(q)
  /\ \A c \in Calls : CallBatches(c)

(* Steps that move no batch. *)

QuietRuns ==
  \A r \in Runs : run'[r].fresh = run[r].fresh /\ run'[r].announced = run[r].announced

QuietCalls ==
  \A c \in Calls : /\ call'[c].reply = call[c].reply
                   /\ Awake(c) => Awake(c)' /\ call'[c].run = call[c].run
                   /\ call'[c].pc = "answered" => call[c].reply # None

QuietTeardowns ==
  \A r \in Runs : /\ teardown'[r].answer.batch = {}
                  /\ teardown'[r].stage \in Live => teardown[r].stage \in Live

QuietNames ==
  \A r \in Runs : \A c \in run[r].announced :
    teardown'[r].stage \in Live /\ byExposedCallID[c] = r => byExposedCallID'[c] = r

QuietTurn(q) ==
  /\ turn'[q].sends = 0 => turn[q].sends = 0
  /\ turn[q].pc = "returned" => turn'[q].pc = "returned"
  /\ turn'[q].answer.batch = Batch(q) \/ (turn'[q].answer.batch = {} /\ turn[q].pc # "returned")
  /\ turn'[q].pc \in Early => turn[q].pc \in Early
  /\ turn'[q].pc = "replying" => turn[q].pc = "replying"
  /\ turn'[q].pc = "delivering" => turn[q].pc \in Early \cup {"delivering"}
  /\ turn[q].pc \notin Early => turn'[q].run = turn[q].run /\ turn'[q].ids = turn[q].ids
  /\ turn'[q].pc \in {"found", "delivering"} => turn'[q].ids \subseteq Known

QuietTurns == \A q \in Turns : QuietTurn(q)

LEMMA TurnQuiet ==
  ASSUME BatchInv, NEW q \in Turns, OnlyTurn(q), QuietTurn(q)
  PROVE  QuietTurns
BY DEF BatchInv, TurnBatches, QuietTurn, QuietTurns, OnlyTurn, Batch

LEMMA QuietWhenSame ==
  ASSUME BatchInv
  PROVE  /\ UNCHANGED run => QuietRuns
         /\ UNCHANGED call => QuietCalls
         /\ UNCHANGED teardown => QuietTeardowns
         /\ UNCHANGED byExposedCallID => QuietNames
         /\ UNCHANGED turn => QuietTurns
BY DEF BatchInv, RunBatches, TurnBatches, CallBatches, QuietRuns, QuietCalls, QuietTeardowns,
       QuietNames, QuietTurns, QuietTurn, Awake, Batch

LEMMA ToldStays ==
  ASSUME QuietTurns
  PROVE  /\ \A ids : ToldByReturned(ids) => ToldByReturned(ids)'
         /\ Known \subseteq Known'
<1>1. \A p \in Turns : turn[p].pc = "returned" => turn'[p].pc = "returned" /\ turn'[p].answer.batch = Batch(p)
  BY DEF QuietTurns, QuietTurn
<1>2. \A ids : ToldByReturned(ids) => ToldByReturned(ids)'
  BY <1>1 DEF ToldByReturned, Batch
<1>3. Known \subseteq Known'
  BY <1>1 DEF Known, Batch
<1> QED BY <1>2, <1>3

LEMMA QuietBatches ==
  ASSUME TypeOK, BatchInv, QuietRuns, QuietCalls, QuietTeardowns, QuietNames, QuietTurns,
         UNCHANGED announcer
  PROVE  BatchInv'
<1>0. \A q \in Turns : turn'[q].answer.batch = Batch(q) \/ turn'[q].answer.batch = {}
  BY DEF QuietTurns, QuietTurn
<1>a. \A r \in Runs : run[r].fresh \cup run[r].announced \subseteq Calls
  BY DEF TypeOK, Run
<1>b. \A q \in Turns : Batch(q) \subseteq Calls /\ turn[q].ids \subseteq Calls
  BY DEF TypeOK, Turn, Answer, Batch
<1>1. ASSUME NEW r \in Runs PROVE RunBatches(r)'
  <2>1. RunBatches(r)
    BY DEF BatchInv
  <2>2. \A c \in run'[r].fresh \cup run'[r].announced :
          call'[c].run = r /\ Awake(c)' /\ call'[c].reply = None
    BY <1>a, <2>1 DEF RunBatches, QuietRuns, QuietCalls
  <2>3. \A q \in Turns : /\ run'[r].fresh \cap Batch(q)' = {}
                         /\ run'[r].announced \cap Batch(q)' # {} => Batch(q)' = run'[r].announced
    BY <1>0, <2>1 DEF RunBatches, QuietRuns, Batch
  <2>4. announcer'[r].stage # "idle" =>
         /\ announcer'[r].answer.batch = run'[r].announced
         /\ run'[r].announced # {}
         /\ \A q \in Turns : run'[r].announced \cap Batch(q)' = {}
    BY <1>0, <2>1 DEF RunBatches, QuietRuns, Batch
  <2>5. teardown'[r].stage \in Live =>
          \A c \in run'[r].announced : byExposedCallID'[c] = r \/ announcer'[r].stage = "taken"
    BY <2>1 DEF RunBatches, QuietRuns, QuietTeardowns, QuietNames
  <2>6. run'[r].fresh \cap run'[r].announced = {}
    BY <2>1 DEF RunBatches, QuietRuns
  <2> QED BY <2>2, <2>3, <2>4, <2>5, <2>6 DEF RunBatches, QuietTeardowns
<1>2. ASSUME NEW q \in Turns PROVE TurnBatches(q)'
  <2>1. TurnBatches(q)
    BY DEF BatchInv
  <2>2. turn'[q].sends = 0 => Batch(q)' = {}
    BY <1>0, <2>1 DEF TurnBatches, QuietTurns, QuietTurn, Batch
  <2>3. \A c \in Batch(q)' : Awake(c)'
    BY <1>0, <1>b, <2>1 DEF TurnBatches, QuietCalls, Batch
  <2>4. \A p \in Turns : p # q => Batch(p)' \cap Batch(q)' = {}
    BY <1>0, <2>1 DEF TurnBatches, Batch
  <2>5. turn'[q].pc \in {"found", "delivering"} => turn'[q].ids \subseteq Known'
    BY ToldStays DEF QuietTurns, QuietTurn
  <2>6. turn'[q].pc = "replying" => Replying(q)'
    <3> SUFFICES ASSUME turn'[q].pc = "replying" PROVE Replying(q)'
      OBVIOUS
    <3>1. turn[q].pc = "replying" /\ turn'[q].ids = turn[q].ids /\ turn'[q].run = turn[q].run
      BY DEF QuietTurns, QuietTurn, Early
    <3>2. Replying(q)
      BY <2>1, <3>1 DEF TurnBatches
    <3>3. \A c \in turn'[q].ids : call'[c].run = turn'[q].run /\ Awake(c)' /\ call'[c].reply = None
      BY <1>b, <3>1, <3>2 DEF Replying, QuietCalls
    <3>4. \A r \in Runs : turn'[q].ids \cap (run'[r].fresh \cup run'[r].announced) = {}
      BY <3>1, <3>2 DEF Replying, QuietRuns
    <3>5. \A p \in Turns : p # q /\ turn'[p].pc = "replying" => turn'[p].ids \cap turn'[q].ids = {}
      BY <3>1, <3>2 DEF Replying, QuietTurns, QuietTurn, Early
    <3>6. turn'[q].ids # {} /\ ToldByReturned(turn[q].ids)'
      BY <3>1, <3>2, ToldStays DEF Replying
    <3> QED BY <3>1, <3>3, <3>4, <3>5, <3>6 DEF Replying, ToldByReturned
  <2> QED BY <2>2, <2>3, <2>4, <2>5, <2>6 DEF TurnBatches
<1>3. ASSUME NEW c \in Calls PROVE CallBatches(c)'
  <2> DEFINE q == call[c].reply
  <2>1. CallBatches(c) /\ call'[c].reply = q
    BY DEF BatchInv, QuietCalls
  <2>2. call'[c].pc \in {"idle", "found"} => call'[c].reply = None
    BY <2>1 DEF CallBatches, QuietCalls, Awake
  <2>3. call'[c].pc = "answered" => call'[c].reply # None
    BY <2>1 DEF QuietCalls
  <2>4. ASSUME q # None PROVE Replied(c)'
    <3>1. Replied(c) /\ Awake(c)
      BY <2>1, <2>4 DEF CallBatches, Awake
    <3>2. q \in Turns /\ turn[q].pc \notin Early /\ turn'[q].run = turn[q].run /\ turn'[q].ids = turn[q].ids
      BY <3>1 DEF Replied, QuietTurns, QuietTurn
    <3>3. turn'[q].pc \notin Early \cup {"delivering", "replying"}
      BY <3>1, <3>2 DEF Replied, QuietTurns, QuietTurn
    <3>4. turn'[q].run = call'[c].run
      BY <3>1, <3>2 DEF Replied, QuietCalls
    <3>5. \A b \in turn'[q].ids : call'[b].reply = q
      BY <1>b, <3>1, <3>2 DEF Replied, QuietCalls
    <3>6. \E p \in Turns : turn'[p].pc = "returned" /\ turn'[p].answer.batch = turn'[q].ids
      BY <3>1, <3>2 DEF Replied, QuietTurns, QuietTurn, ToldByReturned, Batch
    <3>7. c \in turn'[q].ids
      BY <3>1, <3>2 DEF Replied
    <3> QED BY <2>1, <3>2, <3>3, <3>4, <3>5, <3>6, <3>7 DEF Replied, ToldByReturned, Batch
  <2> QED BY <2>1, <2>2, <2>3, <2>4 DEF CallBatches
<1> QED BY <1>1, <1>2, <1>3 DEF BatchInv

\* What a step on one turn leaves as it was.
Kept(q) ==
  /\ turn'[q].run = turn[q].run /\ turn'[q].ids = turn[q].ids
  /\ turn'[q].streamed = turn[q].streamed /\ turn'[q].waited = turn[q].waited

LEMMA TurnAtKeeps ==
  ASSUME TypeOK, NEW q \in Turns, NEW pc, TurnAt(q, pc)
  PROVE  /\ OnlyTurn(q) /\ Kept(q) /\ turn'[q].pc = pc
         /\ turn'[q].answer = turn[q].answer /\ turn'[q].sends = turn[q].sends
<1> DEFINE t == [turn[q] EXCEPT !.pc = pc]
<1>1. /\ t.pc = pc /\ t.run = turn[q].run /\ t.ids = turn[q].ids /\ t.streamed = turn[q].streamed
      /\ t.waited = turn[q].waited /\ t.answer = turn[q].answer /\ t.sends = turn[q].sends
  BY DEF TypeOK, Turn
<1>2. TurnBecomes(q, t)
  BY DEF TurnAt
<1> HIDE DEF t
<1> QED BY <1>1, <1>2, TurnAfter DEF Kept

LEMMA RejectKeeps ==
  ASSUME TypeOK, NEW q \in Turns, NEW kind, Reject(q, kind)
  PROVE  /\ OnlyTurn(q) /\ Kept(q) /\ turn'[q].pc = "returned"
         /\ turn'[q].answer = Failure(kind) /\ turn'[q].sends = turn[q].sends
<1> DEFINE t == [turn[q] EXCEPT !.pc = "returned", !.answer = Failure(kind)]
<1>1. /\ t.pc = "returned" /\ t.run = turn[q].run /\ t.ids = turn[q].ids
      /\ t.streamed = turn[q].streamed
      /\ t.waited = turn[q].waited /\ t.answer = Failure(kind) /\ t.sends = turn[q].sends
  BY DEF TypeOK, Turn
<1>2. TurnBecomes(q, t)
  BY DEF Reject
<1> HIDE DEF t
<1> QED BY <1>1, <1>2, TurnAfter DEF Kept

LEMMA SendKeeps ==
  ASSUME TypeOK, NEW q \in Turns, NEW answer, Send(q, answer)
  PROVE  /\ OnlyTurn(q) /\ Kept(q) /\ turn'[q].pc = turn[q].pc
         /\ turn'[q].answer = answer /\ turn'[q].sends = turn[q].sends + 1
<1> DEFINE t == [turn[q] EXCEPT !.answer = answer, !.sends = @ + 1]
<1>1. /\ t.pc = turn[q].pc /\ t.run = turn[q].run /\ t.ids = turn[q].ids
      /\ t.streamed = turn[q].streamed
      /\ t.waited = turn[q].waited /\ t.answer = answer /\ t.sends = turn[q].sends + 1
  BY DEF TypeOK, Turn
<1>2. TurnBecomes(q, t)
  BY DEF Send
<1> HIDE DEF t
<1> QED BY <1>1, <1>2, TurnAfter DEF Kept

LEMMA FailureBatch == \A kind : Failure(kind).batch = {} /\ Failure(kind).text = {}
BY DEF Failure

LEMMA QuietAt ==
  ASSUME TypeOK, BatchInv, NEW q \in Turns, NEW pc, TurnAt(q, pc),
         pc \notin Early \cup {"replying"}, turn[q].pc # "returned",
         pc = "delivering" => turn[q].pc = "found"
  PROVE  QuietTurns
<1>1. /\ OnlyTurn(q) /\ Kept(q) /\ turn'[q].pc = pc
      /\ turn'[q].answer = turn[q].answer /\ turn'[q].sends = turn[q].sends
  BY TurnAtKeeps
<1>2. turn[q].pc = "found" => turn[q].ids \subseteq Known
  BY DEF BatchInv, TurnBatches
<1>3. QuietTurn(q)
  BY <1>1, <1>2 DEF QuietTurn, Kept, Early, Batch
<1> QED BY <1>1, <1>3, TurnQuiet

LEMMA QuietReject ==
  ASSUME TypeOK, BatchInv, NEW q \in Turns, NEW kind, Reject(q, kind), turn[q].pc # "returned"
  PROVE  QuietTurns
<1>1. /\ OnlyTurn(q) /\ Kept(q) /\ turn'[q].pc = "returned"
      /\ turn'[q].answer.batch = {} /\ turn'[q].sends = turn[q].sends
  BY RejectKeeps, FailureBatch
<1>2. QuietTurn(q)
  BY <1>1 DEF QuietTurn, Kept, Early
<1> QED BY <1>1, <1>2, TurnQuiet

LEMMA RunHelpersQuiet ==
  ASSUME NEW rr \in Run
  PROVE  /\ \A q : Attached(rr, q).fresh = rr.fresh /\ Attached(rr, q).announced = rr.announced
         /\ Finished(rr).fresh = rr.fresh /\ Finished(rr).announced = rr.announced
         /\ \A t : [rr EXCEPT !.timers = t].fresh = rr.fresh /\ [rr EXCEPT !.timers = t].announced = rr.announced
         /\ \A t : [rr EXCEPT !.text = t].fresh = rr.fresh /\ [rr EXCEPT !.text = t].announced = rr.announced
         /\ \A w : [rr EXCEPT !.waiter = w].fresh = rr.fresh /\ [rr EXCEPT !.waiter = w].announced = rr.announced
         /\ Delivered(rr).fresh = rr.fresh /\ Delivered(rr).announced = {}
         /\ Taken(rr).fresh = {} /\ Taken(rr).announced = rr.fresh
         /\ \A c : WithCall(rr, c).fresh = rr.fresh \cup {c} /\ WithCall(rr, c).announced = rr.announced
BY DEF Attached, Finished, Delivered, Taken, WithCall, Scheduled, Run

LEMMA OneRunQuiet ==
  ASSUME TypeOK, NEW r, NEW rr, RunBecomes(r, rr),
         r \in Runs => rr.fresh = run[r].fresh /\ rr.announced = run[r].announced
  PROVE  QuietRuns
BY DEF TypeOK, RunBecomes, QuietRuns

\* The beginning of a teardown.
LEMMA BatchBegins ==
  ASSUME TypeOK, BatchInv, NEW r, NEW answer, Begin(r, answer), answer.batch = {},
         UNCHANGED <<announcer, turn, call, byExposedCallID>>
  PROVE  BatchInv'
<1>1. QuietRuns
  BY RunHelpersQuiet, OneRunQuiet DEF TypeOK, Begin
<1>2. \A p \in Runs : p # r => teardown'[p] = teardown[p]
  BY DEF TypeOK, Begin, TeardownBecomes
<1>3. r \in Runs => teardown'[r].answer = answer /\ teardown[r].stage = "none"
  BY DEF TypeOK, Begin, TeardownBecomes, Teardown
<1>4. QuietTeardowns
  BY <1>2, <1>3 DEF QuietTeardowns, BatchInv, RunBatches, Live
<1>5. QuietNames
  BY DEF QuietNames
<1> QED BY <1>1, <1>4, <1>5, QuietWhenSame, QuietBatches

LEMMA BatchTurnStep ==
  ASSUME TypeOK, TurnsFit, BatchInv, NEW q \in Turns, TurnStep(q),
         ~DeliverReply(q), ~(Deliver(q) /\ MayDeliver(turn[q].run, turn[q].ids))
  PROVE  BatchInv'
<1> USE DEF registry
<1> DEFINE r == turn[q].run
<1>a. r \in Runs => run[r] \in Run
  BY DEF TypeOK
<1>1. CASE TurnAborts(q)
  BY <1>1, BatchBegins, FailureBatch DEF TurnAborts
<1>2. CASE AttachStart(q) \/ AttachResume(q)
  <2>1. UNCHANGED <<announcer, teardown, call, registry>>
    BY <1>2 DEF AttachStart, AttachResume
  <2>2. QuietRuns
    BY <1>a, <1>2, RunHelpersQuiet, OneRunQuiet, QuietWhenSame DEF AttachStart, AttachResume
  <2>3. QuietTurns
    <3>1. CASE AttachStart(q)
      <4>1. turn[q].pc = "registered" /\ (TurnAt(q, "attached") \/ TurnAt(q, "failing"))
        BY <3>1 DEF AttachStart
      <4> QED BY <4>1, QuietAt DEF Early
    <3>2. CASE AttachResume(q)
      <4>1. turn[q].pc = "found" /\ (TurnAt(q, "delivering") \/ Reject(q, "rejected"))
        BY <3>2 DEF AttachResume
      <4> QED BY <4>1, QuietAt, QuietReject DEF Early
    <3> QED BY <1>2, <3>1, <3>2
  <2> QED BY <2>1, <2>2, <2>3, QuietWhenSame, QuietBatches
<1>3. CASE Deliver(q) \/ OpenSend(q) \/ SendFails(q) \/ ReceiveTurn(q) \/ TurnAborted(q)
  <2>1. UNCHANGED <<run, announcer, teardown, call, registry>>
    BY <1>3 DEF Deliver, OpenSend, SendFails, ReceiveTurn, TurnAborted
  <2>2. QuietTurns
    BY <1>3, QuietAt, QuietReject DEF Deliver, OpenSend, SendFails, ReceiveTurn, TurnAborted, Early
  <2> QED BY <2>1, <2>2, QuietWhenSame, QuietBatches
<1>4. CASE Detach(q)
  <2>1. UNCHANGED <<announcer, teardown, call, registry>>
    BY <1>4 DEF Detach
  <2>2. QuietRuns
    <3> DEFINE rr == [run[r] EXCEPT !.waiter = IF @ = q THEN None ELSE @]
    <3>1. r \in Runs => rr.fresh = run[r].fresh /\ rr.announced = run[r].announced
      BY <1>a DEF Run
    <3> QED BY <1>4, <3>1, OneRunQuiet DEF Detach
  <2>3. QuietTurns
    BY <1>4, QuietReject DEF Detach
  <2> QED BY <2>1, <2>2, <2>3, QuietWhenSame, QuietBatches
<1>5. CASE ReturnTurn(q)
  <2> DEFINE t == [turn[q] EXCEPT !.pc = "returned", !.waited = TRUE]
  <2>1. /\ t.pc = "returned" /\ t.run = turn[q].run /\ t.answer = turn[q].answer
        /\ t.ids = turn[q].ids /\ t.sends = turn[q].sends
    BY DEF TypeOK, Turn
  <2>2. TurnBecomes(q, t) /\ turn[q].pc = "draining"
    BY <1>5 DEF ReturnTurn
  <2>3. OnlyTurn(q) /\ turn'[q] = t
    BY <2>2, TurnAfter
  <2>4. QuietTurns
    BY <2>1, <2>2, <2>3, TurnQuiet DEF QuietTurn, Early, Batch
  <2> QED BY <1>5, <2>4, QuietWhenSame, QuietBatches DEF ReturnTurn
<1> QED BY <1>1, <1>2, <1>3, <1>4, <1>5 DEF TurnStep

LEMMA BatchClientStep ==
  ASSUME TypeOK, TurnsFit, BatchInv, NEW q \in Turns, ClientStep(q)
  PROVE  BatchInv'
<1> USE DEF registry
<1>a. turn[q] \in Turn
  BY DEF TypeOK
<1>1. ASSUME NEW r \in Runs, StartRun(q, r) PROVE BatchInv'
  <2> DEFINE t == [turn[q] EXCEPT !.pc = "registered", !.run = r]
  <2>1. t.pc = "registered" /\ t.answer = turn[q].answer /\ t.sends = turn[q].sends
    BY <1>a DEF Turn
  <2>2. TurnBecomes(q, t) /\ turn[q].pc \in Early /\ turn[q].pc # "returned"
    BY <1>1 DEF StartRun, Early
  <2>3. OnlyTurn(q) /\ turn'[q] = t
    BY <2>2, TurnAfter
  <2>4. QuietTurns
    BY <2>1, <2>2, <2>3, TurnQuiet DEF QuietTurn, Early, Batch
  <2> QED BY <1>1, <2>4, QuietWhenSame, QuietBatches DEF StartRun
<1>2. ASSUME NEW ids \in SUBSET Known, LookupResume(q, ids) PROVE BatchInv'
  <2>1. UNCHANGED <<run, announcer, teardown, call, registry>> /\ turn[q].pc = "idle"
    BY <1>2 DEF LookupResume
  <2>2. CASE Reject(q, "rejected")
    BY <2>1, <2>2, QuietReject, QuietWhenSame, QuietBatches
  <2>3. CASE TurnBecomes(q, [turn[q] EXCEPT !.pc = "fresh", !.ids = ids])
    <3> DEFINE t == [turn[q] EXCEPT !.pc = "fresh", !.ids = ids]
    <3>1. t.pc = "fresh" /\ t.answer = turn[q].answer /\ t.sends = turn[q].sends
      BY <1>a DEF Turn
    <3>2. TurnBecomes(q, t)
      BY <2>3
    <3> HIDE DEF t
    <3>3. OnlyTurn(q) /\ turn'[q] = t
      BY <3>2, TurnAfter
    <3>4. QuietTurns
      BY <2>1, <3>1, <3>3, TurnQuiet DEF QuietTurn, Early, Batch
    <3> QED BY <2>1, <3>4, QuietWhenSame, QuietBatches
  <2>4. ASSUME NEW r \in Owners(ids),
               TurnBecomes(q, [turn[q] EXCEPT !.pc = "found", !.ids = ids, !.run = r])
        PROVE  BatchInv'
    <3> DEFINE t == [turn[q] EXCEPT !.pc = "found", !.ids = ids, !.run = r]
    <3>1. t.pc = "found" /\ t.answer = turn[q].answer /\ t.sends = turn[q].sends /\ t.ids = ids
      <4>1. r \in Runs
        BY KnownCalls DEF Owners, TypeOK
      <4> QED BY <1>a, <4>1 DEF Turn
    <3>2. TurnBecomes(q, t)
      BY <2>4
    <3> HIDE DEF t
    <3>3. OnlyTurn(q) /\ turn'[q] = t
      BY <3>2, TurnAfter
    <3>4. QuietTurns
      BY <2>1, <3>1, <3>3, TurnQuiet DEF QuietTurn, Early, Batch
    <3> QED BY <2>1, <3>4, QuietWhenSame, QuietBatches
  <2> QED BY <1>2, <2>2, <2>3, <2>4 DEF LookupResume
<1>3. CASE CancelTurn(q)
  <2>1. UNCHANGED <<announcer, teardown, call, registry>> /\ turn[q].pc = "waiting"
    BY <1>3 DEF CancelTurn
  <2>2. QuietRuns
    <3> DEFINE r == turn[q].run
               rr == [run[r] EXCEPT !.waiter = None]
    <3>1. r \in Runs => rr.fresh = run[r].fresh /\ rr.announced = run[r].announced
      BY DEF TypeOK, Run
    <3>2. RunBecomes(r, rr) => QuietRuns
      BY <3>1, OneRunQuiet
    <3> QED BY <1>3, <3>2, QuietWhenSame DEF CancelTurn
  <2>3. CASE TurnAt(q, "handover")
    BY <2>1, <2>2, <2>3, QuietAt, QuietWhenSame, QuietBatches DEF Early
  <2>4. CASE TurnBecomes(q, [turn[q] EXCEPT !.pc = "aborting", !.answer = Failure("cancelled")])
    <3> DEFINE t == [turn[q] EXCEPT !.pc = "aborting", !.answer = Failure("cancelled")]
    <3>1. /\ t.pc = "aborting" /\ t.answer.batch = {} /\ t.sends = turn[q].sends /\ t.ids = turn[q].ids
          /\ t.run = turn[q].run
      BY <1>a, FailureBatch DEF Turn
    <3>2. TurnBecomes(q, t)
      BY <2>4
    <3> HIDE DEF t
    <3>3. OnlyTurn(q) /\ turn'[q] = t
      BY <3>2, TurnAfter
    <3>4. QuietTurns
      BY <2>1, <3>1, <3>3, TurnQuiet DEF QuietTurn, Early, Batch
    <3> QED BY <2>1, <2>2, <3>4, QuietWhenSame, QuietBatches
  <2> QED BY <1>3, <2>3, <2>4 DEF CancelTurn
<1> QED BY <1>1, <1>2, <1>3 DEF ClientStep

(* The steps that do move a batch. *)

\* A batch is delivered: accepted as a whole, and no longer owed.
LEMMA BatchDeliver ==
  ASSUME TypeOK, TurnsFit, BatchInv, NEW q \in Turns, Deliver(q),
         MayDeliver(turn[q].run, turn[q].ids)
  PROVE  BatchInv'
<1> DEFINE r == turn[q].run
           ids == turn[q].ids
<1> USE DEF registry
<1>0. /\ turn[q].pc = "delivering" /\ RunBecomes(r, Delivered(run[r])) /\ TurnAt(q, "replying")
      /\ UNCHANGED <<announcer, teardown, call, registry>>
  BY DEF Deliver
<1>1. r \in Runs /\ run[r] \in Run
  BY <1>0 DEF TypeOK, TurnsFit, TurnFits
<1>2. ids = run[r].announced /\ ids # {} /\ ids \subseteq Known
  BY <1>0 DEF MayDeliver, BatchInv, TurnBatches
<1>3. /\ run'[r].fresh = run[r].fresh /\ run'[r].announced = {}
      /\ \A p \in Runs : p # r => run'[p] = run[p]
  BY <1>0, <1>1, RunHelpersQuiet DEF TypeOK, RunBecomes
<1>4. /\ OnlyTurn(q) /\ Kept(q) /\ turn'[q].pc = "replying"
      /\ turn'[q].answer = turn[q].answer /\ turn'[q].sends = turn[q].sends
  BY <1>0, TurnAtKeeps
<1>5. PICK p \in Turns : turn[p].pc = "returned" /\ Batch(p) \cap run[r].announced # {}
  BY <1>2 DEF Known, Batch
<1>6. Batch(p) = ids /\ announcer[r].stage = "idle"
  BY <1>1, <1>2, <1>5 DEF BatchInv, RunBatches
<1>7. \A o \in Turns : Batch(o)' = Batch(o)
  BY <1>4 DEF OnlyTurn, Batch
<1>a. run[r].fresh \cup run[r].announced \subseteq Calls
  BY <1>1 DEF Run
<1>8. ASSUME NEW o \in Runs PROVE RunBatches(o)'
  <2>1. RunBatches(o)
    BY DEF BatchInv
  <2>2. CASE o = r
    <3> HIDE DEF r
    <3> QED BY <1>0, <1>1, <1>3, <1>6, <1>7, <2>1, <2>2 DEF RunBatches, Awake
  <2>3. CASE o # r
    <3> HIDE DEF r
    <3> QED BY <1>0, <1>3, <1>7, <2>1, <2>3 DEF RunBatches, Awake
  <2> QED BY <2>2, <2>3
<1>9. ASSUME NEW o \in Runs PROVE ids \cap (run'[o].fresh \cup run'[o].announced) = {}
  <2>1. RunBatches(o) /\ RunBatches(r)
    BY <1>1 DEF BatchInv
  <2>2. CASE o = r
    BY <1>2, <1>3, <2>1, <2>2 DEF RunBatches
  <2>3. CASE o # r
    BY <1>2, <1>3, <2>1, <2>3 DEF RunBatches
  <2> QED BY <2>2, <2>3
<1>10. ASSUME NEW o \in Turns PROVE TurnBatches(o)'
  <2>1. TurnBatches(o)
    BY DEF BatchInv
  <2>2. turn'[o].sends = turn[o].sends
    BY <1>4 DEF OnlyTurn
  <2>3. /\ turn'[o].sends = 0 => Batch(o)' = {}
        /\ \A c \in Batch(o)' : Awake(c)'
        /\ \A v \in Turns : v # o => Batch(v)' \cap Batch(o)' = {}
    BY <1>0, <1>7, <2>1, <2>2 DEF TurnBatches, Awake
  <2>4. turn'[o].pc \in {"found", "delivering"} => turn'[o].ids \subseteq Known'
    <3>1. Known \subseteq Known'
      BY <1>0, <1>4, <1>7 DEF Known, OnlyTurn, Batch
    <3> QED BY <1>4, <2>1, <3>1 DEF TurnBatches, OnlyTurn
  <2>5. ToldByReturned(ids)
    BY <1>5, <1>6 DEF ToldByReturned
  <2>6. \A is : ToldByReturned(is) => \E v \in Turns : turn'[v].pc = "returned" /\ turn'[v].answer.batch = is
    BY <1>0, <1>4, <1>7 DEF ToldByReturned, OnlyTurn, Batch
  <2>7. turn'[o].pc = "replying" => Replying(o)'
    <3>1. \A v \in Turns : turn'[v].ids = turn[v].ids /\ turn'[v].run = turn[v].run
      BY <1>4 DEF OnlyTurn, Kept
    <3>2. RunBatches(r)
      BY <1>1 DEF BatchInv
    <3>3. CASE o = q
      <4>1. \A c \in ids : call'[c].run = r /\ Awake(c)' /\ call'[c].reply = None
        BY <1>0, <1>2, <3>2 DEF RunBatches, Awake
      <4>2. \A v \in Turns : v # q /\ turn'[v].pc = "replying" => turn'[v].ids \cap ids = {}
        BY <1>1, <1>2, <1>4, <3>1 DEF BatchInv, TurnBatches, Replying, OnlyTurn
      <4> QED BY <1>2, <1>9, <2>5, <2>6, <3>1, <3>3, <4>1, <4>2 DEF Replying, ToldByReturned, Batch
    <3>4. CASE o # q /\ turn'[o].pc = "replying"
      <4>1. Replying(o) /\ turn[o].pc = "replying"
        BY <1>4, <2>1, <3>4 DEF TurnBatches, OnlyTurn
      <4>2. \A c \in turn[o].ids : call'[c].run = turn[o].run /\ Awake(c)' /\ call'[c].reply = None
        BY <1>0, <4>1 DEF Replying, Awake
      <4>3. \A v \in Runs : turn[o].ids \cap (run'[v].fresh \cup run'[v].announced) = {}
        BY <1>1, <1>3, <4>1 DEF Replying
      <4>4. \A v \in Turns : v # o /\ turn'[v].pc = "replying" => turn[v].ids \cap turn[o].ids = {}
        BY <1>1, <1>2, <1>4, <4>1 DEF Replying, OnlyTurn
      <4> QED BY <2>6, <3>1, <4>1, <4>2, <4>3, <4>4 DEF Replying, ToldByReturned, Batch
    <3> QED BY <3>3, <3>4
  <2> QED BY <2>3, <2>4, <2>7 DEF TurnBatches
<1>11. ASSUME NEW c \in Calls PROVE CallBatches(c)'
  <2>1. CallBatches(c) /\ call' = call
    BY <1>0 DEF BatchInv
  <2>2. ASSUME call[c].reply # None PROVE Replied(c)'
    <3> DEFINE o == call[c].reply
    <3>1. Replied(c)
      BY <2>1, <2>2 DEF CallBatches
    <3>2. o \in Turns /\ o # q
      BY <1>0, <3>1 DEF Replied, CallBatches, BatchInv, Early
    <3> QED BY <2>1, <3>1, <3>2, <1>0, <1>4, <1>7 DEF Replied, ToldByReturned, OnlyTurn, Kept, Batch
  <2> QED BY <2>1, <2>2 DEF CallBatches
<1> QED BY <1>8, <1>10, <1>11 DEF BatchInv

\* The results of a batch reach its callbacks.
LEMMA BatchReply ==
  ASSUME TypeOK, BatchInv, NEW q \in Turns, DeliverReply(q)
  PROVE  BatchInv'
<1> DEFINE ids == turn[q].ids
<1>0. /\ turn[q].pc = "replying" /\ TurnAt(q, "waiting")
      /\ UNCHANGED <<run, announcer, teardown, byAgentID>>
  BY DEF DeliverReply
<1>1. Replying(q)
  BY <1>0 DEF BatchInv, TurnBatches
<1>2. /\ OnlyTurn(q) /\ Kept(q) /\ turn'[q].pc = "waiting"
      /\ turn'[q].answer = turn[q].answer /\ turn'[q].sends = turn[q].sends
  BY <1>0, TurnAtKeeps
<1>3. \A c \in Calls : /\ call'[c].pc = call[c].pc /\ call'[c].run = call[c].run
                       /\ c \notin ids => call'[c].reply = call[c].reply
                       /\ c \in ids => call'[c].reply = q
  <2> SUFFICES ASSUME NEW c \in Calls
               PROVE  /\ call'[c].pc = call[c].pc /\ call'[c].run = call[c].run
                      /\ c \notin ids => call'[c].reply = call[c].reply
                      /\ c \in ids => call'[c].reply = q
    OBVIOUS
  <2> DEFINE n == [call[c] EXCEPT !.reply = q]
  <2>1. n.pc = call[c].pc /\ n.run = call[c].run /\ n.reply = q
    BY DEF TypeOK, Call
  <2>2. c \in ids => call[c].reply = None
    BY <1>1 DEF Replying
  <2>3. call'[c] = IF c \in ids THEN n ELSE call[c]
    BY <2>2 DEF DeliverReply
  <2> HIDE DEF n
  <2> QED BY <2>1, <2>3
<1>4. \A o \in Turns : /\ Batch(o)' = Batch(o) /\ turn'[o].sends = turn[o].sends
                       /\ turn'[o].ids = turn[o].ids /\ turn'[o].run = turn[o].run
  BY <1>2 DEF OnlyTurn, Kept, Batch
<1>5. \A is : ToldByReturned(is) => \E v \in Turns : turn'[v].pc = "returned" /\ turn'[v].answer.batch = is
  BY <1>0, <1>2, <1>4 DEF ToldByReturned, OnlyTurn, Batch
<1>a. ids \subseteq Calls
  BY DEF TypeOK, Turn
<1>6. ASSUME NEW r \in Runs PROVE RunBatches(r)'
  <2>1. RunBatches(r) /\ ids \cap (run[r].fresh \cup run[r].announced) = {}
    BY <1>1 DEF BatchInv, Replying
  <2>2. run[r].fresh \cup run[r].announced \subseteq Calls
    BY DEF TypeOK, Run
  <2>3. \A c \in run[r].announced : byExposedCallID'[c] = byExposedCallID[c]
    BY <2>1, <2>2 DEF DeliverReply
  <2>4. \A c \in run[r].fresh \cup run[r].announced :
          call'[c].run = r /\ Awake(c)' /\ call'[c].reply = None
    BY <1>3, <2>1, <2>2 DEF RunBatches, Awake
  <2> QED BY <1>0, <1>4, <2>1, <2>3, <2>4 DEF RunBatches
<1>7. ASSUME NEW o \in Turns PROVE TurnBatches(o)'
  <2>1. TurnBatches(o)
    BY DEF BatchInv
  <2>2. Batch(o) \subseteq Calls /\ turn[o].ids \subseteq Calls
    BY DEF TypeOK, Turn, Answer, Batch
  <2>3. \A c \in Batch(o)' : Awake(c)'
    BY <1>3, <1>4, <2>1, <2>2 DEF TurnBatches, Awake
  <2>4. Known \subseteq Known'
    BY <1>0, <1>2, <1>4 DEF Known, OnlyTurn, Batch
  <2>5. turn'[o].pc = "replying" => Replying(o)'
    <3> SUFFICES ASSUME turn'[o].pc = "replying" PROVE Replying(o)'
      OBVIOUS
    <3>1. o # q /\ turn[o].pc = "replying"
      BY <1>2 DEF OnlyTurn
    <3>2. Replying(o) /\ turn[o].ids \cap ids = {}
      BY <1>1, <2>1, <3>1 DEF TurnBatches, Replying
    <3>3. \A c \in turn[o].ids : call'[c].run = turn[o].run /\ Awake(c)' /\ call'[c].reply = None
      BY <1>3, <2>2, <3>2 DEF Replying, Awake
    <3>4. \A v \in Turns : turn'[v].pc = "replying" => turn[v].pc = "replying"
      BY <1>0 , <1>2 DEF OnlyTurn
    <3> QED BY <1>0, <1>4, <1>5, <3>2, <3>3, <3>4 DEF Replying, ToldByReturned, Batch
  <2>6. turn'[o].pc \in {"found", "delivering"} => turn'[o].ids \subseteq Known'
    BY <1>2, <2>1, <2>4 DEF TurnBatches, OnlyTurn
  <2> QED BY <1>4, <2>1, <2>3, <2>5, <2>6 DEF TurnBatches
<1>8. ASSUME NEW c \in Calls PROVE CallBatches(c)'
  <2>1. CallBatches(c)
    BY DEF BatchInv
  <2>2. CASE c \in ids
    <3>1. call'[c].reply = q /\ call'[c].pc \notin {"idle", "found"}
      BY <1>1, <1>3, <2>2 DEF Replying, Awake
    <3>2. turn'[q].run = call'[c].run
      BY <1>1, <1>3, <1>4, <2>2 DEF Replying
    <3>3. \A b \in turn'[q].ids : call'[b].reply = q
      BY <1>3, <1>4, <1>a
    <3>4. \E v \in Turns : turn'[v].pc = "returned" /\ turn'[v].answer.batch = turn'[q].ids
      BY <1>1, <1>4, <1>5 DEF Replying
    <3>5. Replied(c)'
      BY <1>2, <1>4, <2>2, <3>1, <3>2, <3>3, <3>4 DEF Replied, ToldByReturned, Early, Batch
    <3>6. q # None
      BY ConstantsAssumption
    <3> QED BY <3>1, <3>5, <3>6 DEF CallBatches
  <2>3. CASE c \notin ids
    <3>1. call'[c].reply = call[c].reply /\ call'[c].pc = call[c].pc /\ call'[c].run = call[c].run
      BY <1>3, <2>3
    <3>2. ASSUME call[c].reply # None PROVE Replied(c)'
      <4> DEFINE o == call[c].reply
      <4>1. Replied(c)
        BY <2>1, <3>2 DEF CallBatches
      <4>2. o \in Turns /\ o # q
        BY <1>0, <4>1 DEF Replied
      <4>3. turn[o].ids \subseteq Calls
        BY <4>2 DEF TypeOK, Turn
      <4>4. \A b \in turn[o].ids : b \notin ids
        <5>1. \A b \in ids : call[b].reply = None
          BY <1>1 DEF Replying
        <5> QED BY <3>2, <4>1, <5>1 DEF Replied
      <4>5. \A b \in turn'[o].ids : call'[b].reply = o
        BY <1>3, <1>4, <4>1, <4>2, <4>3, <4>4 DEF Replied
      <4>6. turn'[o].pc = turn[o].pc
        BY <1>2, <4>2 DEF OnlyTurn
      <4>7. \E v \in Turns : turn'[v].pc = "returned" /\ turn'[v].answer.batch = turn'[o].ids
        BY <1>4, <1>5, <4>1, <4>2 DEF Replied
      <4> QED BY <1>4, <3>1, <4>1, <4>2, <4>5, <4>6, <4>7 DEF Replied, ToldByReturned, Batch
    <3> QED BY <2>1, <3>1, <3>2 DEF CallBatches
  <2> QED BY <2>2, <2>3
<1> QED BY <1>6, <1>7, <1>8 DEF BatchInv

\* A call parks: it joins the calls that no turn was told of.
LEMMA BatchPark ==
  ASSUME TypeOK, BatchInv, NEW c \in Calls, call[c].pc = "found", NEW r, r = call[c].run,
         RunBecomes(r, WithCall(run[r], c)), CallAt(c, "parked"),
         UNCHANGED <<announcer, teardown, turn, registry>>
  PROVE  BatchInv'
<1> USE DEF registry
<1>1. \A p \in Runs : /\ run'[p].announced = run[p].announced
                      /\ p # r => run'[p] = run[p]
                      /\ p = r => run'[p].fresh = run[p].fresh \cup {c}
  BY RunHelpersQuiet DEF TypeOK, RunBecomes
<1>2. /\ \A b \in Calls : b # c => call'[b] = call[b]
      /\ call'[c].pc = "parked" /\ call'[c].run = r /\ call'[c].reply = call[c].reply
  <2>1. LET k == [call[c] EXCEPT !.pc = "parked"]
        IN k.pc = "parked" /\ k.run = call[c].run /\ k.reply = call[c].reply
    BY DEF TypeOK, Call
  <2> QED BY <2>1 DEF TypeOK, CallAt, CallBecomes
<1>3. ~Awake(c) /\ call[c].reply = None
  BY DEF BatchInv, CallBatches, Awake
<1>4. \A b \in Calls : /\ call'[b].reply = call[b].reply /\ call'[b].run = call[b].run
                       /\ Awake(b) => Awake(b)'
  BY <1>2, <1>3 DEF Awake
<1>a. \A p \in Runs : run[p].fresh \cup run[p].announced \subseteq Calls
  BY DEF TypeOK, Run
<1>b. \A q \in Turns : Batch(q) \subseteq Calls /\ turn[q].ids \subseteq Calls
  BY DEF TypeOK, Turn, Answer, Batch
<1>5. ASSUME NEW p \in Runs PROVE RunBatches(p)'
  <2>1. RunBatches(p) /\ c \notin run[p].announced
    BY <1>3 DEF BatchInv, RunBatches
  <2>2. \A q \in Turns : c \notin Batch(q)
    BY <1>3 DEF BatchInv, TurnBatches
  <2>3. \A b \in run'[p].fresh \cup run'[p].announced :
          call'[b].run = p /\ Awake(b)' /\ call'[b].reply = None
    BY <1>a, <1>1, <1>2, <1>3, <1>4, <2>1 DEF RunBatches, Awake
  <2>4. /\ run'[p].fresh \cap run'[p].announced = {}
        /\ \A q \in Turns : run'[p].fresh \cap Batch(q) = {}
    BY <1>1, <2>1, <2>2 DEF RunBatches
  <2> QED BY <1>1, <2>1, <2>3, <2>4 DEF RunBatches, Batch
<1>6. ASSUME NEW q \in Turns PROVE TurnBatches(q)'
  <2>1. TurnBatches(q)
    BY DEF BatchInv
  <2>2. \A b \in Batch(q) : Awake(b)'
    BY <1>b, <1>4, <2>1 DEF TurnBatches
  <2>3. turn[q].pc = "replying" => Replying(q)'
    <3> SUFFICES ASSUME turn[q].pc = "replying" PROVE Replying(q)'
      OBVIOUS
    <3>1. Replying(q) /\ c \notin turn[q].ids
      BY <1>3, <2>1 DEF TurnBatches, Replying
    <3>2. \A b \in turn[q].ids : call'[b].run = turn[q].run /\ Awake(b)' /\ call'[b].reply = None
      BY <1>b, <1>4, <3>1 DEF Replying
    <3>3. \A p \in Runs : turn[q].ids \cap (run'[p].fresh \cup run'[p].announced) = {}
      BY <1>1, <3>1 DEF Replying
    <3> QED BY <3>1, <3>2, <3>3 DEF Replying, ToldByReturned, Batch
  <2> QED BY <2>1, <2>2, <2>3 DEF TurnBatches, Known, Batch
<1>7. ASSUME NEW b \in Calls PROVE CallBatches(b)'
  <2>1. CallBatches(b) /\ call'[b].reply = call[b].reply
    BY <1>4 DEF BatchInv
  <2>2. ASSUME call[b].reply # None PROVE Replied(b)'
    <3>1. Replied(b)
      BY <2>1, <2>2 DEF CallBatches
    <3>2. \A d \in turn[call[b].reply].ids : call'[d].reply = call[b].reply
      BY <1>b, <1>4, <3>1 DEF Replied
    <3> QED BY <1>4, <3>1, <3>2 DEF Replied, ToldByReturned, Batch
  <2>3. call'[b].pc \in {"idle", "found"} => call'[b].reply = None
    BY <1>2, <2>1 DEF CallBatches
  <2>4. call'[b].pc = "answered" => call'[b].reply # None
    BY <1>2, <2>1 DEF CallBatches
  <2> QED BY <2>1, <2>2, <2>3, <2>4 DEF CallBatches
<1> QED BY <1>5, <1>6, <1>7 DEF BatchInv

\* The waiting calls become the batch.
LEMMA BatchTake ==
  ASSUME TypeOK, BatchInv, NEW r \in Runs, MayAnnounce(run[r]), RunBecomes(r, Taken(run[r])),
         AnnouncerBecomes(r,
           [stage |-> "taken", waiter |-> run[r].waiter,
            answer |-> [kind |-> "calls", batch |-> run[r].fresh, text |-> run[r].text]]),
         UNCHANGED <<teardown, turn, call, registry>>
  PROVE  BatchInv'
<1> USE DEF registry
<1>1. /\ run'[r].fresh = {} /\ run'[r].announced = run[r].fresh /\ run[r].fresh # {}
      /\ \A p \in Runs : p # r => run'[p] = run[p]
  BY RunHelpersQuiet DEF TypeOK, RunBecomes, MayAnnounce
<1>2. /\ announcer'[r].stage = "taken" /\ announcer'[r].answer.batch = run[r].fresh
      /\ \A p \in Runs : p # r => announcer'[p] = announcer[p]
  BY DEF TypeOK, AnnouncerBecomes
<1>3. ASSUME NEW p \in Runs PROVE RunBatches(p)'
  <2>1. RunBatches(p)
    BY DEF BatchInv
  <2>2. CASE p = r
    BY <1>1, <1>2, <2>1, <2>2 DEF RunBatches, Awake, Batch
  <2>3. CASE p # r
    BY <1>1, <1>2, <2>1, <2>3 DEF RunBatches, Awake, Batch
  <2> QED BY <2>2, <2>3
<1>4. ASSUME NEW q \in Turns PROVE TurnBatches(q)'
  <2>1. TurnBatches(q)
    BY DEF BatchInv
  <2>2. turn[q].pc = "replying" => Replying(q)'
    <3> SUFFICES ASSUME turn[q].pc = "replying" PROVE Replying(q)'
      OBVIOUS
    <3>1. Replying(q)
      BY <2>1 DEF TurnBatches
    <3>2. \A p \in Runs : turn[q].ids \cap (run'[p].fresh \cup run'[p].announced) = {}
      BY <1>1, <3>1 DEF Replying
    <3> QED BY <3>1, <3>2 DEF Replying, ToldByReturned, Batch, Awake
  <2> QED BY <2>1, <2>2 DEF TurnBatches, Known, Batch, Awake
<1>5. ASSUME NEW c \in Calls PROVE CallBatches(c)'
  BY DEF BatchInv, CallBatches, Replied, ToldByReturned, Batch
<1> QED BY <1>3, <1>4, <1>5 DEF BatchInv

LEMMA BatchRegister ==
  ASSUME TypeOK, BatchInv, NEW r \in Runs, AnnounceRegister(r)
  PROVE  BatchInv'
<1>1. UNCHANGED <<run, teardown, turn, call>> /\ announcer[r].stage = "taken"
  BY DEF AnnounceRegister
<1>2. /\ announcer'[r].stage = "registered" /\ announcer'[r].answer = announcer[r].answer
      /\ \A p \in Runs : p # r => announcer'[p] = announcer[p]
  BY DEF TypeOK, AnnounceRegister, AnnouncerBecomes, Announcer
<1>3. \A p \in Runs : run[p].announced \subseteq Calls
  BY DEF TypeOK, Run
<1>4. ASSUME NEW p \in Runs PROVE RunBatches(p)'
  <2>1. RunBatches(p) /\ RunBatches(r)
    BY DEF BatchInv
  <2>2. CASE p = r
    <3>1. \A c \in run[p].announced : byExposedCallID'[c] = p
      BY <1>1, <1>3, <2>1, <2>2 DEF AnnounceRegister, RunBatches
    <3> QED BY <1>1, <1>2, <2>1, <2>2, <3>1 DEF RunBatches, Awake, Batch
  <2>3. CASE p # r
    <3>1. \A c \in run[p].announced : byExposedCallID'[c] = byExposedCallID[c]
      BY <1>1, <1>3, <2>1, <2>3 DEF AnnounceRegister, RunBatches
    <3> QED BY <1>1, <1>2, <2>1, <2>3, <3>1 DEF RunBatches, Awake, Batch
  <2> QED BY <2>2, <2>3
<1>5. ASSUME NEW q \in Turns PROVE TurnBatches(q)'
  BY <1>1 DEF BatchInv, TurnBatches, Replying, ToldByReturned, Known, Batch, Awake
<1>6. ASSUME NEW c \in Calls PROVE CallBatches(c)'
  BY <1>1 DEF BatchInv, CallBatches, Replied, ToldByReturned, Batch
<1> QED BY <1>4, <1>5, <1>6 DEF BatchInv

\* A turn is told of the batch; before, no turn was.
LEMMA BatchAnswer ==
  ASSUME TypeOK, HolderInv, BatchInv, NEW r \in Runs, AnnounceAnswer(r)
  PROVE  BatchInv'
<1> DEFINE batch == run[r].announced
<1>0. PICK q : q = announcer[r].waiter
  OBVIOUS
<1>1. /\ announcer[r].stage = "registered" /\ Send(q, announcer[r].answer)
      /\ UNCHANGED <<run, teardown, call, registry>>
  BY <1>0 DEF AnnounceAnswer
<1>2. /\ announcer'[r].stage = "idle"
      /\ \A p \in Runs : p # r => announcer'[p] = announcer[p]
  BY DEF TypeOK, AnnounceAnswer, AnnouncerBecomes, Announcer
<1>3. RunBatches(r) /\ announcer[r].answer.batch = batch /\ batch # {}
      /\ \A o \in Turns : batch \cap Batch(o) = {}
  BY <1>1 DEF BatchInv, RunBatches
<1>a. batch \subseteq Calls
  BY DEF TypeOK, Run
<1>4. \A o \in Turns :
        /\ turn'[o].pc = turn[o].pc /\ turn'[o].run = turn[o].run /\ turn'[o].ids = turn[o].ids
        /\ o # q => Batch(o)' = Batch(o) /\ turn'[o].sends = turn[o].sends
        /\ o = q => Batch(o)' = batch /\ turn'[o].sends # 0 /\ Batch(o) = {}
  <2>1. CASE q \notin Turns
    <3>1. UNCHANGED turn
      BY <1>1, <2>1 DEF TypeOK, Send, TurnBecomes
    <3> QED BY <2>1, <3>1 DEF Batch
  <2>2. CASE q \in Turns
    <3>1. /\ OnlyTurn(q) /\ Kept(q) /\ turn'[q].pc = turn[q].pc
          /\ turn'[q].answer = announcer[r].answer /\ turn'[q].sends = turn[q].sends + 1
      BY <1>1, <2>2, SendKeeps
    <3>2. turn[q].sends = 0
      BY <1>0, <1>1, <2>2 DEF HolderInv, HeldUnanswered, Held, HeldByAnnouncer
    <3>3. Batch(q) = {}
      BY <2>2, <3>2 DEF BatchInv, TurnBatches
    <3> QED BY <1>3, <2>2, <3>1, <3>2, <3>3 DEF OnlyTurn, Kept, Batch
  <2> QED BY <2>1, <2>2
<1>5. \A is : is # {} /\ ToldByReturned(is) =>
        \E v \in Turns : turn'[v].pc = "returned" /\ turn'[v].answer.batch = is
  BY <1>4 DEF ToldByReturned, Batch
<1>6. Known \subseteq Known'
  <2>1. \A v \in Turns : Batch(v) # {} => Batch(v)' = Batch(v)
    BY <1>4
  <2> QED BY <1>4, <2>1 DEF Known, Batch
<1>7. ASSUME NEW p \in Runs PROVE RunBatches(p)'
  <2>1. RunBatches(p)
    BY DEF BatchInv
  <2>2. p # r => batch \cap (run[p].fresh \cup run[p].announced) = {}
    BY <1>3, <2>1 DEF RunBatches
  <2>3. batch \cap run[p].fresh = {}
    BY <1>3, <2>2 DEF RunBatches
  <2>4. \A o \in Turns : /\ run[p].fresh \cap Batch(o)' = {}
                         /\ run[p].announced \cap Batch(o)' # {} => Batch(o)' = run[p].announced
    BY <1>4, <2>1, <2>2, <2>3 DEF RunBatches
  <2>5. announcer'[p].stage # "idle" => \A o \in Turns : run[p].announced \cap Batch(o)' = {}
    BY <1>2, <1>4, <2>1, <2>2 DEF RunBatches
  <2>6. announcer'[p].stage # "idle" =>
          announcer'[p].answer.batch = run[p].announced /\ run[p].announced # {}
    BY <1>2, <2>1 DEF RunBatches
  <2>7. teardown[p].stage \in Live =>
          \A c \in run[p].announced : byExposedCallID[c] = p \/ announcer'[p].stage = "taken"
    BY <1>1, <1>2, <2>1 DEF RunBatches
  <2> QED BY <1>1, <2>1, <2>4, <2>5, <2>6, <2>7 DEF RunBatches, Awake, registry
<1>8. ASSUME NEW o \in Turns PROVE TurnBatches(o)'
  <2>1. TurnBatches(o)
    BY DEF BatchInv
  <2>2. turn'[o].sends = 0 => Batch(o)' = {}
    BY <1>4, <2>1 DEF TurnBatches
  <2>3. \A c \in Batch(o)' : Awake(c)'
    BY <1>1, <1>3, <1>4, <2>1 DEF TurnBatches, RunBatches, Awake
  <2>4. \A p \in Turns : p # o => Batch(p)' \cap Batch(o)' = {}
    BY <1>3, <1>4, <2>1 DEF TurnBatches
  <2>5. turn'[o].pc = "replying" => Replying(o)'
    BY <1>1, <1>4, <1>5, <2>1 DEF TurnBatches, Replying, ToldByReturned, Awake, Batch
  <2>6. turn'[o].pc \in {"found", "delivering"} => turn'[o].ids \subseteq Known'
    BY <1>4, <1>6, <2>1 DEF TurnBatches
  <2> QED BY <2>2, <2>3, <2>4, <2>5, <2>6 DEF TurnBatches
<1>9. ASSUME NEW c \in Calls PROVE CallBatches(c)'
  BY <1>1, <1>4, <1>5 DEF BatchInv, CallBatches, Replied, ToldByReturned, Batch
<1> QED BY <1>7, <1>8, <1>9 DEF BatchInv

LEMMA QuietCall ==
  ASSUME TypeOK, BatchInv, NEW c \in Calls, NEW k, CallBecomes(c, k), k.reply = call[c].reply,
         Awake(c) => k.pc \notin {"idle", "found"} /\ k.run = call[c].run,
         k.pc = "answered" => call[c].reply # None
  PROVE  QuietCalls
BY DEF TypeOK, CallBecomes, QuietCalls, Awake, BatchInv, CallBatches

LEMMA QuietCallAt ==
  ASSUME TypeOK, BatchInv, NEW c \in Calls, NEW pc, CallAt(c, pc),
         pc \notin {"idle", "found", "answered"}
  PROVE  QuietCalls
<1> DEFINE k == [call[c] EXCEPT !.pc = pc]
<1>1. k.reply = call[c].reply /\ k.run = call[c].run /\ k.pc = pc
  BY DEF TypeOK, Call
<1>2. CallBecomes(c, k)
  BY DEF CallAt
<1> HIDE DEF k
<1> QED BY <1>1, <1>2, QuietCall

LEMMA BatchCallStep == ASSUME TypeOK, BatchInv, NEW c \in Calls, CallStep(c) PROVE BatchInv'
<1> USE DEF registry
<1>1. CASE CallPark(c)
  <2>1. CASE CallAt(c, "failed") /\ UNCHANGED run
    BY <1>1, <2>1, QuietCallAt, QuietWhenSame, QuietBatches DEF CallPark
  <2>2. CASE RunBecomes(call[c].run, WithCall(run[call[c].run], c)) /\ CallAt(c, "parked")
    BY <1>1, <2>2, BatchPark DEF CallPark
  <2> QED BY <1>1, <2>1, <2>2 DEF CallPark
<1>2. CASE CallReplied(c)
  <2> DEFINE k == [call[c] EXCEPT !.pc = "answered", !.result = call[c].reply]
  <2>1. k.reply = call[c].reply /\ k.run = call[c].run /\ k.pc = "answered"
    BY DEF TypeOK, Call
  <2>2. CallBecomes(c, k) /\ call[c].reply # None
        /\ UNCHANGED <<run, announcer, teardown, turn, registry>>
    BY <1>2 DEF CallReplied
  <2> HIDE DEF k
  <2>3. QuietCalls
    BY <2>1, <2>2, QuietCall
  <2> QED BY <2>2, <2>3, QuietWhenSame, QuietBatches
<1>3. CASE CallRunDone(c) \/ CallAborted(c)
  <2>1. CallAt(c, "failed") /\ UNCHANGED <<run, announcer, teardown, turn, registry>>
    BY <1>3 DEF CallRunDone, CallAborted
  <2> QED BY <2>1, QuietCallAt, QuietWhenSame, QuietBatches
<1>4. CASE CallAborts(c)
  BY <1>4, BatchBegins, FailureBatch DEF CallAborts
<1> QED BY <1>1, <1>2, <1>3, <1>4 DEF CallStep

LEMMA TeardownAtKeeps ==
  ASSUME TypeOK, NEW r \in Runs, NEW stage, TeardownAt(r, stage)
  PROVE  /\ teardown'[r].stage = stage /\ teardown'[r].answer = teardown[r].answer
         /\ teardown'[r].waiter = teardown[r].waiter
         /\ \A p \in Runs : p # r => teardown'[p] = teardown[p]
<1> DEFINE d == [teardown[r] EXCEPT !.stage = stage]
<1>1. d.stage = stage /\ d.answer = teardown[r].answer /\ d.waiter = teardown[r].waiter
  BY DEF TypeOK, Teardown
<1>2. teardown'[r] = d /\ \A p \in Runs : p # r => teardown'[p] = teardown[p]
  BY DEF TypeOK, TeardownAt, TeardownBecomes
<1> QED BY <1>1, <1>2

LEMMA TeardownReleaseKeeps ==
  ASSUME TypeOK, NEW r \in Runs, TeardownRelease(r)
  PROVE  /\ teardown'[r].stage = "released" /\ teardown'[r].answer = teardown[r].answer
         /\ teardown'[r].waiter = teardown[r].waiter
         /\ \A p \in Runs : p # r => teardown'[p] = teardown[p]
<1> DEFINE d == [teardown[r] EXCEPT !.stage = "released", !.releases = @ + 1]
<1>1. d.stage = "released" /\ d.answer = teardown[r].answer /\ d.waiter = teardown[r].waiter
  BY DEF TypeOK, Teardown
<1>2. teardown'[r] = d /\ \A p \in Runs : p # r => teardown'[p] = teardown[p]
  BY DEF TypeOK, TeardownRelease, TeardownBecomes
<1> QED BY <1>1, <1>2

LEMMA BatchRunStep ==
  ASSUME TypeOK, HolderInv, BatchInv, NEW r \in Runs, RunStep(r)
  PROVE  BatchInv'
<1> USE DEF registry
<1>a. run[r] \in Run /\ teardown[r] \in Teardown /\ RunBatches(r)
  BY DEF TypeOK, BatchInv
<1>1. CASE AnnounceTake(r)
  <2>1. CASE MayAnnounce(run[r])
    BY <1>1, <2>1, BatchTake DEF AnnounceTake
  <2>2. CASE ~MayAnnounce(run[r])
    <3> DEFINE rr == [run[r] EXCEPT !.timers = @ \ {"batch"}]
    <3>1. rr.fresh = run[r].fresh /\ rr.announced = run[r].announced
      BY <1>a DEF Run
    <3>2. RunBecomes(r, rr) /\ UNCHANGED <<announcer, teardown, turn, call, registry>>
      BY <1>1, <2>2 DEF AnnounceTake
    <3> HIDE DEF rr
    <3> QED BY <3>1, <3>2, OneRunQuiet, QuietWhenSame, QuietBatches
  <2> QED BY <2>1, <2>2
<1>2. CASE AnnounceRegister(r)
  BY <1>2, BatchRegister
<1>3. CASE AnnounceAnswer(r)
  BY <1>3, BatchAnswer
<1>4. CASE ResultTimerFires(r)
  <2> DEFINE rr == [run[r] EXCEPT !.timers = @ \ {"result"}]
  <2>1. rr.fresh = run[r].fresh /\ rr.announced = run[r].announced
    BY <1>a DEF Run
  <2>2. RunBecomes(r, rr) /\ UNCHANGED <<announcer, teardown, turn, call, registry>>
    BY <1>4 DEF ResultTimerFires
  <2> HIDE DEF rr
  <2> QED BY <2>1, <2>2, OneRunQuiet, QuietWhenSame, QuietBatches
<1>5. CASE TimeoutAborts(r) \/ ReaderEndsRun(r) \/ StopperAborts(r)
  <2>1. PICK answer : Begin(r, answer) /\ answer.batch = {}
    BY <1>5, FailureBatch DEF TimeoutAborts, ReaderEndsRun, StopperAborts
  <2> QED BY <1>5, <2>1, BatchBegins DEF TimeoutAborts, ReaderEndsRun, StopperAborts
<1>6. CASE DeltaDone(r) \/ ReaderExits(r)
  BY <1>6, QuietWhenSame, QuietBatches DEF DeltaDone, ReaderExits
<1>7. CASE TeardownStep(r)
  <2>1. UNCHANGED <<run, announcer, call>>
    BY <1>7 DEF TeardownStep, TeardownCancel, TeardownUnregister, TeardownRelease, TeardownAnswer
  <2>2. \A p \in Runs : p # r => teardown'[p] = teardown[p]
    BY <1>7 DEF TeardownStep, TeardownCancel, TeardownUnregister, TeardownRelease, TeardownAnswer,
                TeardownAt, TeardownBecomes, TypeOK
  <2>3. \A stage : TeardownAt(r, stage) =>
          teardown'[r].stage = stage /\ teardown'[r].answer = teardown[r].answer
    BY TeardownAtKeeps
  <2>4. TeardownRelease(r) =>
          teardown'[r].stage = "released" /\ teardown'[r].answer = teardown[r].answer
    BY TeardownReleaseKeeps
  <2>a. /\ teardown'[r].answer = teardown[r].answer
        /\ teardown'[r].stage \in Live => TeardownCancel(r)
    BY <1>7, <2>3, <2>4
       DEF TeardownStep, TeardownCancel, TeardownUnregister, TeardownAnswer, Live
  <2>5. QuietTeardowns
    BY <1>a, <2>2, <2>a DEF QuietTeardowns, BatchInv, RunBatches, TeardownCancel, Live
  <2>6. QuietNames
    <3>1. CASE TeardownUnregister(r)
      <4>1. \A p \in Runs : run[p].announced \subseteq Calls
        BY DEF TypeOK, Run
      <4>2. ~TeardownCancel(r)
        BY <3>1 DEF TeardownUnregister, TeardownCancel
      <4> QED BY <2>a, <3>1, <4>1, <4>2 DEF TeardownUnregister, QuietNames
    <3>2. CASE UNCHANGED byExposedCallID
      BY <3>2 DEF QuietNames
    <3> QED BY <1>7, <3>1, <3>2 DEF TeardownStep, TeardownCancel, TeardownRelease, TeardownAnswer
  <2>7. QuietTurns
    <3>0. PICK q : q = teardown[r].waiter
      OBVIOUS
    <3>1. CASE UNCHANGED turn
      BY <3>1, QuietWhenSame
    <3>2. CASE q \in Turns /\ TeardownAnswer(r) /\ Send(q, teardown[r].answer)
      <4>1. /\ OnlyTurn(q) /\ Kept(q) /\ turn'[q].pc = turn[q].pc
            /\ turn'[q].answer = teardown[r].answer /\ turn'[q].sends = turn[q].sends + 1
        BY <3>2, SendKeeps
      <4>2. turn[q].sends = 0
        BY <3>0, <3>2 DEF HolderInv, HeldUnanswered, Held, HeldByTeardown, TeardownAnswer
      <4>3. Batch(q) = {} /\ turn'[q].answer.batch = {}
        BY <1>a, <3>2, <4>1, <4>2 DEF BatchInv, TurnBatches, RunBatches
      <4>4. turn[q].pc \in {"found", "delivering"} => turn[q].ids \subseteq Known
        BY <3>2 DEF BatchInv, TurnBatches
      <4>5. QuietTurn(q)
        BY <4>1, <4>2, <4>3, <4>4 DEF QuietTurn, Kept
      <4> QED BY <3>2, <4>1, <4>5, TurnQuiet
    <3>3. q # None => q \in Turns
      BY <1>a, <3>0 DEF Teardown
    <3> QED BY <1>7, <3>0, <3>1, <3>2, <3>3
         DEF TeardownStep, TeardownCancel, TeardownUnregister, TeardownRelease, TeardownAnswer
  <2> QED BY <2>1, <2>5, <2>6, <2>7, QuietWhenSame, QuietBatches
<1> QED BY <1>1, <1>2, <1>3, <1>4, <1>5, <1>6, <1>7 DEF RunStep

LEMMA BatchBridgeStep == ASSUME TypeOK, BatchInv, BridgeStep PROVE BatchInv'
<1> USE DEF registry
<1>1. ASSUME NEW c \in Calls, NEW r \in Runs, CallLookup(c, r) PROVE BatchInv'
  <2>0. PICK pc \in {"found", "failed"} : CallBecomes(c, [call[c] EXCEPT !.run = r, !.pc = pc])
    BY <1>1 DEF CallLookup
  <2> DEFINE k == [call[c] EXCEPT !.run = r, !.pc = pc]
  <2>1. k.reply = call[c].reply /\ k.pc = pc
    BY DEF TypeOK, Call
  <2>2. CallBecomes(c, k) /\ ~Awake(c) /\ UNCHANGED <<run, announcer, teardown, turn, registry>>
    BY <1>1, <2>0 DEF CallLookup, Awake
  <2> HIDE DEF k
  <2>3. QuietCalls
    BY <2>0, <2>1, <2>2, QuietCall
  <2> QED BY <2>2, <2>3, QuietWhenSame, QuietBatches
<1>2. ASSUME NEW c \in Calls, CallCancelled(c) PROVE BatchInv'
  BY <1>2, QuietCallAt, QuietWhenSame, QuietBatches DEF CallCancelled
<1>3. ASSUME NEW r \in Runs, NEW d \in Deltas, ReadDelta(r, d) PROVE BatchInv'
  <2> DEFINE q == run[r].waiter
             t == [turn[q] EXCEPT !.streamed = @ \cup {d}]
             rr == [run[r] EXCEPT !.text = @ \cup {d}]
  <2>1. UNCHANGED <<announcer, teardown, call, registry>>
    BY <1>3 DEF ReadDelta
  <2>2. rr.fresh = run[r].fresh /\ rr.announced = run[r].announced
    BY DEF TypeOK, Run
  <2>3. q # None => q \in Turns
    BY DEF TypeOK, Run
  <2>4. q \in Turns => /\ t.pc = turn[q].pc /\ t.run = turn[q].run /\ t.answer = turn[q].answer
                       /\ t.ids = turn[q].ids /\ t.sends = turn[q].sends
    BY DEF TypeOK, Turn
  <2>5. CASE UNCHANGED <<run, turn>>
    BY <2>1, <2>5, QuietWhenSame, QuietBatches
  <2>6. CASE q \in Turns /\ RunBecomes(r, rr) /\ TurnBecomes(q, t)
    <3>1. OnlyTurn(q) /\ turn'[q] = t
      BY <2>6, TurnAfter
    <3>2. turn[q].pc \in {"found", "delivering"} => turn[q].ids \subseteq Known
      BY <2>6 DEF BatchInv, TurnBatches
    <3> HIDE DEF t, rr, q
    <3>3. QuietTurn(q)
      BY <2>4, <2>6, <3>1, <3>2 DEF QuietTurn, Batch
    <3>4. QuietTurns
      BY <2>6, <3>1, <3>3, TurnQuiet
    <3>5. QuietRuns
      BY <2>2, <2>6, OneRunQuiet
    <3> QED BY <2>1, <3>4, <3>5, QuietWhenSame, QuietBatches
  <2> QED BY <1>3, <2>3, <2>5, <2>6 DEF ReadDelta
<1>4. CASE \/ \E r \in Runs : StreamEnds(r)
           \/ AbortParkedToolRuns
           \/ \E p \in Processes : FailToolRunsForProcess(p)
  BY <1>4, QuietWhenSame, QuietBatches DEF StreamEnds, AbortParkedToolRuns, FailToolRunsForProcess
<1> QED BY <1>1, <1>2, <1>3, <1>4 DEF BridgeStep

LEMMA BatchNext == ASSUME TypeOK, HolderInv, TurnsFit, BatchInv, [Next]_vars PROVE BatchInv'
<1>1. ASSUME NEW q \in Turns, TurnStep(q) PROVE BatchInv'
  BY <1>1, BatchTurnStep, BatchReply, BatchDeliver
<1>2. CASE UNCHANGED vars
  BY <1>2, QuietWhenSame, QuietBatches DEF vars, registry
<1> QED BY <1>1, <1>2, BatchClientStep, BatchCallStep, BatchRunStep, BatchBridgeStep DEF Next

LEMMA BatchInit == Init => BatchInv
<1> SUFFICES ASSUME Init PROVE BatchInv
  OBVIOUS
<1>1. ASSUME NEW r \in Runs PROVE RunBatches(r)
  BY DEF Init, RunBatches, NoAnswer
<1>2. ASSUME NEW q \in Turns PROVE TurnBatches(q)
  BY DEF Init, TurnBatches, NoAnswer, Batch
<1>3. ASSUME NEW c \in Calls PROVE CallBatches(c)
  BY DEF Init, CallBatches
<1> QED BY <1>1, <1>2, <1>3 DEF BatchInv

\* A call id that a client holds and may answer leads to its run: the ids are registered
\* between the taking of the batch and its answer, and go when they are delivered.
THEOREM IdsAlwaysResolve == Spec => []IdsResolve
<1>1. BatchInv => IdsResolve
  <2> SUFFICES ASSUME BatchInv, NEW q \in Turns, NEW r \in Runs,
                      teardown[r].stage \in {"none", "marked"},
                      NEW c \in turn[q].answer.batch \cap run[r].announced
               PROVE  byExposedCallID[c] = r
    BY DEF IdsResolve
  <2> QED BY DEF BatchInv, RunBatches, Batch, Live
<1> QED BY <1>1, TypeInit, TypeNext, HolderInit, HolderNext, EndInit, EndNext, BatchInit,
           BatchNext, PTL DEF Spec, EndInv

\* No call is told of twice, and results arrive by whole batches that a turn of the run
\* announced.
THEOREM BatchesStayWhole == Spec => []BatchesAreWhole
<1>1. BatchInv => CallToldOnce
  BY DEF BatchInv, TurnBatches, CallToldOnce, Batch
<1>2. BatchInv => WholeBatchDelivered
  BY DEF BatchInv, CallBatches, Replied, ToldByReturned, WholeBatchDelivered, Batch
<1>3. BatchInv => BatchesAreWhole
  BY <1>1, <1>2 DEF BatchesAreWhole
<1> QED BY <1>3, TypeInit, TypeNext, HolderInit, HolderNext, EndInit, EndNext, BatchInit,
           BatchNext, PTL DEF Spec, EndInv

(***************************************************************************)
(* What is streamed to a turn.  While a run has the turn's waiter, its     *)
(* text has what the turn has heard; the text goes on with the waiter, and *)
(* so into the answer.  A reader in a callback keeps the turn from         *)
(* returning.                                                              *)
(***************************************************************************)

\* Where a turn may stand while its waiter is attached, and where its own end may have
\* given it an answer.
Attachable == {"attached", "failing", "delivering", "replying", "detaching", "waiting"}
Late == {"aborting", "draining", "returned"}

FinishedFirst == \A r \in Runs : teardown[r].stage # "none" => run[r].finished /\ run[r].waiter = None

RunText(r, q) ==
  HeldByRun(r, q) =>
    /\ turn[q].pc \in Attachable
    /\ turn[q].streamed \subseteq run[r].text
    /\ reader[r].pc = "completing" => turn[q].streamed \subseteq reader[r].text

AnswerText(r, q) ==
  /\ HeldByAnnouncer(r, q) => turn[q].streamed \subseteq announcer[r].answer.text
  /\ HeldByTeardown(r, q) /\ teardown[r].answer.kind \in {"calls", "final"} =>
       turn[q].streamed \subseteq teardown[r].answer.text

DeltaFits(r) ==
  LET q == reader[r].waiter IN
  reader[r].pc = "delta" =>
    q \in Turns /\ turn[q].run = r /\ turn[q].pc \notin Early /\ ~turn[q].waited

TurnText(q) ==
  /\ turn[q].pc \in Early => turn[q].streamed = {}
  /\ turn[q].waited => turn[q].pc = "returned"
  /\ turn[q].sends = 0 /\ turn[q].pc \notin Late => turn[q].answer = NoAnswer
  /\ turn[q].answer.kind \in {"calls", "final"} => turn[q].streamed \subseteq turn[q].answer.text

RunTexts == \A r \in Runs, q \in Turns : RunText(r, q)
AnswerTexts == \A r \in Runs, q \in Turns : AnswerText(r, q)
DeltasFit == \A r \in Runs : DeltaFits(r)
TurnTexts == \A q \in Turns : TurnText(q)

DeltaInv == RunTexts /\ AnswerTexts /\ DeltasFit /\ TurnTexts

(* A run is finished before anything else its teardown does, and stays so. *)

RunStays(r) ==
  /\ run[r].finished => run'[r].finished /\ (run[r].waiter = None => run'[r].waiter = None)
  /\ teardown'[r].stage # "none" => teardown[r].stage # "none"

LEMMA FinishedStays ==
  ASSUME FinishedFirst, \A r \in Runs : RunStays(r)
  PROVE  FinishedFirst'
BY DEF FinishedFirst, RunStays

LEMMA FinishedBegins ==
  ASSUME TypeOK, FinishedFirst, NEW r, NEW answer, Begin(r, answer)
  PROVE  FinishedFirst'
<1>1. r \in Runs => Finished(run[r]).finished /\ Finished(run[r]).waiter = None
  BY DEF TypeOK, Run, Finished
<1> QED BY <1>1 DEF TypeOK, FinishedFirst, Begin, RunBecomes, TeardownBecomes

LEMMA OneRunStays ==
  ASSUME TypeOK, NEW r, NEW rr, RunBecomes(r, rr),
         r \in Runs /\ run[r].finished => rr.finished /\ (run[r].waiter = None => rr.waiter = None),
         UNCHANGED teardown
  PROVE  \A p \in Runs : RunStays(p)
BY DEF TypeOK, RunBecomes, RunStays

LEMMA FinishedHelpers ==
  ASSUME NEW rr \in Run
  PROVE  /\ \A q : ~rr.finished => ~Attached(rr, q).finished
         /\ Delivered(rr).finished = rr.finished /\ Delivered(rr).waiter = rr.waiter
         /\ Taken(rr).finished = rr.finished /\ Taken(rr).waiter = None
         /\ \A c : WithCall(rr, c).finished = rr.finished /\ WithCall(rr, c).waiter = rr.waiter
         /\ [rr EXCEPT !.timers = @ \ {"batch"}].finished = rr.finished
         /\ [rr EXCEPT !.timers = @ \ {"batch"}].waiter = rr.waiter
         /\ [rr EXCEPT !.timers = @ \ {"result"}].finished = rr.finished
         /\ [rr EXCEPT !.timers = @ \ {"result"}].waiter = rr.waiter
         /\ [rr EXCEPT !.waiter = None].finished = rr.finished
         /\ [rr EXCEPT !.waiter = None].waiter = None
         /\ \A q : [rr EXCEPT !.waiter = IF @ = q THEN None ELSE @].finished = rr.finished
         /\ \A q : rr.waiter = None => [rr EXCEPT !.waiter = IF @ = q THEN None ELSE @].waiter = None
         /\ \A d : [rr EXCEPT !.text = @ \cup {d}].finished = rr.finished
         /\ \A d : [rr EXCEPT !.text = @ \cup {d}].waiter = rr.waiter
BY DEF Attached, Delivered, Taken, WithCall, Scheduled, Run

LEMMA FinishedNext == ASSUME TypeOK, FinishedFirst, [Next]_vars PROVE FinishedFirst'
<1>0. \A r \in Runs : run[r] \in Run
  BY DEF TypeOK
<1>1. ASSUME NEW r, NEW answer, Begin(r, answer) PROVE FinishedFirst'
  BY <1>1, FinishedBegins
<1>2. CASE UNCHANGED <<run, teardown>>
  BY <1>2, FinishedStays DEF RunStays
<1>3. ASSUME NEW r, NEW rr, RunBecomes(r, rr), UNCHANGED teardown,
             r \in Runs /\ run[r].finished => rr.finished /\ (run[r].waiter = None => rr.waiter = None)
      PROVE  FinishedFirst'
  BY <1>3, OneRunStays, FinishedStays
<1>4. ASSUME NEW q \in Turns, TurnStep(q) PROVE FinishedFirst'
  <2> DEFINE r == turn[q].run
  <2>1. CASE AttachStart(q) \/ AttachResume(q)
    <3>1. CASE MayAttach(r)
      BY <1>3, <2>1, <3>1 DEF AttachStart, AttachResume, MayAttach
    <3>2. CASE ~MayAttach(r)
      BY <1>2, <2>1, <3>2 DEF AttachStart, AttachResume
    <3> QED BY <3>1, <3>2
  <2>2. CASE Deliver(q)
    BY <1>0, <1>2, <1>3, <2>2, FinishedHelpers DEF Deliver
  <2>3. CASE Detach(q)
    <3> DEFINE rr == [run[r] EXCEPT !.waiter = IF @ = q THEN None ELSE @]
    <3>1. r \in Runs => rr.finished = run[r].finished /\ (run[r].waiter = None => rr.waiter = None)
      BY <1>0 DEF Run
    <3>2. RunBecomes(r, rr) /\ UNCHANGED teardown
      BY <2>3 DEF Detach
    <3> HIDE DEF rr
    <3> QED BY <1>3, <3>1, <3>2
  <2>4. CASE TurnAborts(q)
    BY <1>1, <2>4 DEF TurnAborts
  <2> QED BY <1>2, <1>4, <2>1, <2>2, <2>3, <2>4
       DEF TurnStep, OpenSend, SendFails, DeliverReply, ReceiveTurn, TurnAborted, ReturnTurn
<1>5. ASSUME NEW q \in Turns, ClientStep(q) PROVE FinishedFirst'
  <2> DEFINE r == turn[q].run
             rr == [run[r] EXCEPT !.waiter = None]
  <2>1. r \in Runs => rr.finished = run[r].finished /\ rr.waiter = None
    BY <1>0 DEF Run
  <2>2. CASE UNCHANGED teardown /\ RunBecomes(r, rr)
    <3> HIDE DEF rr
    <3> QED BY <1>3, <2>1, <2>2
  <2> QED BY <1>2, <1>5, <2>2 DEF ClientStep, StartRun, LookupResume, CancelTurn
<1>6. ASSUME NEW c \in Calls, CallStep(c) PROVE FinishedFirst'
  <2>1. CASE UNCHANGED teardown /\ ~run[call[c].run].finished
             /\ RunBecomes(call[c].run, WithCall(run[call[c].run], c))
    BY <1>3, <2>1
  <2>2. CASE CallPark(c)
    BY <1>2, <2>1, <2>2 DEF CallPark
  <2> QED BY <1>1, <1>2, <1>6, <2>2 DEF CallStep, CallReplied, CallRunDone, CallAborts, CallAborted
<1>7. ASSUME NEW r \in Runs, RunStep(r) PROVE FinishedFirst'
  <2>b. CASE AnnounceTake(r) /\ MayAnnounce(run[r])
    <3>1. RunBecomes(r, Taken(run[r])) /\ UNCHANGED teardown
      BY <2>b DEF AnnounceTake
    <3>2. Taken(run[r]).finished = run[r].finished /\ Taken(run[r]).waiter = None
      BY <1>0, FinishedHelpers
    <3> QED BY <1>3, <3>1, <3>2
  <2>c. CASE AnnounceTake(r) /\ ~MayAnnounce(run[r])
    <3> DEFINE rr == [run[r] EXCEPT !.timers = @ \ {"batch"}]
    <3>1. RunBecomes(r, rr) /\ UNCHANGED teardown
      BY <2>c DEF AnnounceTake
    <3>2. rr.finished = run[r].finished /\ rr.waiter = run[r].waiter
      BY <1>0, FinishedHelpers
    <3> HIDE DEF rr
    <3> QED BY <1>3, <3>1, <3>2
  <2>d. CASE ResultTimerFires(r)
    <3> DEFINE rr == [run[r] EXCEPT !.timers = @ \ {"result"}]
    <3>1. RunBecomes(r, rr) /\ UNCHANGED teardown
      BY <2>d DEF ResultTimerFires
    <3>2. rr.finished = run[r].finished /\ rr.waiter = run[r].waiter
      BY <1>0, FinishedHelpers
    <3> HIDE DEF rr
    <3> QED BY <1>3, <3>1, <3>2
  <2>1. CASE AnnounceTake(r) \/ ResultTimerFires(r)
    BY <2>1, <2>b, <2>c, <2>d
  <2>2. CASE TimeoutAborts(r) \/ ReaderEndsRun(r) \/ StopperAborts(r)
    BY <1>1, <2>2 DEF TimeoutAborts, ReaderEndsRun, StopperAborts
  <2>3. CASE TeardownStep(r)
    <3>1. UNCHANGED run /\ teardown[r].stage # "none"
      BY <2>3 DEF TeardownStep, TeardownCancel, TeardownUnregister, TeardownRelease, TeardownAnswer
    <3>2. \A p \in Runs : p # r => teardown'[p] = teardown[p]
      BY <2>3 DEF TeardownStep, TeardownCancel, TeardownUnregister, TeardownRelease, TeardownAnswer,
                  TeardownAt, TeardownBecomes, TypeOK
    <3> QED BY <3>1, <3>2, FinishedStays DEF RunStays
  <2> QED BY <1>2, <1>7, <2>1, <2>2, <2>3 DEF RunStep, AnnounceRegister, AnnounceAnswer, DeltaDone, ReaderExits
<1>8. CASE BridgeStep
  <2>1. ASSUME NEW r \in Runs, NEW d \in Deltas, ReadDelta(r, d) PROVE FinishedFirst'
    <3> DEFINE rr == [run[r] EXCEPT !.text = @ \cup {d}]
    <3>1. rr.finished = run[r].finished /\ rr.waiter = run[r].waiter
      BY <1>0 DEF Run
    <3>2. UNCHANGED teardown /\ (UNCHANGED run \/ RunBecomes(r, rr))
      BY <2>1 DEF ReadDelta
    <3> HIDE DEF rr
    <3> QED BY <1>2, <1>3, <3>1, <3>2
  <2> QED BY <1>2, <1>8, <2>1
       DEF BridgeStep, CallLookup, CallCancelled, StreamEnds, AbortParkedToolRuns, FailToolRunsForProcess
<1>9. CASE UNCHANGED vars
  BY <1>2, <1>9 DEF vars
<1> QED BY <1>4, <1>5, <1>6, <1>7, <1>8, <1>9 DEF Next

(* Steps that stream nothing and hand nothing on. *)

StillRuns ==
  \A r \in Runs, q \in Turns : HeldByRun(r, q)' => HeldByRun(r, q) /\ run[r].text \subseteq run'[r].text

StillAnnouncers ==
  \A r \in Runs, q \in Turns : HeldByAnnouncer(r, q)' =>
    HeldByAnnouncer(r, q) /\ announcer'[r].answer = announcer[r].answer

StillTeardowns ==
  \A r \in Runs, q \in Turns : HeldByTeardown(r, q)' =>
    HeldByTeardown(r, q) /\ teardown'[r].answer = teardown[r].answer

StillEnding ==
  \A r \in Runs : reader'[r].pc = "completing" =>
    reader[r].pc = "completing" /\ reader'[r].text = reader[r].text

StillReading ==
  \A r \in Runs : reader'[r].pc = "delta" =>
    reader[r].pc = "delta" /\ reader'[r].waiter = reader[r].waiter

StillTurn(q) ==
  /\ turn'[q].streamed = turn[q].streamed
  /\ turn[q].pc \notin Early => turn'[q].pc \notin Early /\ turn'[q].run = turn[q].run
  /\ turn[q].pc \in Attachable /\ (\E r \in Runs : HeldByRun(r, q)') => turn'[q].pc \in Attachable
  /\ turn'[q].waited => turn'[q].pc = "returned" /\ (turn[q].waited \/ reader[turn[q].run].pc # "delta")

StillAnswer(q) ==
  /\ turn'[q].sends = 0 /\ turn'[q].pc \notin Late =>
       turn[q].sends = 0 /\ turn[q].pc \notin Late /\ turn'[q].answer = turn[q].answer
  /\ turn'[q].answer = turn[q].answer \/ turn'[q].answer.kind \notin {"calls", "final"}

StillTurns == \A q \in Turns : StillTurn(q)
StillAnswers == \A q \in Turns : StillAnswer(q)

LEMMA StillWhenSame ==
  ASSUME DeltaInv
  PROVE  /\ UNCHANGED run => StillRuns
         /\ UNCHANGED announcer => StillAnnouncers
         /\ UNCHANGED teardown => StillTeardowns
         /\ UNCHANGED reader => StillEnding /\ StillReading
         /\ UNCHANGED turn => StillTurns /\ StillAnswers
<1>1. UNCHANGED run => StillRuns
  BY DEF StillRuns, HeldByRun
<1>2. UNCHANGED announcer => StillAnnouncers
  BY DEF StillAnnouncers, HeldByAnnouncer
<1>3. UNCHANGED teardown => StillTeardowns
  BY DEF StillTeardowns, HeldByTeardown
<1>4. UNCHANGED reader => StillEnding /\ StillReading
  BY DEF StillEnding, StillReading
<1>5. UNCHANGED turn => StillTurns /\ StillAnswers
  BY DEF StillTurns, StillTurn, StillAnswers, StillAnswer, DeltaInv, TurnTexts, TurnText
<1> QED BY <1>1, <1>2, <1>3, <1>4, <1>5

LEMMA StillRunTexts ==
  ASSUME DeltaInv, StillRuns, StillEnding, StillTurns
  PROVE  RunTexts'
<1> SUFFICES ASSUME NEW r \in Runs, NEW q \in Turns, HeldByRun(r, q)'
             PROVE  /\ turn'[q].pc \in Attachable
                    /\ turn'[q].streamed \subseteq run'[r].text
                    /\ reader'[r].pc = "completing" => turn'[q].streamed \subseteq reader'[r].text
  BY DEF RunTexts, RunText
<1>1. HeldByRun(r, q) /\ run[r].text \subseteq run'[r].text
  BY DEF StillRuns
<1>2. RunText(r, q)
  BY DEF DeltaInv, RunTexts
<1> QED BY <1>1, <1>2 DEF RunText, StillEnding, StillTurns, StillTurn

LEMMA StillAnswerTexts ==
  ASSUME DeltaInv, StillAnnouncers, StillTeardowns, StillTurns
  PROVE  AnswerTexts'
<1> SUFFICES ASSUME NEW r \in Runs, NEW q \in Turns PROVE AnswerText(r, q)'
  BY DEF AnswerTexts
<1>1. AnswerText(r, q) /\ turn'[q].streamed = turn[q].streamed
  BY DEF DeltaInv, AnswerTexts, StillTurns, StillTurn
<1>2. HeldByAnnouncer(r, q)' => turn'[q].streamed \subseteq announcer'[r].answer.text
  BY <1>1 DEF AnswerText, StillAnnouncers
<1>3. HeldByTeardown(r, q)' /\ teardown'[r].answer.kind \in {"calls", "final"} =>
        turn'[q].streamed \subseteq teardown'[r].answer.text
  BY <1>1 DEF AnswerText, StillTeardowns
<1> QED BY <1>2, <1>3 DEF AnswerText

LEMMA StillDeltasFit ==
  ASSUME DeltaInv, StillReading, StillTurns
  PROVE  DeltasFit'
<1> SUFFICES ASSUME NEW r \in Runs, reader'[r].pc = "delta"
             PROVE  LET p == reader'[r].waiter IN
                    p \in Turns /\ turn'[p].run = r /\ turn'[p].pc \notin Early /\ ~turn'[p].waited
  BY DEF DeltasFit, DeltaFits
<1>1. reader[r].pc = "delta" /\ reader'[r].waiter = reader[r].waiter
  BY DEF StillReading
<1>2. reader[r].waiter \in Turns
  BY <1>1 DEF DeltaInv, DeltasFit, DeltaFits
<1>3. /\ turn[reader[r].waiter].run = r
      /\ turn[reader[r].waiter].pc \notin Early
      /\ ~turn[reader[r].waiter].waited
  BY <1>1 DEF DeltaInv, DeltasFit, DeltaFits
<1> QED BY <1>1, <1>2, <1>3 DEF StillTurns, StillTurn

LEMMA StillTurnTexts ==
  ASSUME DeltaInv, StillTurns, StillAnswers
  PROVE  TurnTexts'
BY DEF DeltaInv, TurnTexts, TurnText, StillTurns, StillTurn, StillAnswers, StillAnswer

LEMMA StillDeltas ==
  ASSUME DeltaInv, StillRuns, StillAnnouncers, StillTeardowns, StillEnding, StillReading,
         StillTurns, StillAnswers
  PROVE  DeltaInv'
BY StillRunTexts, StillAnswerTexts, StillDeltasFit, StillTurnTexts DEF DeltaInv

LEMMA OneTurnStill ==
  ASSUME DeltaInv, NEW q \in Turns, OnlyTurn(q), StillTurn(q)
  PROVE  StillTurns
<1>1. StillTurn(q)
  OBVIOUS
<1>2. ASSUME NEW p \in Turns, p # q PROVE StillTurn(p)
  BY <1>2 DEF StillTurn, OnlyTurn, DeltaInv, TurnTexts, TurnText
<1> QED BY <1>1, <1>2 DEF StillTurns

LEMMA OneAnswerStill ==
  ASSUME DeltaInv, NEW q \in Turns, OnlyTurn(q), StillAnswer(q)
  PROVE  StillAnswers
BY DEF StillAnswer, StillAnswers, OnlyTurn

LEMMA OneRunStill ==
  ASSUME TypeOK, NEW r, NEW rr, RunBecomes(r, rr),
         r \in Runs => rr.waiter = None \/ (rr.waiter = run[r].waiter /\ run[r].text \subseteq rr.text)
  PROVE  StillRuns
BY ConstantsAssumption DEF TypeOK, RunBecomes, StillRuns, HeldByRun

LEMMA TextHelpers ==
  ASSUME NEW rr \in Run
  PROVE  /\ \A q : Attached(rr, q).text = rr.text
         /\ Delivered(rr).text = rr.text
         /\ \A c : WithCall(rr, c).text = rr.text
         /\ Finished(rr).text = rr.text
         /\ \A t : [rr EXCEPT !.timers = t].text = rr.text
         /\ \A w : [rr EXCEPT !.waiter = w].text = rr.text
         /\ \A t : [rr EXCEPT !.text = t].text = t
BY DEF Attached, Finished, Delivered, WithCall, Scheduled, Run

\* A turn moves on; one that its run holds stays where a waiter may be attached.
LEMMA StillAt ==
  ASSUME TypeOK, DeltaInv, NEW q \in Turns, NEW pc, TurnAt(q, pc),
         turn[q].pc # "returned", turn[q].pc \in Late => pc \in Late, pc \notin Early,
         pc \in Attachable \/ ~\E r \in Runs : HeldByRun(r, q)'
  PROVE  StillTurns /\ StillAnswers
<1>1. /\ OnlyTurn(q) /\ Kept(q) /\ turn'[q].pc = pc
      /\ turn'[q].answer = turn[q].answer /\ turn'[q].sends = turn[q].sends
  BY TurnAtKeeps
<1>2. ~turn[q].waited
  BY DEF DeltaInv, TurnTexts, TurnText
<1>3. StillTurn(q)
  BY <1>1, <1>2 DEF StillTurn, Kept
<1>4. StillAnswer(q)
  BY <1>1 DEF StillAnswer
<1> QED BY <1>1, <1>3, <1>4, OneTurnStill, OneAnswerStill

LEMMA StillReject ==
  ASSUME TypeOK, DeltaInv, NEW q \in Turns, NEW kind, Reject(q, kind), kind \notin {"calls", "final"},
         turn[q].pc # "returned", ~\E r \in Runs : HeldByRun(r, q)'
  PROVE  StillTurns /\ StillAnswers
<1>1. /\ OnlyTurn(q) /\ Kept(q) /\ turn'[q].pc = "returned"
      /\ turn'[q].answer.kind = kind /\ turn'[q].sends = turn[q].sends
  BY RejectKeeps, FailureKind
<1>2. ~turn[q].waited
  BY DEF DeltaInv, TurnTexts, TurnText
<1>3. StillTurn(q)
  BY <1>1, <1>2 DEF StillTurn, Kept, Early
<1>4. StillAnswer(q)
  BY <1>1 DEF StillAnswer, Late
<1> QED BY <1>1, <1>3, <1>4, OneTurnStill, OneAnswerStill

(* The steps that hand a text on. *)

LEMMA DeltaBegins ==
  ASSUME TypeOK, DeltaInv, NEW r, NEW answer, Begin(r, answer), UNCHANGED <<announcer, reader, turn>>,
         r \in Runs /\ answer.kind \in {"calls", "final"} =>
           \A q \in Turns : HeldByRun(r, q) => turn[q].streamed \subseteq answer.text
  PROVE  DeltaInv'
<1>1. StillRuns
  <2>1. r \in Runs => Finished(run[r]).waiter = None
    BY Waiters DEF TypeOK
  <2> QED BY <2>1, OneRunStill DEF Begin
<1>2. AnswerTexts'
  <2> SUFFICES ASSUME NEW p \in Runs, NEW q \in Turns PROVE AnswerText(p, q)'
    BY DEF AnswerTexts
  <2>1. AnswerText(p, q)
    BY DEF DeltaInv, AnswerTexts
  <2>2. p # r => teardown'[p] = teardown[p]
    BY DEF TypeOK, Begin, TeardownBecomes
  <2>3. p = r => teardown'[p].waiter = run[r].waiter /\ teardown'[p].answer = answer
    BY DEF TypeOK, Begin, TeardownBecomes, Teardown
  <2> QED BY <2>1, <2>2, <2>3 DEF AnswerText, HeldByRun, HeldByAnnouncer, HeldByTeardown
<1> QED BY <1>1, <1>2, StillWhenSame, StillRunTexts, StillDeltasFit, StillTurnTexts DEF DeltaInv

LEMMA DeltaAttach ==
  ASSUME TypeOK, HolderInv, DeltaInv, NEW q \in Turns, NEW pc \in Attachable, turn[q].pc \in Early,
         TurnAt(q, pc), RunBecomes(turn[q].run, Attached(run[turn[q].run], q)),
         UNCHANGED <<announcer, reader, teardown>>
  PROVE  DeltaInv'
<1> DEFINE r == turn[q].run
<1>1. /\ OnlyTurn(q) /\ Kept(q) /\ turn'[q].pc = pc
      /\ turn'[q].answer = turn[q].answer /\ turn'[q].sends = turn[q].sends
  BY TurnAtKeeps
<1>2. StillTurns /\ StillAnswers
  BY StillAt DEF Attachable, Early, Late
<1>3. RunTexts'
  <2> SUFFICES ASSUME NEW p \in Runs, NEW s \in Turns PROVE RunText(p, s)'
    BY DEF RunTexts
  <2>1. RunText(p, s)
    BY DEF DeltaInv, RunTexts
  <2>2. ~HeldByRun(p, q)
    BY DEF HolderInv, HeldUnanswered, Held
  <2>3. CASE p # r
    <3>1. run'[p] = run[p]
      BY <2>3 DEF TypeOK, RunBecomes
    <3> QED BY <1>1, <2>1, <2>2, <3>1 DEF RunText, HeldByRun, OnlyTurn
  <2>4. CASE p = r
    <3>1. run'[p].waiter = q
      BY <2>4, Waiters DEF TypeOK, RunBecomes
    <3>2. turn'[q].streamed = {}
      BY <1>1 DEF Kept, DeltaInv, TurnTexts, TurnText
    <3> QED BY <1>1, <3>1, <3>2 DEF RunText, HeldByRun
  <2> QED BY <2>3, <2>4
<1> QED BY <1>2, <1>3, StillWhenSame, StillAnswerTexts, StillDeltasFit, StillTurnTexts DEF DeltaInv

LEMMA DeltaTake ==
  ASSUME TypeOK, DeltaInv, NEW r \in Runs, AnnounceTake(r), MayAnnounce(run[r])
  PROVE  DeltaInv'
<1>1. UNCHANGED <<reader, teardown, turn>> /\ RunBecomes(r, Taken(run[r]))
  BY DEF AnnounceTake
<1>2. StillRuns
  <2>1. Taken(run[r]).waiter = None
    BY Waiters DEF TypeOK
  <2> QED BY <1>1, <2>1, OneRunStill
<1>3. AnswerTexts'
  <2> SUFFICES ASSUME NEW p \in Runs, NEW q \in Turns PROVE AnswerText(p, q)'
    BY DEF AnswerTexts
  <2>1. AnswerText(p, q) /\ RunText(p, q)
    BY DEF DeltaInv, AnswerTexts, RunTexts
  <2>2. p # r => announcer'[p] = announcer[p]
    BY DEF AnnounceTake, AnnouncerBecomes, TypeOK
  <2>3. p = r => announcer'[p].waiter = run[r].waiter /\ announcer'[p].answer.text = run[r].text
    BY DEF AnnounceTake, AnnouncerBecomes, TypeOK
  <2> QED BY <1>1, <2>1, <2>2, <2>3
       DEF AnswerText, RunText, HeldByRun, HeldByAnnouncer, HeldByTeardown
<1> QED BY <1>1, <1>2, <1>3, StillWhenSame, StillRunTexts, StillDeltasFit, StillTurnTexts DEF DeltaInv

LEMMA DeltaRead ==
  ASSUME TypeOK, HolderInv, DeltaInv, NEW r \in Runs, NEW d \in Deltas, ReadDelta(r, d),
         run[r].waiter # None
  PROVE  DeltaInv'
<1> DEFINE q == run[r].waiter
           rr == [run[r] EXCEPT !.text = @ \cup {d}]
           t == [turn[q] EXCEPT !.streamed = @ \cup {d}]
           v == [reader[r] EXCEPT !.seen = @ \cup {d}, !.pc = "delta", !.waiter = q]
<1>1. q \in Turns /\ HeldByRun(r, q)
  BY DEF TypeOK, Run, HeldByRun
<1>2. UNCHANGED <<announcer, teardown>> /\ RunBecomes(r, rr) /\ TurnBecomes(q, t) /\ ReaderBecomes(r, v)
  BY DEF ReadDelta
<1>3. rr.text = run[r].text \cup {d} /\ rr.waiter = q
  BY DEF TypeOK, Run
<1>4. /\ t.streamed = turn[q].streamed \cup {d} /\ t.pc = turn[q].pc /\ t.run = turn[q].run
      /\ t.waited = turn[q].waited /\ t.answer = turn[q].answer /\ t.sends = turn[q].sends
  BY <1>1 DEF TypeOK, Turn
<1>5. v.pc = "delta" /\ v.waiter = q
  BY DEF TypeOK, Reader
<1> HIDE DEF rr, t, v
<1>6. run'[r] = rr /\ \A p \in Runs : p # r => run'[p] = run[p]
  BY <1>2 DEF TypeOK, RunBecomes
<1>7. turn'[q] = t /\ OnlyTurn(q)
  BY <1>1, <1>2, TurnAfter
<1>8. reader'[r] = v /\ \A p \in Runs : p # r => reader'[p] = reader[p]
  BY <1>2 DEF TypeOK, ReaderBecomes
<1>9. /\ turn[q].run = r /\ turn[q].sends = 0 /\ turn[q].pc \notin Early
      /\ turn[q].pc \in Attachable /\ turn[q].streamed \subseteq run[r].text
      /\ turn[q].answer = NoAnswer /\ ~turn[q].waited
  BY <1>1 DEF HolderInv, HeldUnanswered, Held, DeltaInv, RunTexts, RunText, TurnTexts, TurnText,
              Attachable, Late
<1>10. \A p \in Runs : /\ HeldByRun(p, q) => p = r
                       /\ ~HeldByAnnouncer(p, q) /\ ~HeldByTeardown(p, q)
  BY <1>1, <1>9 DEF HolderInv, HeldUnanswered, Held, OneHolder
<1> HIDE DEF q
<1>11. RunTexts'
  <2> SUFFICES ASSUME NEW p \in Runs, NEW s \in Turns PROVE RunText(p, s)'
    BY DEF RunTexts
  <2>1. RunText(p, s)
    BY DEF DeltaInv, RunTexts
  <2>2. CASE p = r
    <3>1. s # q => ~HeldByRun(p, s)'
      BY <1>3, <1>6, <2>2 DEF HeldByRun
    <3> QED BY <1>3, <1>4, <1>5, <1>6, <1>7, <1>8, <1>9, <2>2, <3>1 DEF RunText
  <2>3. CASE p # r
    <3>1. s = q => ~HeldByRun(p, s)'
      BY <1>6, <1>10, <2>3 DEF HeldByRun
    <3> QED BY <1>6, <1>7, <1>8, <2>1, <2>3, <3>1 DEF RunText, HeldByRun, OnlyTurn
  <2> QED BY <2>2, <2>3
<1>12. AnswerTexts'
  <2> SUFFICES ASSUME NEW p \in Runs, NEW s \in Turns PROVE AnswerText(p, s)'
    BY DEF AnswerTexts
  <2>1. AnswerText(p, s)
    BY DEF DeltaInv, AnswerTexts
  <2> QED BY <1>2, <1>7, <1>10, <2>1 DEF AnswerText, HeldByAnnouncer, HeldByTeardown, OnlyTurn
<1>13. DeltasFit'
  <2> SUFFICES ASSUME NEW p \in Runs PROVE DeltaFits(p)'
    BY DEF DeltasFit
  <2>1. CASE p = r
    BY <1>1, <1>4, <1>5, <1>7, <1>8, <1>9, <2>1 DEF DeltaFits
  <2>2. CASE p # r
    <3>1. DeltaFits(p) /\ reader'[p] = reader[p]
      BY <1>8, <2>2 DEF DeltaInv, DeltasFit
    <3> QED BY <1>4, <1>7, <3>1 DEF DeltaFits, OnlyTurn
  <2> QED BY <2>1, <2>2
<1>14. TurnTexts'
  <2> SUFFICES ASSUME NEW s \in Turns PROVE TurnText(s)'
    BY DEF TurnTexts
  <2>1. TurnText(s)
    BY DEF DeltaInv, TurnTexts
  <2>2. CASE s = q
    BY <1>4, <1>7, <1>9, <2>2 DEF TurnText, NoAnswer
  <2>3. CASE s # q
    BY <1>7, <2>1, <2>3 DEF TurnText, OnlyTurn
  <2> QED BY <2>2, <2>3
<1> QED BY <1>11, <1>12, <1>13, <1>14 DEF DeltaInv

LEMMA DeltaSend ==
  ASSUME TypeOK, DeltaInv, NEW q, NEW answer, Send(q, answer), UNCHANGED <<run, reader>>,
         StillAnnouncers, StillTeardowns,
         q \in Turns /\ answer.kind \in {"calls", "final"} => turn[q].streamed \subseteq answer.text
  PROVE  DeltaInv'
<1>1. CASE q \notin Turns
  <2>1. UNCHANGED turn
    BY <1>1 DEF TypeOK, Send, TurnBecomes
  <2> QED BY <2>1, StillWhenSame, StillDeltas
<1>2. CASE q \in Turns
  <2>1. /\ OnlyTurn(q) /\ Kept(q) /\ turn'[q].pc = turn[q].pc
        /\ turn'[q].answer = answer /\ turn'[q].sends = turn[q].sends + 1
    BY <1>2, SendKeeps
  <2>2. TurnText(q) /\ turn[q].sends \in Nat
    BY <1>2 DEF DeltaInv, TurnTexts, TypeOK, Turn
  <2>3. StillTurns
    BY <1>2, <2>1, <2>2, OneTurnStill DEF StillTurn, Kept, TurnText
  <2>4. TurnTexts'
    <3> SUFFICES ASSUME NEW s \in Turns PROVE TurnText(s)'
      BY DEF TurnTexts
    <3>1. CASE s = q
      BY <1>2, <2>1, <2>2, <3>1 DEF TurnText, Kept
    <3>2. CASE s # q
      BY <2>1, <3>2 DEF DeltaInv, TurnTexts, TurnText, OnlyTurn
    <3> QED BY <3>1, <3>2
  <2> QED BY <2>3, <2>4, StillWhenSame, StillRunTexts, StillAnswerTexts, StillDeltasFit DEF DeltaInv
<1> QED BY <1>1, <1>2

LEMMA DeltaTurnStep ==
  ASSUME TypeOK, HolderInv, FinishedFirst, DeltaInv, NEW q \in Turns, TurnStep(q)
  PROVE  DeltaInv'
<1> DEFINE r == turn[q].run
<1>a. r \in Runs => run[r] \in Run
  BY DEF TypeOK
<1>b. \A p \in Runs : HeldByRun(p, q) =>
        /\ p = r /\ turn[q].pc \in Attachable
        /\ turn[q].answer = NoAnswer
  BY DEF HolderInv, HeldUnanswered, Held, DeltaInv, RunTexts, RunText, TurnTexts, TurnText, Attachable, Late
<1>1. CASE TurnAborts(q)
  BY <1>1, DeltaBegins DEF TurnAborts, Failure
<1>2. CASE AttachStart(q) \/ AttachResume(q)
  <2>1. UNCHANGED <<announcer, reader, teardown>> /\ turn[q].pc \in Early
    BY <1>2 DEF AttachStart, AttachResume, Early
  <2>2. CASE MayAttach(r)
    <3>1. RunBecomes(r, Attached(run[r], q)) /\ (TurnAt(q, "attached") \/ TurnAt(q, "delivering"))
      BY <1>2, <2>2 DEF AttachStart, AttachResume
    <3> QED BY <2>1, <3>1, DeltaAttach DEF Attachable
  <2>3. CASE ~MayAttach(r)
    <3>1. UNCHANGED run /\ (TurnAt(q, "failing") \/ Reject(q, "rejected"))
      BY <1>2, <2>3 DEF AttachStart, AttachResume
    <3>2. ~\E p \in Runs : HeldByRun(p, q)'
      BY <1>b, <2>1, <3>1 DEF HeldByRun, Early, Attachable
    <3>3. StillTurns /\ StillAnswers
      BY <2>1, <3>1, <3>2, StillAt, StillReject DEF Early, Late
    <3> QED BY <2>1, <3>1, <3>3, StillWhenSame, StillDeltas
  <2> QED BY <2>2, <2>3
<1>3. CASE OpenSend(q) \/ SendFails(q) \/ Deliver(q) \/ DeliverReply(q)
  <2>1. UNCHANGED <<announcer, teardown>> /\ turn[q].pc \in {"attached", "delivering", "replying"}
    BY <1>3 DEF OpenSend, SendFails, Deliver, DeliverReply
  <2>2. \E pc \in Attachable : TurnAt(q, pc)
    BY <1>3 DEF OpenSend, SendFails, Deliver, DeliverReply, Attachable
  <2>3. StillTurns /\ StillAnswers
    BY <2>1, <2>2, StillAt DEF Late, Early, Attachable
  <2>4. StillRuns
    BY <1>a, <1>3, StillWhenSame, OneRunStill, Waiters, TextHelpers
       DEF OpenSend, SendFails, Deliver, DeliverReply
  <2>5. StillEnding /\ StillReading
    <3>1. UNCHANGED reader \/ ReaderAt(r, "reading")
      BY <1>3 DEF OpenSend, SendFails, Deliver, DeliverReply
    <3> QED BY <3>1 DEF StillEnding, StillReading, ReaderAt, ReaderBecomes, TypeOK, Reader
  <2> QED BY <2>1, <2>3, <2>4, <2>5, StillWhenSame, StillDeltas
<1>4. CASE Detach(q)
  <2> DEFINE rr == [run[r] EXCEPT !.waiter = IF @ = q THEN None ELSE @]
  <2>1. r \in Runs => rr.text = run[r].text /\ rr.waiter = IF run[r].waiter = q THEN None ELSE run[r].waiter
    BY <1>a DEF Run
  <2>2. UNCHANGED <<announcer, reader, teardown>> /\ turn[q].pc = "detaching"
        /\ RunBecomes(r, rr) /\ Reject(q, "rejected")
    BY <1>4 DEF Detach
  <2> HIDE DEF rr
  <2>3. StillRuns
    BY <2>1, <2>2, OneRunStill
  <2>4. ~\E p \in Runs : HeldByRun(p, q)'
    <3> SUFFICES ASSUME NEW p \in Runs, HeldByRun(p, q)' PROVE FALSE
      OBVIOUS
    <3>1. p = r
      BY <1>b, <2>3 DEF StillRuns
    <3>2. run'[p] = rr
      BY <2>2, <3>1 DEF RunBecomes, TypeOK
    <3> QED BY <2>1, <3>1, <3>2, ConstantsAssumption DEF HeldByRun
  <2>5. StillTurns /\ StillAnswers
    BY <2>2, <2>4, StillReject
  <2> QED BY <2>2, <2>3, <2>5, StillWhenSame, StillDeltas
<1>5. CASE ReceiveTurn(q) \/ TurnAborted(q)
  <2>1. UNCHANGED <<run, announcer, reader, teardown>>
    BY <1>5 DEF ReceiveTurn, TurnAborted
  <2>2. ~\E p \in Runs : HeldByRun(p, q)'
    <3> SUFFICES ASSUME NEW p \in Runs, HeldByRun(p, q) PROVE FALSE
      BY <2>1 DEF HeldByRun
    <3>1. p = r /\ turn[q].pc \in Attachable /\ turn[q].answer = NoAnswer
      BY <1>b
    <3>2. TurnAborted(q) /\ teardown[r].stage = "done"
      BY <1>5, <3>1 DEF ReceiveTurn, TurnAborted
    <3> QED BY <3>1, <3>2, ConstantsAssumption DEF FinishedFirst, HeldByRun
  <2>3. \/ TurnAt(q, "draining") /\ turn[q].pc \in {"waiting", "handover", "aborting"}
        \/ Reject(q, "failed") /\ turn[q].pc = "failing"
    BY <1>5 DEF ReceiveTurn, TurnAborted
  <2>4. StillTurns /\ StillAnswers
    BY <2>2, <2>3, StillAt, StillReject DEF Late, Early
  <2> QED BY <2>1, <2>4, StillWhenSame, StillDeltas
<1>6. CASE ReturnTurn(q)
  <2> DEFINE t == [turn[q] EXCEPT !.pc = "returned", !.waited = TRUE]
  <2>1. /\ t.pc = "returned" /\ t.run = r /\ t.answer = turn[q].answer
        /\ t.streamed = turn[q].streamed /\ t.sends = turn[q].sends /\ t.waited = TRUE
    BY DEF TypeOK, Turn
  <2>2. TurnBecomes(q, t) /\ turn[q].pc = "draining" /\ reader[r].pc # "delta"
        /\ UNCHANGED <<run, announcer, reader, teardown>>
    BY <1>6 DEF ReturnTurn, DeltaMuFree
  <2> HIDE DEF t
  <2>3. OnlyTurn(q) /\ turn'[q] = t
    BY <2>2, TurnAfter
  <2>4. StillTurn(q) /\ StillAnswer(q)
    BY <2>1, <2>2, <2>3 DEF StillTurn, StillAnswer, Early, Late, Attachable
  <2> QED BY <2>2, <2>3, <2>4, OneTurnStill, OneAnswerStill, StillWhenSame, StillDeltas
<1> QED BY <1>1, <1>2, <1>3, <1>4, <1>5, <1>6 DEF TurnStep

LEMMA DeltaClientStep ==
  ASSUME TypeOK, HolderInv, DeltaInv, NEW q \in Turns, ClientStep(q)
  PROVE  DeltaInv'
<1>a. turn[q] \in Turn
  BY DEF TypeOK
<1>b. \A t : turn[q].pc \in Early /\ OnlyTurn(q) /\ turn'[q] = t /\ t.pc \in Early
             /\ t.streamed = turn[q].streamed /\ t.answer = turn[q].answer /\ t.waited = turn[q].waited
             /\ t.sends = turn[q].sends
             => StillTurns /\ StillAnswers
  <2> SUFFICES ASSUME NEW t, turn[q].pc \in Early, OnlyTurn(q), turn'[q] = t, t.pc \in Early,
                      t.streamed = turn[q].streamed, t.answer = turn[q].answer,
                      t.waited = turn[q].waited, t.sends = turn[q].sends
               PROVE  StillTurn(q) /\ StillAnswer(q)
    BY OneTurnStill, OneAnswerStill
  <2>1. ~turn[q].waited /\ turn[q].sends = 0
    BY DEF DeltaInv, TurnTexts, TurnText, HolderInv, Early
  <2> QED BY <2>1 DEF StillTurn, StillAnswer, Early, Late, Attachable
<1>1. ASSUME NEW r \in Runs, StartRun(q, r) PROVE DeltaInv'
  <2> DEFINE t == [turn[q] EXCEPT !.pc = "registered", !.run = r]
  <2>1. /\ t.pc \in Early /\ t.answer = turn[q].answer /\ t.sends = turn[q].sends
        /\ t.streamed = turn[q].streamed /\ t.waited = turn[q].waited
    BY <1>a DEF Turn, Early
  <2>2. /\ TurnBecomes(q, t) /\ turn[q].pc \in Early /\ ReaderAt(r, "starting")
        /\ UNCHANGED <<run, announcer, teardown>>
    BY <1>1 DEF StartRun, Early
  <2> HIDE DEF t
  <2>3. StillTurns /\ StillAnswers
    BY <1>b, <2>1, <2>2, TurnAfter
  <2>4. StillEnding /\ StillReading
    BY <2>2 DEF StillEnding, StillReading, ReaderAt, ReaderBecomes, TypeOK, Reader
  <2> QED BY <2>2, <2>3, <2>4, StillWhenSame, StillDeltas
<1>2. ASSUME NEW ids \in SUBSET Known, LookupResume(q, ids) PROVE DeltaInv'
  <2>1. UNCHANGED <<run, announcer, reader, teardown>> /\ turn[q].pc \in Early
    BY <1>2 DEF LookupResume, Early
  <2>2. CASE Reject(q, "rejected")
    <3>1. ~\E p \in Runs : HeldByRun(p, q)'
      BY <2>1 DEF HolderInv, HeldUnanswered, Held, HeldByRun
    <3> QED BY <2>1, <2>2, <3>1, StillReject, StillWhenSame, StillDeltas DEF Early
  <2>3. CASE TurnBecomes(q, [turn[q] EXCEPT !.pc = "fresh", !.ids = ids])
    <3> DEFINE t == [turn[q] EXCEPT !.pc = "fresh", !.ids = ids]
    <3>1. /\ t.pc \in Early /\ t.answer = turn[q].answer /\ t.sends = turn[q].sends
          /\ t.streamed = turn[q].streamed /\ t.waited = turn[q].waited
      BY <1>a DEF Turn, Early
    <3>2. TurnBecomes(q, t)
      BY <2>3
    <3> HIDE DEF t
    <3>3. StillTurns /\ StillAnswers
      BY <1>b, <2>1, <3>1, <3>2, TurnAfter
    <3> QED BY <2>1, <3>3, StillWhenSame, StillDeltas
  <2>4. ASSUME NEW p \in Owners(ids),
               TurnBecomes(q, [turn[q] EXCEPT !.pc = "found", !.ids = ids, !.run = p])
        PROVE  DeltaInv'
    <3> DEFINE t == [turn[q] EXCEPT !.pc = "found", !.ids = ids, !.run = p]
    <3>1. /\ t.pc \in Early /\ t.answer = turn[q].answer /\ t.sends = turn[q].sends
          /\ t.streamed = turn[q].streamed /\ t.waited = turn[q].waited
      BY <1>a DEF Turn, Early
    <3>2. TurnBecomes(q, t)
      BY <2>4
    <3> HIDE DEF t
    <3>3. StillTurns /\ StillAnswers
      BY <1>b, <2>1, <3>1, <3>2, TurnAfter
    <3> QED BY <2>1, <3>3, StillWhenSame, StillDeltas
  <2> QED BY <1>2, <2>2, <2>3, <2>4 DEF LookupResume
<1>3. CASE CancelTurn(q)
  <2> DEFINE r == turn[q].run
             rr == [run[r] EXCEPT !.waiter = None]
             t == [turn[q] EXCEPT !.pc = "aborting", !.answer = Failure("cancelled")]
  <2>a. \A p \in Runs : HeldByRun(p, q) => p = r
    BY DEF HolderInv, HeldUnanswered, Held
  <2>1. UNCHANGED <<announcer, reader, teardown>> /\ turn[q].pc = "waiting"
    BY <1>3 DEF CancelTurn
  <2>2. CASE run[r].waiter # q
    <3>1. UNCHANGED run /\ TurnAt(q, "handover")
      BY <1>3, <2>2 DEF CancelTurn
    <3>2. ~\E p \in Runs : HeldByRun(p, q)'
      BY <2>2, <2>a, <3>1 DEF HeldByRun
    <3>3. StillTurns /\ StillAnswers
      BY <2>1, <3>1, <3>2, StillAt DEF Late, Early
    <3> QED BY <2>1, <3>1, <3>3, StillWhenSame, StillDeltas
  <2>3. CASE run[r].waiter = q
    <3>1. RunBecomes(r, rr) /\ TurnBecomes(q, t)
      BY <1>3, <2>3 DEF CancelTurn
    <3>2. /\ t.pc = "aborting" /\ t.sends = turn[q].sends /\ t.answer.kind = "cancelled" /\ t.run = r
          /\ t.streamed = turn[q].streamed /\ t.waited = turn[q].waited
      BY <1>a DEF Turn, Failure
    <3>3. r \in Runs => rr.waiter = None
      BY DEF TypeOK, Run
    <3> HIDE DEF t, rr
    <3>4. StillRuns
      BY <3>1, <3>3, OneRunStill
    <3>5. ~\E p \in Runs : HeldByRun(p, q)'
      <4> SUFFICES ASSUME NEW p \in Runs, HeldByRun(p, q)' PROVE FALSE
        OBVIOUS
      <4>1. p = r
        BY <2>a, <3>4 DEF StillRuns
      <4>2. run'[p] = rr
        BY <3>1, <4>1 DEF RunBecomes, TypeOK
      <4> QED BY <3>3, <4>1, <4>2, ConstantsAssumption DEF HeldByRun
    <3>6. OnlyTurn(q) /\ turn'[q] = t /\ ~turn[q].waited
      BY <2>1, <3>1, TurnAfter DEF DeltaInv, TurnTexts, TurnText
    <3>7. StillTurn(q) /\ StillAnswer(q)
      BY <2>1, <3>2, <3>5, <3>6 DEF StillTurn, StillAnswer, Early, Late
    <3> QED BY <2>1, <3>4, <3>6, <3>7, OneTurnStill, OneAnswerStill, StillWhenSame, StillDeltas
  <2> QED BY <2>2, <2>3
<1> QED BY <1>1, <1>2, <1>3 DEF ClientStep

LEMMA DeltaCallStep ==
  ASSUME TypeOK, DeltaInv, NEW c \in Calls, CallStep(c)
  PROVE  DeltaInv'
<1> DEFINE r == call[c].run
<1>1. CASE CallAborts(c)
  BY <1>1, DeltaBegins DEF CallAborts, Failure
<1>2. CASE CallPark(c)
  <2>1. UNCHANGED <<announcer, reader, teardown, turn>>
    BY <1>2 DEF CallPark
  <2>2. UNCHANGED run \/ RunBecomes(r, WithCall(run[r], c))
    BY <1>2 DEF CallPark
  <2>3. r \in Runs => WithCall(run[r], c).text = run[r].text /\ WithCall(run[r], c).waiter = run[r].waiter
    BY Waiters, TextHelpers DEF TypeOK
  <2>4. StillRuns
    BY <2>2, <2>3, OneRunStill, StillWhenSame
  <2> QED BY <2>1, <2>4, StillWhenSame, StillDeltas
<1>3. CASE UNCHANGED <<run, announcer, reader, teardown, turn>>
  BY <1>3, StillWhenSame, StillDeltas
<1> QED BY <1>1, <1>2, <1>3 DEF CallStep, CallStep, CallReplied, CallRunDone, CallAborted

LEMMA DeltaRunStep ==
  ASSUME TypeOK, HolderInv, DeltaInv, NEW r \in Runs, RunStep(r)
  PROVE  DeltaInv'
<1>a. run[r] \in Run
  BY DEF TypeOK
<1>1. CASE AnnounceTake(r) /\ MayAnnounce(run[r])
  BY <1>1, DeltaTake
<1>2. CASE (AnnounceTake(r) /\ ~MayAnnounce(run[r])) \/ ResultTimerFires(r)
  <2>1. UNCHANGED <<announcer, reader, teardown, turn>> /\ \E t : RunBecomes(r, [run[r] EXCEPT !.timers = t])
    <3>1. CASE AnnounceTake(r) /\ ~MayAnnounce(run[r])
      <4>1. RunBecomes(r, [run[r] EXCEPT !.timers = run[r].timers \ {"batch"}])
        BY <1>a, <3>1 DEF AnnounceTake, Run
      <4> QED BY <3>1, <4>1 DEF AnnounceTake
    <3>2. CASE ResultTimerFires(r)
      <4>1. RunBecomes(r, [run[r] EXCEPT !.timers = run[r].timers \ {"result"}])
        BY <1>a, <3>2 DEF ResultTimerFires, Run
      <4> QED BY <3>2, <4>1 DEF ResultTimerFires
    <3> QED BY <1>2, <3>1, <3>2
  <2>2. StillRuns
    BY <1>a, <2>1, Waiters, TextHelpers, OneRunStill
  <2> QED BY <2>1, <2>2, StillWhenSame, StillDeltas
<1>3. CASE AnnounceRegister(r)
  <2>1. /\ UNCHANGED <<run, reader, teardown, turn>> /\ announcer[r].stage = "taken"
        /\ AnnouncerBecomes(r, [announcer[r] EXCEPT !.stage = "registered"])
    BY <1>3 DEF AnnounceRegister
  <2>2. StillAnnouncers
    BY <2>1 DEF StillAnnouncers, HeldByAnnouncer, AnnouncerBecomes, TypeOK, Announcer
  <2> QED BY <2>1, <2>2, StillWhenSame, StillDeltas
<1>4. CASE AnnounceAnswer(r)
  <2> DEFINE q == announcer[r].waiter
  <2>1. /\ UNCHANGED <<run, reader, teardown>> /\ announcer[r].stage = "registered"
        /\ AnnouncerBecomes(r, [announcer[r] EXCEPT !.stage = "idle"])
        /\ Send(q, announcer[r].answer)
    BY <1>4 DEF AnnounceAnswer
  <2>2. StillAnnouncers
    BY <2>1 DEF StillAnnouncers, HeldByAnnouncer, AnnouncerBecomes, TypeOK, Announcer
  <2>3. q \in Turns => turn[q].streamed \subseteq announcer[r].answer.text
    BY <2>1 DEF DeltaInv, AnswerTexts, AnswerText, HeldByAnnouncer
  <2> QED BY <2>1, <2>2, <2>3, StillWhenSame, DeltaSend
<1>5. CASE TimeoutAborts(r) \/ StopperAborts(r)
  BY <1>5, DeltaBegins DEF TimeoutAborts, StopperAborts, Failure
<1>6. CASE ReaderEndsRun(r)
  <2>1. CASE Begin(r, Failure("failed"))
    BY <1>6, <2>1, DeltaBegins DEF ReaderEndsRun, Failure
  <2>2. CASE reader[r].pc = "completing" /\ Begin(r, [kind |-> "final", batch |-> {}, text |-> reader[r].text])
    <3>1. \A q \in Turns : HeldByRun(r, q) => turn[q].streamed \subseteq reader[r].text
      BY <2>2 DEF DeltaInv, RunTexts, RunText
    <3> QED BY <1>6, <2>2, <3>1, DeltaBegins DEF ReaderEndsRun
  <2> QED BY <1>6, <2>1, <2>2 DEF ReaderEndsRun
<1>7. CASE DeltaDone(r) \/ ReaderExits(r)
  <2>1. UNCHANGED <<run, announcer, teardown, turn>>
    BY <1>7 DEF DeltaDone, ReaderExits
  <2>2. StillEnding /\ StillReading
    BY <1>7 DEF DeltaDone, ReaderExits, StillEnding, StillReading, ReaderAt, ReaderBecomes, TypeOK, Reader
  <2> QED BY <2>1, <2>2, StillWhenSame, StillDeltas
<1>8. CASE TeardownCancel(r) \/ TeardownUnregister(r) \/ TeardownRelease(r)
  <2>1. UNCHANGED <<run, announcer, reader, turn>>
    BY <1>8 DEF TeardownCancel, TeardownUnregister, TeardownRelease
  <2>2. /\ teardown[r].stage \in {"marked", "cancelled", "unregistered"}
        /\ \A p \in Runs : teardown'[p].waiter = teardown[p].waiter /\ teardown'[p].answer = teardown[p].answer
        /\ \A p \in Runs : p # r => teardown'[p] = teardown[p]
    BY <1>8, TeardownAtKeeps, TeardownReleaseKeeps
       DEF TeardownCancel, TeardownUnregister, TeardownRelease
  <2>3. StillTeardowns
    BY <2>2 DEF StillTeardowns, HeldByTeardown
  <2> QED BY <2>1, <2>3, StillWhenSame, StillDeltas
<1>9. CASE TeardownAnswer(r)
  <2> DEFINE q == teardown[r].waiter
  <2>1. /\ UNCHANGED <<run, announcer, reader>> /\ teardown[r].stage = "released"
        /\ TeardownAt(r, "done")
        /\ IF q = None THEN UNCHANGED turn ELSE Send(q, teardown[r].answer)
    BY <1>9 DEF TeardownAnswer
  <2>2. StillTeardowns
    BY <2>1 DEF StillTeardowns, HeldByTeardown, TeardownAt, TeardownBecomes, TypeOK, Teardown
  <2>3. q \in Turns /\ teardown[r].answer.kind \in {"calls", "final"} =>
          turn[q].streamed \subseteq teardown[r].answer.text
    BY <2>1 DEF DeltaInv, AnswerTexts, AnswerText, HeldByTeardown
  <2>4. CASE q = None
    BY <2>1, <2>2, <2>4, StillWhenSame, StillDeltas
  <2>5. CASE q # None
    BY <2>1, <2>2, <2>3, <2>5, StillWhenSame, DeltaSend
  <2> QED BY <2>4, <2>5
<1> QED BY <1>1, <1>2, <1>3, <1>4, <1>5, <1>6, <1>7, <1>8, <1>9 DEF RunStep, TeardownStep

LEMMA DeltaBridgeStep ==
  ASSUME TypeOK, HolderInv, DeltaInv, BridgeStep
  PROVE  DeltaInv'
<1>1. ASSUME NEW r \in Runs, NEW d \in Deltas, ReadDelta(r, d) PROVE DeltaInv'
  <2>1. CASE run[r].waiter # None
    BY <1>1, <2>1, DeltaRead
  <2>2. CASE run[r].waiter = None
    <3>1. /\ UNCHANGED <<run, announcer, teardown, turn>> /\ reader[r].pc = "reading"
          /\ ReaderBecomes(r, [reader[r] EXCEPT !.seen = @ \cup {d}])
      BY <1>1, <2>2 DEF ReadDelta
    <3>2. StillEnding /\ StillReading
      BY <3>1 DEF StillEnding, StillReading, ReaderBecomes, TypeOK, Reader
    <3> QED BY <3>1, <3>2, StillWhenSame, StillDeltas
  <2> QED BY <2>1, <2>2
<1>2. ASSUME NEW r \in Runs, StreamEnds(r) PROVE DeltaInv'
  <2>1. UNCHANGED <<run, announcer, teardown, turn>>
    BY <1>2 DEF StreamEnds
  <2>2. PICK pc \in {"completing", "failing"} :
          ReaderBecomes(r, [reader[r] EXCEPT !.pc = pc, !.text = run[r].text])
    BY <1>2 DEF StreamEnds
  <2>3. reader'[r].pc = pc /\ reader'[r].text = run[r].text /\ \A p \in Runs : p # r => reader'[p] = reader[p]
    BY <2>2 DEF ReaderBecomes, TypeOK, Reader
  <2>4. StillReading
    BY <2>3 DEF StillReading
  <2>5. RunTexts'
    <3> SUFFICES ASSUME NEW p \in Runs, NEW q \in Turns PROVE RunText(p, q)'
      BY DEF RunTexts
    <3>1. RunText(p, q)
      BY DEF DeltaInv, RunTexts
    <3> QED BY <2>1, <2>3, <3>1 DEF RunText, HeldByRun
  <2> QED BY <2>1, <2>4, <2>5, StillWhenSame, StillAnswerTexts, StillDeltasFit, StillTurnTexts DEF DeltaInv
<1>3. CASE UNCHANGED <<run, announcer, reader, teardown, turn>>
  BY <1>3, StillWhenSame, StillDeltas
<1> QED BY <1>1, <1>2, <1>3
     DEF BridgeStep, CallLookup, CallCancelled, AbortParkedToolRuns, FailToolRunsForProcess

LEMMA DeltaNext == ASSUME TypeOK, HolderInv, FinishedFirst, DeltaInv, [Next]_vars PROVE DeltaInv'
<1>1. CASE UNCHANGED vars
  BY <1>1, StillWhenSame, StillDeltas DEF vars
<1> QED BY <1>1, DeltaTurnStep, DeltaClientStep, DeltaCallStep, DeltaRunStep, DeltaBridgeStep DEF Next

LEMMA DeltaInit == Init => FinishedFirst /\ DeltaInv
<1> SUFFICES ASSUME Init PROVE FinishedFirst /\ DeltaInv
  OBVIOUS
<1>1. \A r \in Runs : /\ run[r].waiter = None /\ announcer[r].stage = "idle"
                      /\ teardown[r].stage = "none" /\ reader[r].pc = "unborn"
  BY DEF Init
<1>2. \A q \in Turns : /\ turn[q].pc = "idle" /\ turn[q].streamed = {} /\ turn[q].waited = FALSE
                       /\ turn[q].answer = NoAnswer
  BY DEF Init
<1>3. FinishedFirst
  BY <1>1 DEF FinishedFirst
<1>4. RunTexts /\ AnswerTexts
  BY <1>1, ConstantsAssumption
     DEF RunTexts, RunText, AnswerTexts, AnswerText, HeldByRun, HeldByAnnouncer, HeldByTeardown
<1>5. DeltasFit
  BY <1>1 DEF DeltasFit, DeltaFits
<1>6. TurnTexts
  BY <1>2 DEF TurnTexts, TurnText, NoAnswer
<1> QED BY <1>3, <1>4, <1>5, <1>6 DEF DeltaInv

\* A turn hears what is streamed to it before it returns, has all of it in its answer, and
\* hears nothing later: waitOn takes deltaMu, and the text is read in the critical section
\* that takes the waiter.
THEOREM TextsReachTurns == Spec => []DeltasEndWithTurn
<1>1. DeltaInv => DeltasEndWithTurn
  BY DEF DeltaInv, DeltasFit, DeltaFits, TurnTexts, TurnText, DeltasEndWithTurn, NoDeltaAfterWait,
         StreamedTextAnswered
<1> QED BY <1>1, TypeInit, TypeNext, HolderInit, HolderNext, FinishedNext, DeltaInit, DeltaNext, PTL DEF Spec

(***************************************************************************)
(* The relay keeps the promise of CallRelay.  An answer names calls when   *)
(* it is of the kind "calls", and a turn that has received its answer      *)
(* keeps it.                                                               *)
(***************************************************************************)

Settled(q) == turn[q].pc \in {"draining", "returned"}

NamesCalls(answer) == answer.kind = "calls" <=> answer.batch # {}

KindInv ==
  /\ \A q \in Turns : NamesCalls(turn[q].answer)
  /\ \A r \in Runs : announcer[r].stage # "idle" => announcer[r].answer.kind = "calls"

\* Steps that send a turn no answer.
MovesOn(q) ==
  /\ turn'[q].answer = turn[q].answer
       \/ (turn'[q].answer.kind # "calls" /\ turn'[q].answer.batch = {})
  /\ Settled(q) => Settled(q)' /\ turn'[q].answer = turn[q].answer

LEMMA MovesAt ==
  ASSUME TypeOK, NEW q \in Turns, turn[q].pc # "returned"
  PROVE  /\ \A pc : TurnAt(q, pc) /\ (Settled(q) => pc = "returned") => OnlyTurn(q) /\ MovesOn(q)
         /\ \A kind : Reject(q, kind) /\ ~Settled(q) /\ kind # "calls" => OnlyTurn(q) /\ MovesOn(q)
<1>1. ASSUME NEW pc, TurnAt(q, pc), Settled(q) => pc = "returned" PROVE OnlyTurn(q) /\ MovesOn(q)
  BY <1>1, TurnAtKeeps DEF MovesOn, Settled
<1>2. ASSUME NEW kind, Reject(q, kind), ~Settled(q), kind # "calls" PROVE OnlyTurn(q) /\ MovesOn(q)
  BY <1>2, RejectKeeps, FailureKind, FailureBatch DEF MovesOn
<1> QED BY <1>1, <1>2

LEMMA TurnStepMoves ==
  ASSUME TypeOK, NEW q \in Turns, TurnStep(q)
  PROVE  OnlyTurn(q) /\ MovesOn(q)
<1>1. CASE AttachStart(q) \/ AttachResume(q) \/ OpenSend(q) \/ SendFails(q) \/ Deliver(q)
           \/ DeliverReply(q) \/ Detach(q) \/ ReceiveTurn(q) \/ TurnAborted(q)
  <2>1. ~Settled(q)
    BY <1>1 DEF AttachStart, AttachResume, OpenSend, SendFails, Deliver, DeliverReply, Detach,
                ReceiveTurn, TurnAborted, Settled
  <2>2. (\E pc : TurnAt(q, pc)) \/ Reject(q, "rejected") \/ Reject(q, "failed")
    BY <1>1 DEF AttachStart, AttachResume, OpenSend, SendFails, Deliver, DeliverReply, Detach,
                ReceiveTurn, TurnAborted
  <2> QED BY <2>1, <2>2, MovesAt DEF Settled
<1>2. CASE TurnAborts(q)
  BY <1>2 DEF TurnAborts, OnlyTurn, MovesOn, Settled
<1>3. CASE ReturnTurn(q)
  <2> DEFINE t == [turn[q] EXCEPT !.pc = "returned", !.waited = TRUE]
  <2>1. t.pc = "returned" /\ t.answer = turn[q].answer
    BY DEF TypeOK, Turn
  <2>2. TurnBecomes(q, t)
    BY <1>3 DEF ReturnTurn
  <2> HIDE DEF t
  <2> QED BY <2>1, <2>2, TurnAfter DEF MovesOn, Settled
<1> QED BY <1>1, <1>2, <1>3 DEF TurnStep

LEMMA ClientStepMoves ==
  ASSUME TypeOK, NEW q \in Turns, ClientStep(q)
  PROVE  OnlyTurn(q) /\ MovesOn(q)
<1>a. turn[q] \in Turn
  BY DEF TypeOK
<1>b. ASSUME NEW t, TurnBecomes(q, t), ~Settled(q),
             t.answer = turn[q].answer \/ (t.answer.kind # "calls" /\ t.answer.batch = {})
      PROVE  OnlyTurn(q) /\ MovesOn(q)
  BY <1>b, TurnAfter DEF MovesOn
<1>1. ASSUME NEW r \in Runs, StartRun(q, r) PROVE OnlyTurn(q) /\ MovesOn(q)
  <2> DEFINE t == [turn[q] EXCEPT !.pc = "registered", !.run = r]
  <2>1. t.answer = turn[q].answer
    BY <1>a DEF Turn
  <2>2. TurnBecomes(q, t) /\ ~Settled(q)
    BY <1>1 DEF StartRun, Settled
  <2> HIDE DEF t
  <2> QED BY <1>b, <2>1, <2>2
<1>2. ASSUME NEW ids, LookupResume(q, ids) PROVE OnlyTurn(q) /\ MovesOn(q)
  <2>0. ~Settled(q) /\ turn[q].pc # "returned"
    BY <1>2 DEF LookupResume, Settled
  <2>1. CASE Reject(q, "rejected")
    BY <2>0, <2>1, MovesAt
  <2>2. CASE TurnBecomes(q, [turn[q] EXCEPT !.pc = "fresh", !.ids = ids])
    <3> DEFINE t == [turn[q] EXCEPT !.pc = "fresh", !.ids = ids]
    <3>1. t.answer = turn[q].answer
      BY <1>a DEF Turn
    <3>2. TurnBecomes(q, t)
      BY <2>2
    <3> HIDE DEF t
    <3> QED BY <1>b, <2>0, <3>1, <3>2
  <2>3. ASSUME NEW r, TurnBecomes(q, [turn[q] EXCEPT !.pc = "found", !.ids = ids, !.run = r])
        PROVE  OnlyTurn(q) /\ MovesOn(q)
    <3> DEFINE t == [turn[q] EXCEPT !.pc = "found", !.ids = ids, !.run = r]
    <3>1. t.answer = turn[q].answer
      BY <1>a DEF Turn
    <3>2. TurnBecomes(q, t)
      BY <2>3
    <3> HIDE DEF t
    <3> QED BY <1>b, <2>0, <3>1, <3>2
  <2> QED BY <1>2, <2>1, <2>2, <2>3 DEF LookupResume
<1>3. CASE CancelTurn(q)
  <2>0. ~Settled(q) /\ turn[q].pc # "returned"
    BY <1>3 DEF CancelTurn, Settled
  <2>1. CASE TurnAt(q, "handover")
    BY <2>0, <2>1, MovesAt
  <2>2. CASE TurnBecomes(q, [turn[q] EXCEPT !.pc = "aborting", !.answer = Failure("cancelled")])
    <3> DEFINE t == [turn[q] EXCEPT !.pc = "aborting", !.answer = Failure("cancelled")]
    <3>1. t.answer.kind # "calls" /\ t.answer.batch = {}
      BY <1>a, FailureKind, FailureBatch DEF Turn
    <3>2. TurnBecomes(q, t)
      BY <2>2
    <3> HIDE DEF t
    <3> QED BY <1>b, <2>0, <3>1, <3>2
  <2> QED BY <1>3, <2>1, <2>2 DEF CancelTurn
<1> QED BY <1>1, <1>2, <1>3 DEF ClientStep

\* A delta leaves every turn where it is.
LEMMA DeltaMoves ==
  ASSUME TypeOK, NEW r \in Runs, NEW d, ReadDelta(r, d)
  PROVE  \A q \in Turns : turn'[q].pc = turn[q].pc /\ turn'[q].answer = turn[q].answer
<1>1. CASE UNCHANGED turn
  BY <1>1
<1>2. CASE run[r].waiter # None
  <2> DEFINE q == run[r].waiter
             t == [turn[q] EXCEPT !.streamed = @ \cup {d}]
  <2>1. q \in Turns
    BY <1>2 DEF TypeOK, Run
  <2>2. t.pc = turn[q].pc /\ t.answer = turn[q].answer
    BY <2>1 DEF TypeOK, Turn
  <2>3. TurnBecomes(q, t)
    BY <1>2 DEF ReadDelta
  <2> HIDE DEF t
  <2> QED BY <2>1, <2>2, <2>3, TurnAfter DEF OnlyTurn
<1> QED BY <1>1, <1>2 DEF ReadDelta

LEMMA KindInit == Init => KindInv
<1> SUFFICES ASSUME Init PROVE KindInv
  OBVIOUS
<1>1. \A q \in Turns : turn[q].answer = NoAnswer
  BY DEF Init
<1>2. \A r \in Runs : announcer[r].stage = "idle"
  BY DEF Init
<1> QED BY <1>1, <1>2 DEF KindInv, NamesCalls, NoAnswer

LEMMA KindSend ==
  ASSUME TypeOK, KindInv, NEW q, NEW answer, Send(q, answer), NamesCalls(answer)
  PROVE  \A p \in Turns : NamesCalls(turn'[p].answer)
<1>1. CASE q \in Turns
  BY <1>1, TurnAfter DEF KindInv, OnlyTurn
<1>2. CASE q \notin Turns
  BY <1>2 DEF TypeOK, Send, TurnBecomes, KindInv
<1> QED BY <1>1, <1>2

LEMMA KindNext == ASSUME TypeOK, EndInv, BatchInv, KindInv, [Next]_vars PROVE KindInv'
<1>1. ASSUME NEW q \in Turns, TurnStep(q) \/ ClientStep(q) PROVE KindInv'
  <2>1. UNCHANGED announcer
    BY <1>1 DEF TurnStep, ClientStep, AttachStart, AttachResume, OpenSend, SendFails, Deliver,
                DeliverReply, Detach, ReceiveTurn, TurnAborts, TurnAborted, ReturnTurn,
                StartRun, LookupResume, CancelTurn
  <2>2. OnlyTurn(q) /\ MovesOn(q)
    BY <1>1, TurnStepMoves, ClientStepMoves
  <2> QED BY <2>1, <2>2 DEF KindInv, NamesCalls, OnlyTurn, MovesOn
<1>2. CASE UNCHANGED <<announcer, turn>>
  BY <1>2 DEF KindInv, NamesCalls
<1>3. ASSUME NEW r \in Runs, AnnounceTake(r) PROVE KindInv'
  <2>1. CASE UNCHANGED announcer
    BY <1>2, <1>3, <2>1 DEF AnnounceTake
  <2>2. CASE MayAnnounce(run[r])
    <3>1. announcer'[r].answer.kind = "calls" /\ \A p \in Runs : p # r => announcer'[p] = announcer[p]
      BY <1>3, <2>2 DEF AnnounceTake, AnnouncerBecomes, TypeOK
    <3>2. UNCHANGED turn
      BY <1>3 DEF AnnounceTake
    <3> QED BY <3>1, <3>2 DEF KindInv, NamesCalls
  <2> QED BY <1>3, <2>1, <2>2 DEF AnnounceTake
<1>4. ASSUME NEW r \in Runs, AnnounceRegister(r) PROVE KindInv'
  <2> DEFINE a == [announcer[r] EXCEPT !.stage = "registered"]
  <2>1. a.answer = announcer[r].answer
    BY DEF TypeOK, Announcer
  <2>2. AnnouncerBecomes(r, a) /\ UNCHANGED turn /\ announcer[r].stage = "taken"
    BY <1>4 DEF AnnounceRegister
  <2> HIDE DEF a
  <2>3. announcer'[r] = a /\ \A p \in Runs : p # r => announcer'[p] = announcer[p]
    BY <2>2 DEF AnnouncerBecomes, TypeOK
  <2> QED BY <2>1, <2>2, <2>3 DEF KindInv, NamesCalls
<1>5. ASSUME NEW r \in Runs, AnnounceAnswer(r) PROVE KindInv'
  <2> DEFINE a == [announcer[r] EXCEPT !.stage = "idle"]
  <2>1. a.stage = "idle"
    BY DEF TypeOK, Announcer
  <2>2. AnnouncerBecomes(r, a) /\ announcer[r].stage = "registered"
        /\ Send(announcer[r].waiter, announcer[r].answer)
    BY <1>5 DEF AnnounceAnswer
  <2> HIDE DEF a
  <2>3. announcer'[r] = a /\ \A p \in Runs : p # r => announcer'[p] = announcer[p]
    BY <2>2 DEF AnnouncerBecomes, TypeOK
  <2>4. NamesCalls(announcer[r].answer)
    BY <2>2 DEF KindInv, NamesCalls, BatchInv, RunBatches
  <2>5. \A p \in Turns : NamesCalls(turn'[p].answer)
    BY <2>2, <2>4, KindSend
  <2> QED BY <2>1, <2>3, <2>5 DEF KindInv
<1>6. ASSUME NEW r \in Runs, TeardownAnswer(r) PROVE KindInv'
  <2>1. UNCHANGED announcer /\ (UNCHANGED turn \/ Send(teardown[r].waiter, teardown[r].answer))
    BY <1>6 DEF TeardownAnswer
  <2>2. NamesCalls(teardown[r].answer)
    BY DEF EndInv, TeardownsFit, TeardownFits, Ended, BatchInv, RunBatches, NamesCalls
  <2>3. CASE UNCHANGED turn
    BY <1>2, <2>1, <2>3
  <2>4. CASE Send(teardown[r].waiter, teardown[r].answer)
    <3>1. \A p \in Turns : NamesCalls(turn'[p].answer)
      BY <2>2, <2>4, KindSend
    <3> QED BY <2>1, <3>1 DEF KindInv
  <2> QED BY <2>1, <2>3, <2>4
<1>7. ASSUME NEW r \in Runs, RunStep(r) PROVE KindInv'
  BY <1>2, <1>3, <1>4, <1>5, <1>6, <1>7
     DEF RunStep, TeardownStep, ResultTimerFires, TimeoutAborts, DeltaDone, ReaderEndsRun, ReaderExits,
         StopperAborts, TeardownCancel, TeardownUnregister, TeardownRelease
<1>8. ASSUME NEW c \in Calls, CallStep(c) PROVE KindInv'
  BY <1>2, <1>8 DEF CallStep, CallPark, CallReplied, CallRunDone, CallAborts, CallAborted
<1>9. CASE BridgeStep
  <2>1. ASSUME NEW r \in Runs, NEW d \in Deltas, ReadDelta(r, d) PROVE KindInv'
    <3>1. UNCHANGED announcer
      BY <2>1 DEF ReadDelta
    <3> QED BY <2>1, <3>1, DeltaMoves DEF KindInv, NamesCalls
  <2> QED BY <1>2, <1>9, <2>1
       DEF BridgeStep, CallLookup, CallCancelled, StreamEnds, AbortParkedToolRuns, FailToolRunsForProcess
<1>10. CASE UNCHANGED vars
  BY <1>2, <1>10 DEF vars
<1> QED BY <1>1, <1>7, <1>8, <1>9, <1>10 DEF Next

(* The variables of CallRelay, and steps that leave them. *)

ToldBatches == {turn[q].answer.batch : q \in Told}
DeliveredCalls == {c \in Calls : call[c].reply # None}

LEMMA CallStates ==
  \A c : /\ call[c].pc \in {"idle", "found"} => CallState(c) = "idle"
         /\ call[c].pc \in {"parked", "aborting"} => CallState(c) = "open"
         /\ call[c].pc \in {"answered", "failed"} => CallState(c) = call[c].pc
BY DEF CallState

LEMMA CallStatesAfter ==
  \A c : /\ call'[c].pc \in {"idle", "found"} => CallState(c)' = "idle"
         /\ call'[c].pc \in {"parked", "aborting"} => CallState(c)' = "open"
         /\ call'[c].pc \in {"answered", "failed"} => CallState(c)' = call'[c].pc
BY DEF CallState

SameStates == \A c \in Calls : CallState(c)' = CallState(c)
SameTold == ToldBatches' = ToldBatches
SameDelivered == DeliveredCalls' = DeliveredCalls

LEMMA RelayStutters ==
  ASSUME SameStates, SameTold, SameDelivered
  PROVE  UNCHANGED Relay!relayVars
BY DEF SameStates, SameTold, SameDelivered, ToldBatches, DeliveredCalls, Relay!relayVars

LEMMA RelayTells ==
  ASSUME SameStates, SameDelivered, NEW batch \in SUBSET Calls, batch # {},
         \A c \in batch : CallState(c) \in {"open", "failed"},
         batch \cap UNION ToldBatches = {},
         ToldBatches' = ToldBatches \cup {batch}
  PROVE  Relay!RelayNext
<1>1. Relay!Tell(batch)
  BY DEF SameStates, SameDelivered, ToldBatches, DeliveredCalls, Relay!Tell
<1> QED BY <1>1 DEF Relay!RelayNext

LEMMA RelayBrings ==
  ASSUME SameStates, SameTold, NEW batch \in SUBSET Calls,
         batch \in ToldBatches, batch \cap DeliveredCalls = {},
         DeliveredCalls' = DeliveredCalls \cup batch
  PROVE  Relay!RelayNext
<1>1. Relay!Bring(batch)
  BY DEF SameStates, SameTold, ToldBatches, DeliveredCalls, Relay!Bring
<1> QED BY <1>1 DEF Relay!RelayNext

LEMMA RelayMovesCall ==
  ASSUME SameTold, SameDelivered, NEW c \in Calls,
         \A d \in Calls : d # c => CallState(d)' = CallState(d),
         \/ CallState(c) = "idle" /\ CallState(c)' = "open"
         \/ CallState(c) \in {"idle", "open"} /\ CallState(c)' = "failed"
         \/ CallState(c) = "open" /\ c \in DeliveredCalls /\ CallState(c)' = "answered"
  PROVE  Relay!RelayNext
<1> DEFINE S == [d \in Calls |-> CallState(d)]
<1>0. S' = [S EXCEPT ![c] = CallState(c)']
  OBVIOUS
<1>1. CASE CallState(c) = "idle" /\ CallState(c)' = "open"
  <2>1. Relay!Open(c)
    BY <1>0, <1>1 DEF SameTold, SameDelivered, ToldBatches, DeliveredCalls, Relay!Open
  <2> QED BY <2>1 DEF Relay!RelayNext
<1>2. CASE CallState(c) \in {"idle", "open"} /\ CallState(c)' = "failed"
  <2>1. Relay!Fail(c)
    BY <1>0, <1>2 DEF SameTold, SameDelivered, ToldBatches, DeliveredCalls, Relay!Fail
  <2> QED BY <2>1 DEF Relay!RelayNext
<1>3. CASE CallState(c) = "open" /\ c \in DeliveredCalls /\ CallState(c)' = "answered"
  <2>1. Relay!AnswerCall(c)
    BY <1>0, <1>3 DEF SameTold, SameDelivered, ToldBatches, DeliveredCalls, Relay!AnswerCall
  <2> QED BY <2>1 DEF Relay!RelayNext
<1> QED BY <1>1, <1>2, <1>3

LEMMA SameCalls == UNCHANGED call => SameStates /\ SameDelivered
<1>1. UNCHANGED call => SameDelivered
  BY DEF SameDelivered, DeliveredCalls
<1>2. UNCHANGED call => SameStates
  BY DEF SameStates, CallState
<1> QED BY <1>1, <1>2

LEMMA SameTurns ==
  ASSUME \A q \in Turns : turn'[q].answer = turn[q].answer /\ turn'[q].pc = turn[q].pc
  PROVE  SameTold
<1>1. Told' = Told
  BY DEF Told
<1> QED BY <1>1 DEF SameTold, ToldBatches, Told

\* A turn that has its answer keeps it, and one that gets none has told nothing new.
LEMMA NothingTold ==
  ASSUME NEW q \in Turns, OnlyTurn(q), q \in Told' => q \in Told,
         q \in Told => q \in Told' /\ turn'[q].answer.batch = turn[q].answer.batch
  PROVE  SameTold
<1>1. \A p \in Turns : p # q => (p \in Told' <=> p \in Told) /\ turn'[p].answer.batch = turn[p].answer.batch
  BY DEF OnlyTurn, Told
<1>2. Told' = Told /\ \A p \in Told : turn'[p].answer.batch = turn[p].answer.batch
  BY <1>1 DEF Told
<1> QED BY <1>2 DEF SameTold, ToldBatches

LEMMA OneMoreTold ==
  ASSUME NEW q \in Turns, OnlyTurn(q), q \notin Told, q \in Told'
  PROVE  ToldBatches' = ToldBatches \cup {turn'[q].answer.batch}
<1>1. \A p \in Turns : p # q => (p \in Told' <=> p \in Told) /\ turn'[p].answer.batch = turn[p].answer.batch
  BY DEF OnlyTurn, Told
<1>2. Told' = Told \cup {q} /\ \A p \in Told : turn'[p].answer.batch = turn[p].answer.batch
  BY <1>1 DEF Told
<1> QED BY <1>2 DEF ToldBatches

LEMMA OpenCalls ==
  ASSUME TypeOK, NEW c \in Calls, Awake(c), call[c].pc # "answered"
  PROVE  CallState(c) \in {"open", "failed"}
<1>1. call[c].pc \in {"parked", "aborting", "failed"}
  BY DEF TypeOK, Call, CallPcs, Awake
<1> QED BY <1>1, CallStates

\* A client receives the answer that its turn has.
LEMMA RelayTurnMoves ==
  ASSUME TypeOK, BatchInv, KindInv, UNCHANGED call, NEW q \in Turns, OnlyTurn(q), MovesOn(q)
  PROVE  [Relay!RelayNext]_(Relay!relayVars)
<1>0. SameStates /\ SameDelivered
  BY SameCalls
<1>1. q \in Told => q \in Told' /\ turn'[q].answer.batch = turn[q].answer.batch
  BY DEF Told, MovesOn, Settled
<1>2. CASE q \in Told' => q \in Told
  BY <1>0, <1>1, <1>2, NothingTold, RelayStutters
<1>3. CASE q \in Told' /\ q \notin Told
  <2>1. turn'[q].answer = turn[q].answer /\ turn[q].answer.kind = "calls" /\ ~Settled(q)
    BY <1>3 DEF Told, MovesOn, Settled
  <2>2. Batch(q) # {} /\ Batch(q) \in SUBSET Calls
    BY <2>1 DEF KindInv, NamesCalls, Batch, TypeOK, Turn, Answer
  <2>3. \A p \in Turns : p # q => Batch(p) \cap Batch(q) = {}
    BY DEF BatchInv, TurnBatches
  <2>4. ASSUME NEW c \in Batch(q) PROVE CallState(c) \in {"open", "failed"}
    <3>1. c \in Calls /\ Awake(c)
      BY <2>2 DEF BatchInv, TurnBatches
    <3>2. call[c].pc # "answered"
      <4> SUFFICES ASSUME call[c].pc = "answered" PROVE FALSE
        OBVIOUS
      <4>1. CallBatches(c)
        BY <3>1 DEF BatchInv
      <4>2. Replied(c)
        BY <4>1 DEF CallBatches
      <4>3. PICK p \in Turns : turn[p].pc = "returned" /\ c \in Batch(p)
        BY <4>2 DEF Replied, ToldByReturned
      <4>4. p # q
        BY <2>1, <4>3 DEF Settled
      <4> QED BY <2>3, <4>3, <4>4
    <3> QED BY <3>1, <3>2, OpenCalls
  <2>5. Batch(q) \cap UNION ToldBatches = {}
    BY <1>3, <2>3 DEF ToldBatches, Told, Batch
  <2>6. ToldBatches' = ToldBatches \cup {Batch(q)}
    BY <1>3, <2>1, OneMoreTold DEF Batch
  <2> HIDE DEF Batch
  <2>7. Relay!RelayNext
    BY <1>0, <2>2, <2>4, <2>5, <2>6, RelayTells
  <2> QED BY <2>7
<1> QED BY <1>2, <1>3

\* A client brings the results of a batch.
LEMMA RelayReply ==
  ASSUME TypeOK, BatchInv, KindInv, NEW q \in Turns, DeliverReply(q)
  PROVE  [Relay!RelayNext]_(Relay!relayVars)
<1> DEFINE ids == turn[q].ids
<1>1. Replying(q) /\ ids \in SUBSET Calls
  BY DEF DeliverReply, BatchInv, TurnBatches, TypeOK, Turn
<1>2. \A c \in ids : call[c].reply = None
  BY <1>1 DEF Replying
<1>3. ASSUME NEW c \in Calls
      PROVE  /\ call'[c].pc = call[c].pc
             /\ c \in ids => call'[c].reply = q
             /\ c \notin ids => call'[c].reply = call[c].reply
  <2>1. call'[c] = IF c \in ids THEN [call[c] EXCEPT !.reply = q] ELSE call[c]
    BY <1>2 DEF DeliverReply
  <2>2. [call[c] EXCEPT !.reply = q].pc = call[c].pc /\ [call[c] EXCEPT !.reply = q].reply = q
    BY DEF TypeOK, Call
  <2> QED BY <2>1, <2>2
<1>4. SameStates
  BY <1>3 DEF SameStates, CallState
<1>5. DeliveredCalls' = DeliveredCalls \cup ids
  BY <1>1, <1>3, ConstantsAssumption DEF DeliveredCalls
<1>6. ids \cap DeliveredCalls = {}
  BY <1>2 DEF DeliveredCalls
<1>7. ids \in ToldBatches
  <2>1. PICK p \in Turns : turn[p].pc = "returned" /\ Batch(p) = ids
    BY <1>1 DEF Replying, ToldByReturned
  <2>2. turn[p].answer.kind = "calls"
    BY <1>1, <2>1 DEF Replying, KindInv, NamesCalls, Batch
  <2> QED BY <2>1, <2>2 DEF ToldBatches, Told, Batch
<1>8. SameTold
  <2>1. OnlyTurn(q) /\ turn'[q].pc = "waiting" /\ turn[q].pc = "replying"
    BY TurnAtKeeps DEF DeliverReply
  <2>2. q \notin Told /\ q \notin Told'
    BY <2>1 DEF Told
  <2> QED BY <2>1, <2>2, NothingTold
<1> HIDE DEF ids
<1>9. ids \in SUBSET Calls
  BY <1>1
<1> QED BY <1>4, <1>5, <1>6, <1>7, <1>8, <1>9, RelayBrings

LEMMA TurnStepCalls ==
  ASSUME NEW q \in Turns, TurnStep(q) \/ ClientStep(q), ~DeliverReply(q)
  PROVE  UNCHANGED call
BY DEF TurnStep, ClientStep, AttachStart, AttachResume, OpenSend, SendFails, Deliver, Detach, ReceiveTurn,
       TurnAborts, TurnAborted, ReturnTurn, StartRun, LookupResume, CancelTurn

\* The batch reaches a turn that is about to return without it, or that still waits.
LEMMA RelayAnnounces ==
  ASSUME TypeOK, HolderInv, BatchInv, KindInv, NEW r \in Runs, AnnounceAnswer(r)
  PROVE  [Relay!RelayNext]_(Relay!relayVars)
<1> DEFINE q == announcer[r].waiter
           batch == announcer[r].answer.batch
<1>0. SameStates /\ SameDelivered
  BY SameCalls DEF AnnounceAnswer
<1>1. announcer[r].stage = "registered" /\ Send(q, announcer[r].answer)
  BY DEF AnnounceAnswer
<1>2. CASE q \notin Turns
  <2>1. UNCHANGED turn
    BY <1>1, <1>2 DEF TypeOK, Send, TurnBecomes
  <2> QED BY <1>0, <2>1, SameTurns, RelayStutters
<1>3. CASE q \in Turns
  <2>1. OnlyTurn(q) /\ turn'[q].pc = turn[q].pc /\ turn'[q].answer = announcer[r].answer
    BY <1>1, <1>3, TurnAfter
  <2>2. q \notin Told
    <3>1. turn[q].sends = 0
      BY <1>1, <1>3 DEF HolderInv, HeldUnanswered, Held, HeldByAnnouncer
    <3>2. Batch(q) = {}
      BY <1>3, <3>1 DEF BatchInv, TurnBatches
    <3> QED BY <1>3, <3>2 DEF KindInv, NamesCalls, Batch, Told
  <2>3. CASE q \notin Told'
    BY <1>0, <1>3, <2>1, <2>2, <2>3, NothingTold, RelayStutters
  <2>4. CASE q \in Told'
    <3>1. batch = run[r].announced /\ batch # {} /\ \A p \in Turns : batch \cap Batch(p) = {}
      BY <1>1 DEF BatchInv, RunBatches
    <3>2. batch \in SUBSET Calls
      BY <3>1 DEF TypeOK, Run
    <3>3. ASSUME NEW c \in batch PROVE CallState(c) \in {"open", "failed"}
      <4>1. c \in Calls /\ Awake(c) /\ call[c].reply = None
        BY <3>1, <3>2 DEF BatchInv, RunBatches
      <4>2. call[c].pc # "answered"
        BY <4>1 DEF BatchInv, CallBatches
      <4> QED BY <4>1, <4>2, OpenCalls
    <3>4. batch \cap UNION ToldBatches = {}
      BY <3>1 DEF ToldBatches, Told, Batch
    <3>5. ToldBatches' = ToldBatches \cup {batch}
      BY <1>3, <2>1, <2>2, <2>4, OneMoreTold
    <3>6. batch # {}
      BY <3>1
    <3> HIDE DEF batch
    <3>7. Relay!RelayNext
      BY <1>0, <3>2, <3>3, <3>4, <3>5, <3>6, RelayTells
    <3> QED BY <3>7
  <2> QED BY <2>3, <2>4
<1> QED BY <1>2, <1>3

LEMMA RelayEnds ==
  ASSUME TypeOK, HolderInv, EndInv, BatchInv, KindInv, NEW r \in Runs, TeardownAnswer(r)
  PROVE  [Relay!RelayNext]_(Relay!relayVars)
<1> DEFINE q == teardown[r].waiter
<1>0. SameStates /\ SameDelivered
  BY SameCalls DEF TeardownAnswer
<1>1. CASE UNCHANGED turn
  BY <1>0, <1>1, SameTurns, RelayStutters
<1>2. CASE q \in Turns /\ Send(q, teardown[r].answer)
  <2>1. OnlyTurn(q) /\ turn'[q].pc = turn[q].pc /\ turn'[q].answer = teardown[r].answer
    BY <1>2, TurnAfter
  <2>2. turn[q].sends = 0
    BY <1>2 DEF HolderInv, HeldUnanswered, Held, HeldByTeardown, TeardownAnswer
  <2>3. Batch(q) = {}
    BY <1>2, <2>2 DEF BatchInv, TurnBatches
  <2>4. q \notin Told
    BY <1>2, <2>3 DEF KindInv, NamesCalls, Batch, Told
  <2>5. teardown[r].answer.kind # "calls"
    BY DEF EndInv, TeardownsFit, TeardownFits, Ended
  <2>6. q \notin Told'
    BY <2>1, <2>5 DEF Told
  <2> QED BY <1>0, <1>2, <2>1, <2>4, <2>6, NothingTold, RelayStutters
<1>3. UNCHANGED turn \/ (q \in Turns /\ Send(q, teardown[r].answer))
  BY DEF TeardownAnswer, TypeOK, Teardown
<1> QED BY <1>1, <1>2, <1>3

\* What a step does to one call.
LEMMA RelayCall ==
  ASSUME TypeOK, SameTold, NEW c \in Calls, NEW k, CallBecomes(c, k), k.reply = call[c].reply,
         \/ call[c].pc \in {"idle", "found"} /\ k.pc \in {"found", "parked", "failed"}
         \/ call[c].pc \in {"parked", "aborting"} /\ k.pc \in {"aborting", "failed"}
         \/ call[c].pc = "parked" /\ k.pc = "answered" /\ call[c].reply # None
  PROVE  [Relay!RelayNext]_(Relay!relayVars)
<1>1. call'[c] = k /\ \A d \in Calls : d # c => call'[d] = call[d]
  BY DEF TypeOK, CallBecomes
<1>2. \A d \in Calls : d # c => CallState(d)' = CallState(d)
  BY <1>1 DEF CallState
<1>3. SameDelivered
  BY <1>1 DEF SameDelivered, DeliveredCalls
<1>4. CASE CallState(c)' = CallState(c)
  <2>1. SameStates
    BY <1>2, <1>4 DEF SameStates
  <2> QED BY <1>3, <2>1, RelayStutters
<1>5. CASE CallState(c)' # CallState(c)
  <2>1. \/ CallState(c) = "idle" /\ CallState(c)' = "open"
        \/ CallState(c) \in {"idle", "open"} /\ CallState(c)' = "failed"
        \/ CallState(c) = "open" /\ c \in DeliveredCalls /\ CallState(c)' = "answered"
    <3>1. CASE call[c].pc \in {"idle", "found"} /\ k.pc \in {"found", "parked", "failed"}
      BY <1>1, <1>5, <3>1, CallStates, CallStatesAfter
    <3>2. CASE call[c].pc \in {"parked", "aborting"} /\ k.pc \in {"aborting", "failed"}
      BY <1>1, <1>5, <3>2, CallStates, CallStatesAfter
    <3>3. CASE call[c].pc = "parked" /\ k.pc = "answered" /\ call[c].reply # None
      BY <1>1, <3>3, CallStates, CallStatesAfter DEF DeliveredCalls
    <3> QED BY <3>1, <3>2, <3>3
  <2> QED BY <1>2, <1>3, <2>1, RelayMovesCall
<1> QED BY <1>4, <1>5

LEMMA RelayCallAt ==
  ASSUME TypeOK, UNCHANGED turn, NEW c \in Calls, NEW pc, CallAt(c, pc),
         \/ call[c].pc = "found" /\ pc \in {"parked", "failed"}
         \/ call[c].pc \in {"parked", "aborting"} /\ pc \in {"aborting", "failed"}
  PROVE  [Relay!RelayNext]_(Relay!relayVars)
<1> DEFINE k == [call[c] EXCEPT !.pc = pc]
<1>1. k.pc = pc /\ k.reply = call[c].reply
  BY DEF TypeOK, Call
<1>2. CallBecomes(c, k)
  BY DEF CallAt
<1> HIDE DEF k
<1> QED BY <1>1, <1>2, SameTurns, RelayCall

LEMMA RelayStep ==
  ASSUME TypeOK, HolderInv, EndInv, BatchInv, KindInv, [Next]_vars
  PROVE  [Relay!RelayNext]_(Relay!relayVars)
<1>1. CASE UNCHANGED <<turn, call>>
  BY <1>1, SameCalls, SameTurns, RelayStutters
<1>2. ASSUME NEW q \in Turns, TurnStep(q) \/ ClientStep(q) PROVE [Relay!RelayNext]_(Relay!relayVars)
  <2>1. CASE DeliverReply(q)
    BY <2>1, RelayReply
  <2>2. CASE ~DeliverReply(q)
    <3>1. UNCHANGED call /\ OnlyTurn(q) /\ MovesOn(q)
      BY <1>2, <2>2, TurnStepCalls, TurnStepMoves, ClientStepMoves
    <3> QED BY <3>1, RelayTurnMoves
  <2> QED BY <2>1, <2>2
<1>3. ASSUME NEW c \in Calls, CallStep(c) PROVE [Relay!RelayNext]_(Relay!relayVars)
  <2>1. CASE CallPark(c) \/ CallRunDone(c) \/ CallAborted(c)
    <3>1. UNCHANGED turn
      BY <2>1 DEF CallPark, CallRunDone, CallAborted
    <3>2. \/ call[c].pc = "found" /\ (CallAt(c, "parked") \/ CallAt(c, "failed"))
          \/ call[c].pc \in {"parked", "aborting"} /\ CallAt(c, "failed")
      BY <2>1 DEF CallPark, CallRunDone, CallAborted
    <3> QED BY <3>1, <3>2, RelayCallAt
  <2>2. CASE CallReplied(c)
    <3> DEFINE k == [call[c] EXCEPT !.pc = "answered", !.result = call[c].reply]
    <3>1. k.pc = "answered" /\ k.reply = call[c].reply
      BY DEF TypeOK, Call
    <3>2. CallBecomes(c, k) /\ call[c].pc = "parked" /\ call[c].reply # None /\ UNCHANGED turn
      BY <2>2 DEF CallReplied
    <3> HIDE DEF k
    <3> QED BY <3>1, <3>2, SameTurns, RelayCall
  <2>3. CASE CallAborts(c)
    BY <1>1, <2>3 DEF CallAborts
  <2> QED BY <1>3, <2>1, <2>2, <2>3 DEF CallStep
<1>4. ASSUME NEW r \in Runs, RunStep(r) PROVE [Relay!RelayNext]_(Relay!relayVars)
  BY <1>1, <1>4, RelayAnnounces, RelayEnds
     DEF RunStep, TeardownStep, AnnounceTake, AnnounceRegister, ResultTimerFires, TimeoutAborts, DeltaDone,
         ReaderEndsRun, ReaderExits, StopperAborts, TeardownCancel, TeardownUnregister, TeardownRelease
<1>5. CASE BridgeStep
  <2>1. ASSUME NEW r \in Runs, NEW d \in Deltas, ReadDelta(r, d)
        PROVE  [Relay!RelayNext]_(Relay!relayVars)
    <3>1. UNCHANGED call
      BY <2>1 DEF ReadDelta
    <3> QED BY <2>1, <3>1, DeltaMoves, SameCalls, SameTurns, RelayStutters
  <2>2. ASSUME NEW c \in Calls, CallCancelled(c) PROVE [Relay!RelayNext]_(Relay!relayVars)
    BY <2>2, RelayCallAt DEF CallCancelled
  <2>3. ASSUME NEW c \in Calls, NEW r \in Runs, CallLookup(c, r)
        PROVE  [Relay!RelayNext]_(Relay!relayVars)
    <3> DEFINE pc == IF r \in byAgentID THEN "found" ELSE "failed"
               k == [call[c] EXCEPT !.run = r, !.pc = pc]
    <3>1. k.pc = pc /\ k.reply = call[c].reply
      BY DEF TypeOK, Call
    <3>2. CallBecomes(c, k) /\ call[c].pc = "idle" /\ UNCHANGED turn
      BY <2>3 DEF CallLookup
    <3>3. pc \in {"found", "failed"}
      OBVIOUS
    <3> HIDE DEF k, pc
    <3> QED BY <3>1, <3>2, <3>3, SameTurns, RelayCall
  <2> QED BY <1>1, <1>5, <2>1, <2>2, <2>3
       DEF BridgeStep, StreamEnds, AbortParkedToolRuns, FailToolRunsForProcess
<1>6. CASE UNCHANGED vars
  BY <1>1, <1>6 DEF vars
<1> QED BY <1>2, <1>3, <1>4, <1>5, <1>6 DEF Next

LEMMA RelayStarts == Init => Relay!RelayInit
<1> SUFFICES ASSUME Init PROVE Relay!RelayInit
  OBVIOUS
<1>1. \A c \in Calls : call[c].pc = "idle" /\ call[c].reply = None
  BY DEF Init
<1>2. \A q \in Turns : turn[q].pc = "idle"
  BY DEF Init
<1>3. [c \in Calls |-> CallState(c)] = [c \in Calls |-> "idle"]
  BY <1>1, CallStates
<1>4. {turn[q].answer.batch : q \in Told} = {}
  BY <1>2 DEF Told
<1>5. {c \in Calls : call[c].reply # None} = {}
  BY <1>1
<1> QED BY <1>3, <1>4, <1>5 DEF Relay!RelayInit

\* The tool relay implements CallRelay: a callback gets a result only if a client was told
\* of its call, which happens once and in one batch, and the results of a batch arrive
\* together (CallCustomTool, announceBatch and deliver, tools.go).
THEOREM RelayKeepsPromise == Spec => RelayRefined
<1>1. TypeOK /\ HolderInv /\ EndInv /\ BatchInv /\ KindInv /\ [Next]_vars
        => [Relay!RelayNext]_(Relay!relayVars)
  BY RelayStep
<1>2. EndInv => TurnsFit
  BY DEF EndInv
<1> QED BY <1>1, <1>2, RelayStarts, TypeInit, TypeNext, HolderInit, HolderNext, EndInit, EndNext,
           BatchInit, BatchNext, KindInit, KindNext, PTL DEF Spec, RelayRefined, Relay!RelaySpec
=============================================================================
