-------------------------------- MODULE Sessions --------------------------------
(***************************************************************************)
(* One recordingSession over one copilot.Session: a prompt is sent by a    *)
(* goroutine of its own while the watchdog waits for its answer, for a     *)
(* stall and for the end of the caller's context. A stalled attempt is     *)
(* aborted, waited for, its SDK session reused or resumed, and one         *)
(* continuation is sent; all of it within one recovery window. A session   *)
(* whose work could not be stopped is tainted and left alone.              *)
(*                                                                         *)
(* Time is the choice of when the stall timer and the recovery window fire.*)
(* The SDK and the model behind it are the environment: they are asked, and*)
(* may answer at any time or never.                                        *)
(***************************************************************************)
EXTENDS SessionsConstants, Sequences, FiniteSets

MaxSessionStallRecoveries == 1

VARIABLES
  (* the watchdog *)
  pc,            (* what the caller of SendAndWait, then of Close, waits for   *)
  why,           (* what an attempt is stopped for                             *)
  recoveries,    (* continuations of this prompt                               *)
  expired,       (* the recovery window has passed                             *)
  canceled,      (* the caller's context has ended                             *)
  reply,         (* what SendAndWait returned last                             *)
  prompts,
  tainted,
  (* the attempt: its sender and its sessionProgress *)
  attempt, sender, retries, sendCanceled, result,
  accepting,     (* acceptCallbacks                                            *)
  callback,      (* the event whose callback runs                              *)
  activeTools, sessionIdle,
  (* typed tools *)
  tracked,       (* the handlers the SDK session calls are the tracked ones    *)
  recovering, call, madeBy,
  (* copilot.Session and its runBoundedSessionOperation *)
  handle, operation, outcome, connected,
  (* the SDK *)
  turn, events

watchdog == <<pc, why, recoveries, expired, reply, prompts, tainted>>
sending  == <<attempt, sender, retries, sendCanceled, result>>
progress == <<accepting, callback, activeTools, sessionIdle>>
tools    == <<tracked, recovering, call, madeBy>>
session  == <<handle, operation, outcome, connected>>
sdk      == <<turn, events>>
vars     == <<watchdog, canceled, sending, progress, tools, session, sdk>>

None == "none"
NoCallback == [type |-> None, calls |-> {}]
Ended == "ended"     (* an answer or an error is in the sender's channel       *)

(* The first SDK session is 1; a prompt resumes it once at most. *)
Fresh == prompts + 1

Running == {c \in ToolCall : call[c] = "running"}
TypedToolsInactive == tracked => Running = {}
ContextEnded == expired \/ canceled

Init ==
  /\ pc = "new" /\ why = None /\ recoveries = 0 /\ expired = FALSE /\ canceled = FALSE
  /\ reply = None /\ prompts = 0 /\ tainted = FALSE
  /\ attempt = 0 /\ sender = Ended /\ retries = 0 /\ sendCanceled = FALSE /\ result = None
  /\ accepting = FALSE /\ callback = NoCallback /\ activeTools = {} /\ sessionIdle = FALSE
  /\ tracked = FALSE /\ recovering = FALSE /\ call = [c \in ToolCall |-> None] /\ madeBy = [c \in ToolCall |-> 0]
  /\ handle = NoSession /\ operation = None /\ outcome = None /\ connected = {}
  /\ turn = "idle" /\ events = <<>>

--------------------------------------------------------------------------------
(* Factory.Open gives the SDK a copy of the tools, and the handlers are    *)
(* wrapped after it returned: what the SDK calls is then not tracked. It   *)
(* is for an opener that keeps the slice it was given.                     *)
Open ==
  /\ pc = "new" /\ ~canceled
  /\ \/ /\ pc' = "ready" /\ handle' = 1 /\ connected' = {1}
        /\ tracked' \in BOOLEAN
     \/ /\ pc' = "closed" /\ UNCHANGED <<tracked, handle, connected>>
  /\ UNCHANGED <<why, recoveries, expired, canceled, reply, prompts, tainted, sending, progress,
                 recovering, call, madeBy, operation, outcome, sdk>>

(* newSessionProgress, subscribeToAttempt, and the sender's goroutine. *)
NewAttempt ==
  /\ pc' = "attempt"
  /\ attempt' = attempt + 1 /\ sender' = "starting" /\ sendCanceled' = FALSE
  /\ retries' = ModelCallRetries /\ result' = None
  /\ accepting' = TRUE /\ activeTools' = {} /\ sessionIdle' = FALSE

(* recordingSession.SendAndWait *)
SendAndWait ==
  /\ pc \in {"ready", "returned"} /\ reply # "error" /\ ~canceled /\ prompts < MaxPrompts
  /\ prompts' = prompts + 1 /\ recoveries' = 0 /\ reply' = None
  /\ NewAttempt
  /\ UNCHANGED <<why, expired, canceled, tainted, callback, tools, session, sdk>>

Reply(r) == pc' = "returned" /\ reply' = r

StopObserving == accepting' = FALSE

(* stopCanceledAttempt and recoverStalledAttempt up to the abort. *)
StartAbort(reason) ==
  /\ pc' = "abort" /\ why' = reason /\ expired' = FALSE
  /\ recovering' = TRUE /\ sessionIdle' = FALSE
  /\ operation' = "abort" /\ outcome' = None
  /\ UNCHANGED <<recoveries, reply, prompts, tainted, canceled, sending, accepting, callback,
                 activeTools, tracked, call, madeBy, handle, connected, sdk>>

Completed ==
  /\ pc = "attempt" /\ sender = Ended
  /\ IF canceled
     THEN StartAbort("cancel")
     ELSE /\ Reply(IF result = "event" THEN "ok" ELSE "error")
          /\ StopObserving
          /\ UNCHANGED <<why, recoveries, expired, canceled, prompts, tainted, sending, callback,
                         activeTools, sessionIdle, tools, session, sdk>>

ContextDone == pc = "attempt" /\ canceled /\ StartAbort("cancel")

(* A result that is there wins over a timer that fired with it. When the   *)
(* stall cannot be logged, the attempt is stopped as a canceled one is;    *)
(* when the abort cannot be, the session is not aborted.                   *)
StallDetected ==
  /\ pc = "attempt" /\ sender # Ended
  /\ \/ StartAbort(IF recoveries < MaxSessionStallRecoveries THEN "recover" ELSE "giveUp")
     \/ StartAbort("cancel")
     \/ /\ pc' = "barrier" /\ why' = "logFailed" /\ expired' = FALSE
        /\ recovering' = TRUE /\ sendCanceled' = TRUE
        /\ UNCHANGED <<recoveries, reply, prompts, tainted, canceled, attempt, sender, retries,
                       result, progress, tracked, call, madeBy, session, sdk>>

--------------------------------------------------------------------------------
(* The abort answered: only now is the sender's context canceled. *)
AbortReturned ==
  /\ pc = "abort" /\ outcome # None
  /\ pc' = "barrier" /\ sendCanceled' = TRUE
  /\ why' \in {why} \cup (IF why = "cancel" THEN {} ELSE {"logFailed"})
  /\ UNCHANGED <<recoveries, expired, reply, prompts, tainted, canceled, attempt, sender, retries,
                 result, progress, tools, session, sdk>>

(* Mutant: a session whose abort never answered is not tainted. *)
AbortTimedOutUntainted ==
  /\ pc = "abort" /\ expired
  /\ sendCanceled' = TRUE
  /\ IF why = "cancel"
     THEN pc' = "barrier" /\ UNCHANGED <<reply, accepting>>
     ELSE Reply("error") /\ StopObserving
  /\ UNCHANGED <<why, recoveries, expired, prompts, tainted, canceled, attempt, sender, retries,
                 result, callback, activeTools, sessionIdle, tools, session, sdk>>

AbortTimedOut ==
  /\ pc = "abort" /\ expired
  /\ sendCanceled' = TRUE
  /\ tainted' = TRUE
  /\ IF why = "cancel"
     THEN pc' = "barrier" /\ UNCHANGED <<reply, accepting>>
     ELSE Reply("error") /\ StopObserving
  /\ UNCHANGED <<why, recoveries, expired, prompts, canceled, attempt, sender, retries,
                 result, callback, activeTools, sessionIdle, tools, session, sdk>>

(* Mutant: the barrier does not wait for callbacks and native work. *)
SenderStopped == sender = Ended /\ TypedToolsInactive

(* waitForSessionAttemptStop *)
AttemptStopped ==
  /\ sender = Ended /\ TypedToolsInactive
  /\ callback = NoCallback /\ activeTools = {}

Fail(taint) ==
  /\ Reply("error")
  /\ tainted' = (tainted \/ taint)
  /\ UNCHANGED <<recoveries, recovering, sending, activeTools, sessionIdle, operation, outcome>>

(* The continuation prompt; it may fail to be logged. *)
Continue ==
  \/ /\ recoveries' = recoveries + 1 /\ recovering' = FALSE
     /\ NewAttempt
     /\ operation' = None /\ outcome' = None
     /\ UNCHANGED <<reply, tainted>>
  \/ (Fail(FALSE) /\ StopObserving)

(* What follows the barrier. *)
StartResume ==
  /\ pc' = "resume" /\ StopObserving
  /\ operation' = "disconnect" /\ outcome' = None
  /\ UNCHANGED <<recoveries, reply, tainted, recovering, sending, activeTools, sessionIdle>>

AbortFailed == outcome = "error"

BarrierPassed ==
  /\ pc = "barrier" /\ AttemptStopped
  /\ CASE why = "logFailed" -> Fail(FALSE) /\ StopObserving
       [] why = "cancel"    -> Fail(AbortFailed) /\ StopObserving
       [] OTHER ->
            \/ canceled /\ Fail(FALSE) /\ StopObserving
            \/ ~canceled /\ AbortFailed /\ ~sessionIdle /\ Fail(TRUE) /\ StopObserving
            \/ ~canceled /\ (AbortFailed => sessionIdle) /\ why = "giveUp"
                 /\ Fail(~sessionIdle) /\ StopObserving
            \/ ~canceled /\ why = "recover" /\ sessionIdle /\ Continue
            \/ ~canceled /\ why = "recover" /\ ~sessionIdle /\ ~AbortFailed
                 /\ (StartResume \/ (Fail(TRUE) /\ StopObserving))
  /\ UNCHANGED <<why, expired, canceled, prompts, callback, tracked, call, madeBy,
                 handle, connected, sdk>>

(* Mutant: nothing bounds the wait for the work of an attempt. *)
BarrierUnbounded == pc = "barrier" /\ FALSE /\ UNCHANGED vars

BarrierTimedOut ==
  /\ pc = "barrier" /\ expired
  /\ Fail(TRUE) /\ StopObserving
  /\ UNCHANGED <<why, expired, canceled, prompts, callback, tracked, call, madeBy,
                 handle, connected, sdk>>

ResumeReturned ==
  /\ pc = "resume" /\ outcome # None
  /\ IF canceled \/ outcome = "error"
     THEN Fail(TRUE) /\ UNCHANGED accepting
     ELSE Continue \/ (Fail(TRUE) /\ UNCHANGED accepting)
  /\ UNCHANGED <<why, expired, canceled, prompts, callback, tracked, call, madeBy,
                 handle, connected, sdk>>

ResumeCutShort ==
  /\ pc = "resume" /\ ContextEnded
  /\ Fail(TRUE)
  /\ UNCHANGED <<why, expired, canceled, prompts, accepting, callback, tracked, call, madeBy,
                 handle, connected, sdk>>

(* recordingSession.Close *)
Close ==
  /\ pc \in {"ready", "returned"}
  /\ IF tainted
     THEN pc' = "closed" /\ UNCHANGED <<expired, operation, outcome>>
     ELSE /\ pc' = "closing" /\ expired' = FALSE
          /\ operation' = "close" /\ outcome' = None
  /\ UNCHANGED <<why, recoveries, reply, prompts, tainted, canceled, sending, progress, tools,
                 handle, connected, sdk>>

Closed ==
  /\ pc = "closing"
  /\ \/ outcome # None /\ UNCHANGED tainted
     \/ expired /\ tainted' = TRUE
  /\ pc' = "closed"
  /\ UNCHANGED <<why, recoveries, expired, reply, prompts, canceled, sending, progress, tools,
                 session, sdk>>

(* stopCopilotClient: stopped, or told to stop by force. *)
StopClient ==
  /\ pc = "closed" /\ pc' = "stopping" /\ expired' = FALSE
  /\ UNCHANGED <<why, recoveries, reply, prompts, tainted, canceled, sending, progress, tools,
                 session, sdk>>

ClientStopped ==
  /\ pc = "stopping" /\ pc' = "stopped"
  /\ \/ connected' = {}
     \/ expired /\ UNCHANGED connected
  /\ UNCHANGED <<why, recoveries, expired, reply, prompts, tainted, canceled, sending, progress,
                 tools, handle, operation, outcome, sdk>>

WindowExpires ==
  /\ pc \in {"abort", "barrier", "resume", "closing", "stopping"} /\ ~expired
  /\ expired' = TRUE
  /\ UNCHANGED <<pc, why, recoveries, reply, prompts, tainted, canceled, sending, progress,
                 tools, session, sdk>>

Cancel ==
  /\ pc \in {"new", "ready", "attempt", "abort", "barrier", "resume"} /\ ~canceled
  /\ canceled' = TRUE
  /\ UNCHANGED <<watchdog, sending, progress, tools, session, sdk>>

--------------------------------------------------------------------------------
(* copilot.Session.SendAndWait, with the retries of a transient error. *)
SendMessage ==
  /\ sender = "starting"
  /\ IF sendCanceled \/ handle = NoSession
     THEN sender' = Ended /\ result' = "error" /\ UNCHANGED turn
     ELSE sender' = "waiting" /\ turn' = "busy" /\ UNCHANGED result
  /\ UNCHANGED <<watchdog, canceled, attempt, retries, sendCanceled, progress, tools, session, events>>

BackOff ==
  /\ sender = "backoff"
  /\ IF sendCanceled THEN sender' = Ended /\ result' = "error" /\ UNCHANGED retries
                     ELSE sender' = "starting" /\ retries' = retries - 1 /\ UNCHANGED result
  /\ UNCHANGED <<watchdog, canceled, attempt, sendCanceled, progress, tools, session, sdk>>

(* The SDK stops waiting; it does not stop the turn. *)
WaitCanceled ==
  /\ sender = "waiting" /\ (sendCanceled \/ canceled)
  /\ sender' = Ended /\ result' = "error"
  /\ UNCHANGED <<watchdog, canceled, attempt, retries, sendCanceled, progress, tools, session, sdk>>

(* copilot.Session.Abort: the turn ends, the tool calls in flight are      *)
(* reported complete although their handlers still run, and the session is *)
(* idle. A rejected abort may have had the same effect.                    *)
Unreported == {c \in ToolCall : call[c] \in {"called", "running"}}

AbortTurn ==
  IF turn = "busy"
  THEN /\ turn' = "idle"
       /\ events' = events \o <<[type |-> "reported", calls |-> Unreported], [type |-> "idle", calls |-> {}]>>
       /\ IF sender = "waiting" THEN sender' = Ended /\ result' = "event"
                                ELSE UNCHANGED <<sender, result>>
  ELSE UNCHANGED <<sdk, sender, result>>

Answer(o) == operation' = None /\ outcome' = o

AbortAnswers ==
  /\ operation = "abort"
  /\ \/ handle # NoSession /\ AbortTurn /\ (Answer("ok") \/ Answer("error"))
     \/ Answer("error") /\ UNCHANGED <<sdk, sender, result>>
  /\ UNCHANGED <<watchdog, canceled, attempt, retries, sendCanceled, progress, tools, handle, connected>>

(* copilot.Session.disconnect, whose own retries end in one of two ways. *)
Disconnect ==
  /\ operation \in {"disconnect", "close"}
  /\ \/ /\ handle # NoSession
        /\ connected' = connected \ {handle} /\ handle' = NoSession
        /\ IF operation = "close" THEN Answer("ok")
           ELSE IF ContextEnded THEN Answer("error")
           ELSE operation' = "reopen" /\ UNCHANGED outcome
     \/ Answer(IF handle = NoSession /\ operation = "close" THEN "ok" ELSE "error")
          /\ UNCHANGED <<handle, connected>>
  /\ UNCHANGED <<watchdog, canceled, sending, progress, tools, sdk>>

(* Factory.resume: the session continues without its pending work. *)
Reopen ==
  /\ operation = "reopen"
  /\ \/ /\ connected' = connected \cup {Fresh} /\ operation' = "deliver"
        /\ turn' = "idle" /\ events' = <<>>
        /\ UNCHANGED outcome
     \/ Answer("error") /\ UNCHANGED <<connected, sdk>>
  /\ UNCHANGED <<watchdog, canceled, sending, progress, tools, handle>>

(* Mutant: a session resumed too late is dropped without being closed. *)
DeliverOrDrop ==
  /\ operation = "deliver"
  /\ IF ContextEnded THEN Answer("error") /\ UNCHANGED <<connected, handle>>
                     ELSE handle' = Fresh /\ Answer("ok") /\ UNCHANGED connected
  /\ UNCHANGED <<watchdog, canceled, sending, progress, tools, sdk>>

(* Session.resumeWithinContext: who comes too late is disconnected. *)
Deliver ==
  /\ operation = "deliver"
  /\ IF ContextEnded
     THEN connected' = connected \ {Fresh} /\ Answer("error") /\ UNCHANGED handle
     ELSE handle' = Fresh /\ Answer("ok") /\ UNCHANGED connected
  /\ UNCHANGED <<watchdog, canceled, sending, progress, tools, sdk>>

--------------------------------------------------------------------------------
(* The model's turn: it calls typed tools and ends, or fails. *)
Emit(type, calls) == events' = Append(events, [type |-> type, calls |-> calls])

ToolCalled(c) ==
  /\ turn = "busy" /\ call[c] = None
  /\ call' = [call EXCEPT ![c] = "called"] /\ madeBy' = [madeBy EXCEPT ![c] = attempt]
  /\ Emit("started", {c})
  /\ UNCHANGED <<watchdog, canceled, sending, progress, tracked, recovering, session, turn>>

(* trackedToolHandler *)
HandlerBegins(c) ==
  /\ call[c] = "called"
  /\ IF tracked /\ recovering
     THEN call' = [call EXCEPT ![c] = "done"] /\ Emit("reported", {c})
     ELSE call' = [call EXCEPT ![c] = "running"] /\ UNCHANGED events
  /\ UNCHANGED <<watchdog, canceled, sending, progress, tracked, recovering, madeBy, session, turn>>

HandlerEnds(c) ==
  /\ call[c] = "running"
  /\ call' = [call EXCEPT ![c] = "done"] /\ Emit("reported", {c})
  /\ UNCHANGED <<watchdog, canceled, sending, progress, tracked, recovering, madeBy, session, turn>>

TurnEnds ==
  /\ turn = "busy" /\ Unreported = {}
  /\ turn' = "idle" /\ Emit("idle", {})
  /\ IF sender # "waiting" THEN UNCHANGED <<sender, result>>
     ELSE \/ sender' = Ended /\ result' \in {"event", "error"}
          \/ sender' = "backoff" /\ retries > 0 /\ UNCHANGED result
  /\ UNCHANGED <<watchdog, canceled, attempt, retries, sendCanceled, progress, tools, session>>

(* The callback of subscribeToAttempt: admission, then track. *)
CallbackBegins ==
  /\ events # <<>> /\ callback = NoCallback
  /\ callback' = IF accepting THEN Head(events) ELSE NoCallback
  /\ events' = Tail(events)
  /\ UNCHANGED <<watchdog, canceled, sending, accepting, activeTools, sessionIdle, tools, session, turn>>

CallbackFinishes ==
  /\ callback # NoCallback
  /\ activeTools' = IF callback.type = "started" THEN activeTools \cup callback.calls
                                                 ELSE activeTools \ callback.calls
  /\ sessionIdle' = (sessionIdle \/ callback.type = "idle")
  /\ callback' = NoCallback
  /\ UNCHANGED <<watchdog, canceled, sending, accepting, tools, session, sdk>>

--------------------------------------------------------------------------------
Watch ==
  \/ Completed \/ ContextDone \/ StallDetected
  \/ AbortReturned \/ AbortTimedOut \/ BarrierPassed \/ BarrierTimedOut
  \/ ResumeReturned \/ ResumeCutShort \/ Closed \/ StopClient \/ ClientStopped
  \/ WindowExpires

Environment ==
  \/ SendMessage \/ BackOff \/ WaitCanceled
  \/ AbortAnswers \/ Disconnect \/ Reopen \/ Deliver
  \/ \E c \in ToolCall : ToolCalled(c) \/ HandlerBegins(c) \/ HandlerEnds(c)
  \/ TurnEnds \/ CallbackBegins \/ CallbackFinishes

Next == Open \/ SendAndWait \/ Watch \/ Close \/ Cancel \/ Environment

Spec == Init /\ [][Next]_vars

(* The watchdog is scheduled and its timers fire; nothing is asked of the  *)
(* SDK, of the model or of the tools.                                      *)
FairSpec == Spec /\ WF_vars(Watch)
--------------------------------------------------------------------------------
(* When an attempt begins, the sender, the callbacks and the native work   *)
(* of the one before it have ended: no event of a stalled attempt is taken *)
(* for one of its continuation, and two senders never share the session.   *)
ContinuationStartsQuiet ==
  [][attempt' # attempt /\ prompts' = prompts =>
       /\ sender = Ended /\ callback = NoCallback /\ activeTools = {}
       /\ tracked => Running = {}]_vars

(* Resuming takes both barriers: when the continuation begins, no typed    *)
(* tool of the stalled attempt still runs.                                 *)
TypedToolsStopped ==
  [][attempt' # attempt /\ prompts' = prompts => Running = {}]_vars

(* A session is closed only when nothing else works on it: no sender, and  *)
(* no abort, disconnect or resume that outlived its window.                *)
CloseIsAlone ==
  pc = "closing" =>
    /\ sender = Ended
    /\ operation \in {None, "close"}

(* A session the SDK holds open is the one r42 holds, or one about to be   *)
(* handed over: a resume that comes too late leaves none behind.           *)
NoOrphanSession ==
  connected \subseteq {handle} \cup (IF operation = "deliver" THEN {Fresh} ELSE {})

(* However the SDK, the model and the tools hang, SendAndWait returns and   *)
(* closing a session leads to the end of the client.                       *)
NothingHangs ==
  /\ (pc \in {"attempt", "abort", "barrier", "resume"}) ~> (pc \in {"returned", "stopped"})
  /\ (pc \in {"closing", "closed"}) ~> (pc = "stopped")
================================================================================
