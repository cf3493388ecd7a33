---------------------------- MODULE SessionsProofs ----------------------------
(***************************************************************************)
(* Closing and resuming an SDK session, for any set of typed tools, any    *)
(* number of prompts and of retries, and whatever hangs: a session is      *)
(* closed only when nothing else works on it, and none is left open that   *)
(* r42 does not hold.                                                      *)
(***************************************************************************)
EXTENDS Sessions, TLAPS

TypeInv == prompts \in Nat /\ tainted \in BOOLEAN /\ NoSession \notin connected

(* An answer ends the operation it answers, and a session is reopened only *)
(* when the former one has been given up.                                  *)
AnswerInv == outcome # None => operation = None
HandleInv == operation \in {"reopen", "deliver"} => handle = NoSession

Alone == sender = Ended /\ operation = None

(* What may still be under way at each place of the watchdog: an operation *)
(* that outlived its window leaves the session tainted.                    *)
QuietInv ==
  /\ pc \in {"new", "ready"} => ~tainted /\ Alone
  /\ pc = "attempt" => ~tainted /\ operation = None
  /\ pc = "abort" => ~tainted /\ operation \in {None, "abort"}
  /\ pc = "barrier" => IF tainted THEN why = "cancel" ELSE operation = None
  /\ pc = "resume" =>
       ~tainted /\ sender = Ended /\ operation \in {None, "disconnect", "reopen", "deliver"}
  /\ pc = "returned" => IF tainted THEN reply = "error" ELSE Alone
  /\ pc = "closing" => sender = Ended /\ operation \in {None, "close"}

SessionInv == TypeInv /\ AnswerInv /\ HandleInv /\ QuietInv /\ NoOrphanSession

--------------------------------------------------------------------------------
LEMMA SessionInit == Init => SessionInv
<1> SUFFICES ASSUME Init PROVE SessionInv
  OBVIOUS
<1>1. prompts = 0 /\ tainted = FALSE /\ connected = {}
  BY DEF Init
<1>2. pc = "new" /\ sender = Ended /\ operation = "none" /\ outcome = "none"
  BY DEF Init, None
<1> QED
  BY <1>1, <1>2 DEF SessionInv, TypeInv, AnswerInv, HandleInv, QuietInv, NoOrphanSession, Alone,
                    None

(* The watchdog and its caller.                                            *)
LEMMA CallerSteps ==
  ASSUME SessionInv, Open \/ SendAndWait \/ Close \/ Cancel
  PROVE  SessionInv'
<1> USE DEF SessionInv, TypeInv, AnswerInv, HandleInv, QuietInv, NoOrphanSession, Alone, None, Ended
<1>1. CASE Open
  BY <1>1, SessionsAssumption DEF Open, sending, sdk, progress
<1>2. CASE SendAndWait
  BY <1>2 DEF SendAndWait, NewAttempt, session, Fresh
<1>3. CASE Close
  BY <1>3 DEF Close, sending, Fresh
<1>4. CASE Cancel
  BY <1>4 DEF Cancel, watchdog, sending, session, Fresh
<1> QED
  BY <1>1, <1>2, <1>3, <1>4

(* The attempt ends, or is to be stopped.                                  *)
LEMMA AttemptSteps ==
  ASSUME SessionInv, Completed \/ ContextDone \/ StallDetected
  PROVE  SessionInv'
<1> USE DEF SessionInv, TypeInv, AnswerInv, HandleInv, QuietInv, NoOrphanSession, Alone, None, Ended
<1>1. ASSUME NEW r, pc = "attempt", StartAbort(r)
      PROVE  SessionInv'
  BY <1>1 DEF StartAbort, sending, Fresh
<1>2. CASE Completed
  BY <1>1, <1>2 DEF Completed, Reply, StopObserving, sending, session, Fresh
<1>3. CASE ContextDone
  BY <1>1, <1>3 DEF ContextDone
<1>4. CASE StallDetected
  BY <1>1, <1>4 DEF StallDetected, session, Fresh
<1> QED
  BY <1>2, <1>3, <1>4

(* The stop: abort, barrier and resume.                                    *)
LEMMA RecoverySteps ==
  ASSUME SessionInv,
         \/ AbortReturned \/ AbortTimedOut \/ BarrierPassed \/ BarrierTimedOut
         \/ ResumeReturned \/ ResumeCutShort
  PROVE  SessionInv'
<1> USE DEF SessionInv, TypeInv, AnswerInv, HandleInv, QuietInv, NoOrphanSession, Alone, None, Ended
<1>1. CASE AbortReturned
  BY <1>1 DEF AbortReturned, session, Fresh
<1>2. CASE AbortTimedOut
  BY <1>2 DEF AbortTimedOut, Reply, StopObserving, session, Fresh
<1>3. CASE BarrierPassed
  BY <1>3 DEF BarrierPassed, AttemptStopped, Fail, Reply, StopObserving, Continue, NewAttempt,
              StartResume, sending, Fresh
<1>4. CASE BarrierTimedOut
  BY <1>4 DEF BarrierTimedOut, Fail, Reply, StopObserving, sending, Fresh
<1>5. CASE ResumeReturned
  BY <1>5 DEF ResumeReturned, Fail, Reply, StopObserving, Continue, NewAttempt, sending, Fresh
<1>6. CASE ResumeCutShort
  BY <1>6 DEF ResumeCutShort, Fail, Reply, sending, Fresh
<1> QED
  BY <1>1, <1>2, <1>3, <1>4, <1>5, <1>6

(* The end of the session and of the client.                               *)
LEMMA EndSteps ==
  ASSUME SessionInv, Closed \/ StopClient \/ ClientStopped \/ WindowExpires
  PROVE  SessionInv'
<1> USE DEF SessionInv, TypeInv, AnswerInv, HandleInv, QuietInv, NoOrphanSession, Alone, None, Ended
<1>1. CASE Closed
  BY <1>1 DEF Closed, sending, session, Fresh
<1>2. CASE StopClient
  BY <1>2 DEF StopClient, sending, session, Fresh
<1>3. CASE ClientStopped
  BY <1>3 DEF ClientStopped, sending, Fresh
<1>4. CASE WindowExpires
  BY <1>4 DEF WindowExpires, sending, session, Fresh
<1> QED
  BY <1>1, <1>2, <1>3, <1>4

(* The sender: an attempt that has ended never begins again by itself.     *)
LEMMA SenderSteps ==
  ASSUME SessionInv, SendMessage \/ BackOff \/ WaitCanceled \/ TurnEnds
  PROVE  SessionInv'
<1> USE DEF SessionInv, TypeInv, AnswerInv, HandleInv, QuietInv, NoOrphanSession, Alone, None, Ended
<1>1. CASE SendMessage
  BY <1>1 DEF SendMessage, watchdog, session, Fresh
<1>2. CASE BackOff
  BY <1>2 DEF BackOff, watchdog, session, Fresh
<1>3. CASE WaitCanceled
  BY <1>3 DEF WaitCanceled, watchdog, session, Fresh
<1>4. CASE TurnEnds
  BY <1>4 DEF TurnEnds, watchdog, session, Fresh
<1> QED
  BY <1>1, <1>2, <1>3, <1>4

(* The operation on the SDK session.                                       *)
LEMMA OperationSteps ==
  ASSUME SessionInv, AbortAnswers \/ Disconnect \/ Reopen \/ Deliver
  PROVE  SessionInv'
<1> USE DEF SessionInv, TypeInv, AnswerInv, HandleInv, QuietInv, NoOrphanSession, Alone, None, Ended
<1>1. CASE AbortAnswers
  BY <1>1 DEF AbortAnswers, AbortTurn, Answer, watchdog, sdk, Fresh
<1>2. CASE Disconnect
  BY <1>2 DEF Disconnect, Answer, watchdog, sending, Fresh
<1>3. CASE Reopen
  BY <1>3, SessionsAssumption DEF Reopen, Answer, watchdog, sending, Fresh
<1>4. CASE Deliver
  BY <1>4 DEF Deliver, Answer, watchdog, sending, Fresh
<1> QED
  BY <1>1, <1>2, <1>3, <1>4

(* Tools and callbacks touch neither the session nor the watchdog.         *)
LEMMA ObserverSteps ==
  ASSUME \/ \E c \in ToolCall : ToolCalled(c) \/ HandlerBegins(c) \/ HandlerEnds(c)
         \/ CallbackBegins \/ CallbackFinishes
  PROVE  UNCHANGED <<watchdog, sending, session>>
BY DEF ToolCalled, HandlerBegins, HandlerEnds, CallbackBegins, CallbackFinishes

LEMMA SessionKeeps ==
  ASSUME SessionInv, UNCHANGED <<watchdog, sending, session>>
  PROVE  SessionInv'
BY DEF SessionInv, TypeInv, AnswerInv, HandleInv, QuietInv, NoOrphanSession, Alone, Fresh,
       watchdog, sending, session

LEMMA SessionStep == SessionInv /\ [Next]_vars => SessionInv'
<1> SUFFICES ASSUME SessionInv, [Next]_vars PROVE SessionInv'
  OBVIOUS
<1>1. CASE UNCHANGED vars
  BY <1>1, SessionKeeps DEF vars
<1>2. CASE Watch
  BY <1>2, AttemptSteps, RecoverySteps, EndSteps DEF Watch
<1>3. CASE Environment
  BY <1>3, SenderSteps, OperationSteps, ObserverSteps, SessionKeeps DEF Environment
<1> QED
  BY <1>1, <1>2, <1>3, CallerSteps DEF Next

LEMMA SessionInvariant == Spec => []SessionInv
<1>1. Init => SessionInv
  BY SessionInit
<1>2. SessionInv /\ [Next]_vars => SessionInv'
  BY SessionStep
<1> QED
  BY <1>1, <1>2, PTL DEF Spec

(* A session is closed only when no sender, abort, disconnect or resume    *)
(* works on it any more (recordingSession.Close).                          *)
THEOREM ClosesAlone == Spec => []CloseIsAlone
<1>1. SessionInv => CloseIsAlone
  BY DEF SessionInv, QuietInv, CloseIsAlone
<1> QED
  BY <1>1, SessionInvariant, PTL

(* However late an abort or a resume comes, no SDK session stays connected *)
(* that r42 does not hold (Session.resumeWithinContext).                   *)
THEOREM LeavesNoOrphan == Spec => []NoOrphanSession
<1>1. SessionInv => NoOrphanSession
  BY DEF SessionInv
<1> QED
  BY <1>1, SessionInvariant, PTL
--------------------------------------------------------------------------------
(* What a continuation finds.  At the barrier it is AttemptStopped that    *)
(* says it; what the barrier found stays so while the session is resumed:  *)
(* no callback is admitted any more, and a tracked handler that is called  *)
(* now is turned away.                                                     *)
Quiet ==
  /\ callback = NoCallback /\ activeTools = {}
  /\ tracked => Running = {}

ResumeInv ==
  /\ DOMAIN call = ToolCall
  /\ pc \in {"abort", "barrier", "resume"} => recovering
  /\ pc = "resume" => ~accepting /\ Quiet

LEMMA ResumeInit == Init => ResumeInv
BY DEF Init, ResumeInv

LEMMA ResumeWatchdogSteps ==
  ASSUME ResumeInv, Open \/ SendAndWait \/ Close \/ Cancel \/ Watch
  PROVE  ResumeInv'
<1> USE DEF ResumeInv, Quiet, Running
<1>1. ASSUME NEW r, StartAbort(r) PROVE ResumeInv'
  BY <1>1 DEF StartAbort
<1>2. CASE Open \/ SendAndWait \/ Close \/ Cancel
  BY <1>2 DEF Open, SendAndWait, NewAttempt, Close, Cancel, tools, progress, watchdog
<1>3. CASE Completed \/ ContextDone \/ StallDetected
  BY <1>1, <1>3 DEF Completed, ContextDone, StallDetected, Reply, StopObserving, tools, progress
<1>4. CASE AbortReturned \/ AbortTimedOut \/ BarrierTimedOut \/ ResumeCutShort
  BY <1>4 DEF AbortReturned, AbortTimedOut, BarrierTimedOut, ResumeCutShort, Fail, Reply,
              StopObserving, tools, progress
<1>5. CASE BarrierPassed
  BY <1>5 DEF BarrierPassed, AttemptStopped, TypedToolsInactive, Fail, Reply, Continue, NewAttempt,
              StartResume, StopObserving
<1>6. CASE ResumeReturned
  BY <1>6 DEF ResumeReturned, Fail, Reply, Continue, NewAttempt, StopObserving
<1>7. CASE Closed \/ StopClient \/ ClientStopped \/ WindowExpires
  BY <1>7 DEF Closed, StopClient, ClientStopped, WindowExpires, tools, progress
<1> QED
  BY <1>2, <1>3, <1>4, <1>5, <1>6, <1>7 DEF Watch

LEMMA ResumeEnvironmentSteps ==
  ASSUME ResumeInv, Environment
  PROVE  ResumeInv'
<1> USE DEF ResumeInv, Quiet, Running
<1>1. CASE SendMessage \/ BackOff \/ WaitCanceled \/ TurnEnds \/ AbortAnswers \/ Disconnect \/ Reopen
           \/ Deliver
  BY <1>1 DEF SendMessage, BackOff, WaitCanceled, TurnEnds, AbortAnswers, Disconnect, Reopen, Deliver,
              watchdog, tools, progress
<1>2. ASSUME NEW c \in ToolCall, ToolCalled(c) \/ HandlerEnds(c) PROVE ResumeInv'
  BY <1>2 DEF ToolCalled, HandlerEnds, watchdog, progress, None
<1>3. ASSUME NEW c \in ToolCall, HandlerBegins(c) PROVE ResumeInv'
  BY <1>3 DEF HandlerBegins, watchdog, progress
<1>4. CASE CallbackBegins \/ CallbackFinishes
  BY <1>4 DEF CallbackBegins, CallbackFinishes, watchdog, tools
<1> QED
  BY <1>1, <1>2, <1>3, <1>4 DEF Environment

(* When a continuation is sent, the sender, the callbacks, the native work *)
(* and the tracked handlers of the stalled attempt have ended, for any     *)
(* tools, prompts and retries (recordingSession.recoverStalledAttempt,     *)
(* waitForSessionAttemptStop).                                             *)
THEOREM ContinuationsStartQuiet == Spec => ContinuationStartsQuiet
<1>1. ResumeInv /\ [Next]_vars => ResumeInv'
  <2> SUFFICES ASSUME ResumeInv, [Next]_vars PROVE ResumeInv'
    OBVIOUS
  <2>1. CASE UNCHANGED vars
    BY <2>1 DEF vars, watchdog, progress, tools, ResumeInv, Quiet, Running
  <2> QED
    BY <2>1, ResumeWatchdogSteps, ResumeEnvironmentSteps DEF Next
<1>2. ASSUME SessionInv, ResumeInv, Next, attempt' # attempt, prompts' = prompts
      PROVE  sender = Ended /\ Quiet
  <2>1. prompts \in Nat
    BY <1>2 DEF SessionInv, TypeInv
  <2>2. ~SendAndWait
    BY <1>2, <2>1 DEF SendAndWait
  <2>3. BarrierPassed \/ ResumeReturned
    <3>1. ~Open /\ ~Close /\ ~Cancel
      BY <1>2 DEF Open, Close, Cancel, sending
    <3>2. ~Environment
      BY <1>2 DEF Environment, SendMessage, BackOff, WaitCanceled, TurnEnds, AbortAnswers, Disconnect,
                  Reopen, Deliver, ToolCalled, HandlerBegins, HandlerEnds, CallbackBegins,
                  CallbackFinishes, sending
    <3>3. ~Completed /\ ~ContextDone /\ ~StallDetected
      BY <1>2 DEF Completed, ContextDone, StallDetected, StartAbort, sending
    <3>4. ~AbortReturned /\ ~AbortTimedOut /\ ~BarrierTimedOut /\ ~ResumeCutShort /\ ~Closed
          /\ ~StopClient /\ ~ClientStopped /\ ~WindowExpires
      BY <1>2 DEF AbortReturned, AbortTimedOut, BarrierTimedOut, ResumeCutShort, Closed, StopClient,
                  ClientStopped, WindowExpires, Fail, sending
    <3> QED
      BY <1>2, <2>2, <3>1, <3>2, <3>3, <3>4 DEF Next, Watch
  <2>4. CASE BarrierPassed
    BY <2>4 DEF BarrierPassed, AttemptStopped, TypedToolsInactive, Quiet
  <2>5. CASE ResumeReturned
    BY <1>2, <2>5 DEF ResumeReturned, ResumeInv, SessionInv, QuietInv
  <2> QED
    BY <2>3, <2>4, <2>5
<1>3. SessionInv /\ ResumeInv /\ [Next]_vars =>
        [attempt' # attempt /\ prompts' = prompts =>
           /\ sender = Ended /\ callback = NoCallback /\ activeTools = {}
           /\ tracked => Running = {}]_vars
  BY <1>2 DEF Quiet
<1> QED
  BY <1>1, <1>3, ResumeInit, SessionInvariant, PTL DEF Spec, ContinuationStartsQuiet
================================================================================
