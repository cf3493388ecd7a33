----------------------------- MODULE ResearchTurns -----------------------------
(***************************************************************************)
(* Closed Research: the calls of its terminal tool, possibly several at    *)
(* once, with their quota (toolCallQuota and the typed-tool handler of     *)
(* internal/cli/runtime.go), and the turns of researchruntime.Runner that  *)
(* drain the TerminalRecorder and validate the artifacts.                  *)
(***************************************************************************)
EXTENDS ResearchTurnsState

vars == turnVars

Running == outcome = "running"

(* TerminalRecorder.Record and RecordError.                                *)
Record(response) ==
  /\ calls' = Append(calls, response)
  /\ UNCHANGED failed

RecordError ==
  /\ failed' = TRUE
  /\ UNCHANGED calls

Rollback == used' = IF used > 0 THEN used - 1 ELSE used

(* Bound: the calls recorded or in flight in one turn.                     *)
TurnHasRoom ==
  Len(calls) + Cardinality({c \in Call : call[c] # None}) < MaxRecorded

(* Arguments that do not decode or validate are rejected before any quota  *)
(* is taken, and recorded.                                                 *)
RejectArguments(c) ==
  /\ call[c] = None /\ TurnHasRoom
  /\ Record(Rejected)
  /\ UNCHANGED <<used, kept, call, fresh, missing>>

(* Mutant: the limit is not looked at.                                     *)
ReserveUnlimited(c) ==
  /\ call[c] = None /\ TurnHasRoom
  /\ used' = used + 1
  /\ call' = [call EXCEPT ![c] = [step |-> "running"]]
  /\ UNCHANGED <<kept, calls, failed, fresh, missing>>

(* The call reserves its place in the quota and the tool program starts.   *)
Reserve(c) ==
  /\ call[c] = None /\ TurnHasRoom
  /\ used < QuotaLimit
  /\ used' = used + 1
  /\ call' = [call EXCEPT ![c] = [step |-> "running"]]
  /\ UNCHANGED <<kept, calls, failed, fresh, missing>>

(* The program fails: the reservation is given back, nothing is recorded.  *)
ProgramFails(c) ==
  /\ call[c] = [step |-> "running"]
  /\ Rollback
  /\ call' = [call EXCEPT ![c] = None]
  /\ UNCHANGED <<kept, calls, failed, fresh, missing>>

(* Mutant: a rejected answer keeps its reservation.                        *)
SettleNothing(response) == UNCHANGED used

(* Only an accepted answer keeps the reservation.                          *)
Settle(response) == IF response.accepted THEN UNCHANGED used ELSE Rollback

(* The program answers.                                                    *)
ProgramAnswers(c, response) ==
  /\ call[c] = [step |-> "running"]
  /\ Settle(response)
  /\ kept' = IF response.accepted THEN kept + 1 ELSE kept
  /\ call' = [call EXCEPT ![c] = [step |-> "answered", response |-> response]]
  /\ UNCHANGED <<calls, failed, fresh, missing>>

(* The handler records the answer and returns ...                          *)
RecordAnswer(c) ==
  /\ call[c] # None /\ call[c].step = "answered"
  /\ Record(call[c].response)
  /\ fresh' = IF fresh = None /\ call[c].response.accepted THEN call[c].response.output
                                                           ELSE fresh
  /\ call' = [call EXCEPT ![c] = None]
  /\ UNCHANGED <<used, kept, missing>>

(* ... or a postcondition does not hold, and the call breaks the run.      *)
BreakPostcondition(c) ==
  /\ call[c] # None /\ call[c].step = "answered"
  /\ RecordError
  /\ call' = [call EXCEPT ![c] = None]
  /\ UNCHANGED <<used, kept, fresh, missing>>

(* ... or the handler fails before it records anything: the output does    *)
(* not decode, or the debug log cannot be written.  The quota is not given *)
(* back.                                                                   *)
LoseAnswer(c) ==
  /\ call[c] # None /\ call[c].step = "answered"
  /\ call' = [call EXCEPT ![c] = None]
  /\ UNCHANGED <<used, kept, calls, failed, fresh, missing>>

(* The session's writing tools put the artifacts in order, or spoil them.  *)
EditArtifacts ==
  /\ missing' = ~missing
  /\ UNCHANGED <<used, kept, call, calls, failed, fresh>>

ToolStep ==
  \/ EditArtifacts
  \/ hasTerminal /\ \E c \in Call :
       \/ RejectArguments(c) \/ Reserve(c) \/ ProgramFails(c)
       \/ \E v \in Value : ProgramAnswers(c, Accepted(v))
       \/ ProgramAnswers(c, Rejected)
       \/ RecordAnswer(c) \/ BreakPostcondition(c) \/ LoseAnswer(c)

--------------------------------------------------------------------------------
(* Runner.Run after each turn.                                             *)

FirstAccepted ==
  LET places == {i \in 1..Len(calls) : calls[i].accepted}
  IN  IF places = {} THEN 0 ELSE CHOOSE i \in places : \A j \in places : i <= j

(* Every rejection before the first accepted call costs an attempt.        *)
RejectedFirst == IF FirstAccepted = 0 THEN Len(calls) ELSE FirstAccepted - 1

Finish(how, value) ==
  outcome' = how /\ result' = value

(* Mutant: the attempts are not written back.                              *)
RetryForFree(spent) ==
  /\ outcome' = IF spent >= MaxProtocolAttempts THEN "protocol_exhausted" ELSE "running"
  /\ UNCHANGED <<attempts, result>>

(* The turn did not finish the run: one attempt more, unless rejected      *)
(* calls have been counted already, and then another turn or exhaustion.   *)
Retry(spent) ==
  /\ attempts' = spent
  /\ outcome' = IF spent >= MaxProtocolAttempts THEN "protocol_exhausted" ELSE "running"
  /\ UNCHANGED result

(* artifact.Registry finds every declared artifact in order.               *)
Satisfied == ~missing

(* Mutant: the recorder keeps what an earlier turn recorded.               *)
DrainError == failed' = FALSE /\ UNCHANGED calls

(* TerminalRecorder.drain: both lists are taken and emptied.               *)
Drain == calls' = <<>> /\ failed' = FALSE

(* A call may still be running: the typed tools are not among the handlers *)
(* a session waits for when it goes on in another one (Sessions.tla).      *)
EndTurn ==
  LET spent == attempts + RejectedFirst
  IN  /\ Drain
      /\ fresh' = None
      /\ UNCHANGED <<used, kept, call, missing>>
      /\ IF failed THEN Finish("terminal_error", None) /\ UNCHANGED attempts
         ELSE IF ~hasTerminal THEN
           IF ~Satisfied THEN Retry(spent + 1) ELSE Finish("complete", None) /\ UNCHANGED attempts
         ELSE IF FirstAccepted = 0 THEN Retry(IF calls = <<>> THEN spent + 1 ELSE spent)
         ELSE IF ~Satisfied THEN Retry(spent + 1)
         ELSE Finish("complete", calls[FirstAccepted].output) /\ attempts' = spent

SessionFails == Finish("session", None) /\ UNCHANGED <<toolVars, attempts>>

Init ==
  /\ hasTerminal \in BOOLEAN
  /\ used = 0 /\ kept = 0
  /\ call = [c \in Call |-> None]
  /\ calls = <<>> /\ failed = FALSE /\ fresh = None
  /\ attempts = 0 /\ missing = TRUE
  /\ result = None
  /\ outcome = "running"

Next ==
  \/ Running /\ ToolStep /\ UNCHANGED <<hasTerminal, runVars>>
  \/ Running /\ EndTurn /\ UNCHANGED hasTerminal
  \/ Running /\ SessionFails /\ UNCHANGED hasTerminal
  \/ ~Running /\ UNCHANGED vars

Spec == Init /\ [][Next]_vars

AllReturned == \A c \in Call : call[c] = None

(* Handlers that have started return, the model does not overlap calls for *)
(* ever, and a turn whose calls have all returned ends.                    *)
CallReturns(c) ==
  /\ Running /\ UNCHANGED <<hasTerminal, runVars>>
  /\ \/ ProgramFails(c) \/ RecordAnswer(c) \/ BreakPostcondition(c) \/ LoseAnswer(c)
     \/ ProgramAnswers(c, Rejected)

FairSpec ==
  /\ Spec
  /\ \A c \in Call : WF_vars(CallReturns(c))
  /\ SF_vars(Running /\ AllReturned /\ EndTurn /\ UNCHANGED hasTerminal)
  /\ []<>(AllReturned \/ ~Running)

--------------------------------------------------------------------------------
(* The values the quota, the recorder and the run range over.              *)
TypeOK ==
  /\ hasTerminal \in BOOLEAN
  /\ used \in 0..QuotaLimit /\ kept \in Nat
  /\ call \in [Call -> CallSteps \cup {None}]
  /\ calls \in Seq(Responses)
  /\ failed \in BOOLEAN /\ missing \in BOOLEAN
  /\ fresh \in Value \cup {None}
  /\ attempts \in Nat
  /\ result \in Value \cup {None}
  /\ outcome \in {"running", "complete", "protocol_exhausted", "terminal_error", "session"}

(* The run ends.                                                           *)
Termination == <>~Running
================================================================================
