------------------------------ MODULE TurnsProofs ------------------------------
(***************************************************************************)
(* The two kinds of turns that end a block: closed Research, for any       *)
(* number of terminal calls in flight and any quota, and Final QC, for any *)
(* limits and any number of issues.                                        *)
(***************************************************************************)
EXTENDS ResearchTurns, FinalQCState, FiniteSetTheorems, WellFoundedInduction, TLAPS

(* A nonempty set of places has a first one.                               *)
LEMMA FirstPlace ==
  ASSUME NEW places \in SUBSET Nat, places # {}
  PROVE  \E i \in places : \A j \in places : i <= j
<1>1. PICK i \in places : \A j \in places : <<j, i>> \notin OpToRel(<, Nat)
  BY NatLessThanWellFounded, WFMin
<1>2. ASSUME NEW j \in places PROVE i <= j
  <2>1. <<j, i>> \notin {p \in Nat \X Nat : p[1] < p[2]}
    BY <1>1 DEF OpToRel
  <2>2. ~(j < i)
    BY <2>1
  <2>3. QED
    BY <2>2
<1>3. QED
  BY <1>2

(* The terminal programs that are running.                                 *)
Programs == {c \in Call : call[c] # None /\ call[c].step = "running"}

IInv == TypeOK /\ QuotaCountsAccepted

LEMMA InitIInv == Init => IInv
<1> SUFFICES ASSUME Init PROVE IInv
  OBVIOUS
<1>1. used \in 0..QuotaLimit /\ kept \in Nat /\ attempts \in Nat
  BY ResearchAssumption DEF Init
<1>2. hasTerminal \in BOOLEAN /\ failed \in BOOLEAN /\ missing \in BOOLEAN
  BY DEF Init
<1>3. call \in [Call -> CallSteps \cup {None}] /\ calls \in Seq(Responses)
  BY DEF Init
<1>4. QuotaCountsAccepted
  <2>1. Programs = {}
    BY DEF Init, Programs
  <2>2. used = 0 /\ kept = 0
    BY DEF Init
  <2>3. QED
    BY <2>1, <2>2, FS_EmptySet DEF Programs, QuotaCountsAccepted
<1>5. QED
  BY <1>1, <1>2, <1>3, <1>4 DEF Init, IInv, TypeOK

(* What one call does to the number of programs running.                   *)
LEMMA ProgramCount ==
  ASSUME TypeOK, NEW c \in Call, NEW next \in CallSteps \cup {None},
         call' = [call EXCEPT ![c] = next]
  PROVE  /\ call' \in [Call -> CallSteps \cup {None}]
         /\ Cardinality(Programs) \in Nat
         /\ c \in Programs => Cardinality(Programs) > 0
         /\ LET runs == next # None /\ next.step = "running"
            IN  Cardinality(Programs') =
                  IF (c \in Programs) <=> runs THEN Cardinality(Programs)
                  ELSE IF runs THEN Cardinality(Programs) + 1
                  ELSE Cardinality(Programs) - 1
<1> DEFINE runs == next # None /\ next.step = "running"
<1>1. call' \in [Call -> CallSteps \cup {None}]
  BY DEF TypeOK
<1>2. IsFiniteSet(Programs) /\ Cardinality(Programs) \in Nat
  BY ResearchAssumption, FS_Subset, FS_CardinalityType DEF Programs
<1>3. c \in Programs => Cardinality(Programs) > 0
  BY <1>2, FS_EmptySet
<1>4. Programs' = IF runs THEN Programs \cup {c} ELSE Programs \ {c}
  BY DEF Programs, TypeOK
<1>5. CASE (c \in Programs) <=> runs
  <2>1. Programs' = Programs
    BY <1>4, <1>5
  <2>2. QED
    BY <1>1, <1>2, <1>3, <1>5, <2>1
<1>6. CASE runs /\ c \notin Programs
  <2>1. Cardinality(Programs \cup {c}) = Cardinality(Programs) + 1
    BY <1>2, <1>6, FS_AddElement
  <2>2. QED
    BY <1>1, <1>2, <1>3, <1>4, <1>6, <2>1
<1>7. CASE ~runs /\ c \in Programs
  <2>1. Cardinality(Programs \ {c}) = Cardinality(Programs) - 1
    BY <1>2, <1>7, FS_RemoveElement
  <2>2. QED
    BY <1>1, <1>2, <1>3, <1>4, <1>7, <2>1
<1>8. QED
  BY <1>5, <1>6, <1>7

(* Each kind of step of a call, with what it leaves alone elsewhere.       *)
Elsewhere == UNCHANGED <<hasTerminal, runVars>>

LEMMA ReserveKeeps ==
  ASSUME IInv, Elsewhere, NEW c \in Call, Reserve(c) PROVE IInv'
<1> DEFINE next == [step |-> "running"]
<1>1. next \in CallSteps /\ next # None /\ next.step = "running"
  BY ResearchAssumption DEF CallSteps
<1>2. call' = [call EXCEPT ![c] = next] /\ c \notin Programs
  BY DEF Reserve, Programs
<1> HIDE DEF next
<1>3. /\ call' \in [Call -> CallSteps \cup {None}]
      /\ Cardinality(Programs) \in Nat
      /\ Cardinality(Programs') = Cardinality(Programs) + 1
  BY <1>1, <1>2, ProgramCount DEF IInv
<1>4. used' = used + 1 /\ used' \in 0..QuotaLimit /\ kept' = kept
  BY ResearchAssumption DEF Reserve, IInv, TypeOK
<1>5. QuotaCountsAccepted'
  BY <1>3, <1>4 DEF IInv, TypeOK, QuotaCountsAccepted, Programs
<1>6. TypeOK'
  BY <1>3, <1>4 DEF Reserve, Elsewhere, runVars, IInv, TypeOK
<1>7. QED
  BY <1>5, <1>6 DEF IInv

(* A program ends, with an answer or without.                              *)
LEMMA ProgramEnds ==
  ASSUME IInv, Elsewhere, NEW c \in Call, call[c] = [step |-> "running"],
         NEW next \in CallSteps \cup {None}, next # None => next.step = "answered",
         call' = [call EXCEPT ![c] = next],
         NEW accepted \in BOOLEAN,
         used' = IF accepted THEN used ELSE IF used > 0 THEN used - 1 ELSE used,
         kept' = IF accepted THEN kept + 1 ELSE kept,
         UNCHANGED <<calls, failed, fresh, missing>>
  PROVE  IInv'
<1>1. c \in Programs
  BY ResearchAssumption DEF Programs, CallSteps
<1>2. /\ call' \in [Call -> CallSteps \cup {None}]
      /\ Cardinality(Programs) \in Nat
      /\ Cardinality(Programs) > 0
      /\ Cardinality(Programs') = Cardinality(Programs) - 1
  BY <1>1, ProgramCount DEF IInv
<1>3. used = kept + Cardinality(Programs) /\ kept \in Nat /\ used \in 0..QuotaLimit
  BY DEF IInv, TypeOK, QuotaCountsAccepted, Programs
<1>4. used' = kept' + Cardinality(Programs') /\ kept' \in Nat /\ used' \in 0..QuotaLimit
  <2>1. CASE accepted
    BY <1>2, <1>3, <2>1
  <2>2. CASE ~accepted
    BY <1>2, <1>3, <2>2, ResearchAssumption
  <2>3. QED
    BY <2>1, <2>2
<1>5. QED
  BY <1>2, <1>4 DEF Elsewhere, runVars, IInv, TypeOK, QuotaCountsAccepted, Programs

(* A call returns: its outcome is recorded, breaks the run, or is lost.    *)
LEMMA ReturnKeeps ==
  ASSUME IInv, Elsewhere, NEW c \in Call, call[c] # None, call[c].step = "answered",
         call' = [call EXCEPT ![c] = None],
         calls' \in Seq(Responses), failed' \in BOOLEAN, fresh' \in Value \cup {None},
         UNCHANGED <<used, kept, missing>>
  PROVE  IInv'
<1>1. /\ call' \in [Call -> CallSteps \cup {None}]
      /\ Cardinality(Programs') = Cardinality(Programs)
  BY ProgramCount DEF IInv, Programs
<1>2. QED
  BY <1>1 DEF Elsewhere, runVars, IInv, TypeOK, QuotaCountsAccepted, Programs

LEMMA ToolStepKeeps ==
  ASSUME IInv, ToolStep, Elsewhere PROVE IInv'
<1>1. CASE EditArtifacts
  BY <1>1 DEF EditArtifacts, Elsewhere, runVars, IInv, TypeOK, QuotaCountsAccepted
<1>2. ASSUME NEW c \in Call, RejectArguments(c) PROVE IInv'
  <2>1. calls' \in Seq(Responses)
    BY <1>2 DEF RejectArguments, Record, Responses, IInv, TypeOK
  <2>2. QED
    BY <1>2, <2>1 DEF RejectArguments, Record, Elsewhere, runVars, IInv, TypeOK,
                      QuotaCountsAccepted
<1>3. ASSUME NEW c \in Call, ProgramFails(c) PROVE IInv'
  BY <1>3, ProgramEnds DEF ProgramFails, Rollback
<1>4. ASSUME NEW c \in Call, NEW response \in Responses, ProgramAnswers(c, response)
      PROVE  IInv'
  <2> DEFINE next == [step |-> "answered", response |-> response]
  <2>1. next \in CallSteps /\ next.step = "answered"
    BY DEF CallSteps
  <2>2. call' = [call EXCEPT ![c] = next] /\ call[c] = [step |-> "running"]
    BY <1>4 DEF ProgramAnswers
  <2>3. response.accepted = TRUE \/ response.accepted = FALSE
    <3>1. CASE response = Rejected
      BY <3>1 DEF Rejected
    <3>2. CASE \E v \in Value : response = Accepted(v)
      BY <3>2 DEF Accepted
    <3>3. QED
      BY <3>1, <3>2 DEF Responses
  <2> HIDE DEF next
  <2>4. QED
    BY <1>4, <2>1, <2>2, <2>3, ProgramEnds DEF ProgramAnswers, Settle, Rollback
<1>5. ASSUME NEW c \in Call, RecordAnswer(c) PROVE IInv'
  <2>1. call[c] # None /\ call[c].step = "answered" /\ call' = [call EXCEPT ![c] = None]
    BY <1>5 DEF RecordAnswer
  <2>2. call[c].response \in Responses
    BY <2>1 DEF IInv, TypeOK, CallSteps
  <2>3. calls' \in Seq(Responses) /\ failed' = failed
    BY <1>5, <2>2 DEF RecordAnswer, Record, IInv, TypeOK
  <2>4. failed' \in BOOLEAN /\ fresh' \in Value \cup {None}
    <3>1. call[c].response.output \in Value \cup {None}
      BY <2>2 DEF Responses, Accepted, Rejected
    <3>2. QED
      BY <1>5, <2>3, <3>1 DEF RecordAnswer, IInv, TypeOK
  <2>5. QED
    BY <1>5, <2>1, <2>3, <2>4, ReturnKeeps DEF RecordAnswer
<1>6. ASSUME NEW c \in Call, BreakPostcondition(c) \/ LoseAnswer(c) PROVE IInv'
  <2>1. /\ failed' \in BOOLEAN /\ calls' \in Seq(Responses)
        /\ fresh' \in Value \cup {None}
    BY <1>6 DEF BreakPostcondition, LoseAnswer, RecordError, IInv, TypeOK
  <2>2. call[c] # None /\ call[c].step = "answered" /\ call' = [call EXCEPT ![c] = None]
    BY <1>6 DEF BreakPostcondition, LoseAnswer
  <2>3. QED
    BY <1>6, <2>1, <2>2, ReturnKeeps DEF BreakPostcondition, LoseAnswer
<1>7. QED
  BY <1>1, <1>2, <1>3, <1>4, <1>5, <1>6, ReserveKeeps DEF ToolStep, Responses

(* The first accepted call of a turn, when there is one.                   *)
LEMMA FirstAcceptedIsAccepted ==
  ASSUME TypeOK
  PROVE  /\ FirstAccepted \in 0..Len(calls)
         /\ FirstAccepted # 0 =>
              /\ calls[FirstAccepted].accepted
              /\ \A j \in 1..Len(calls) : calls[j].accepted => FirstAccepted <= j
<1> DEFINE places == {i \in 1..Len(calls) : calls[i].accepted}
           first  == CHOOSE i \in places : \A j \in places : i <= j
<1>1. Len(calls) \in Nat
  BY DEF TypeOK
<1>2. CASE places = {}
  <2>1. FirstAccepted = 0
    BY <1>2 DEF FirstAccepted
  <2>2. QED
    BY <1>1, <2>1
<1>3. CASE places # {}
  <2>1. places \in SUBSET Nat
    BY <1>1
  <2>2. FirstAccepted = first
    BY <1>3 DEF FirstAccepted
  <2> HIDE DEF places
  <2>3. \E i \in places : \A j \in places : i <= j
    BY <1>3, <2>1, FirstPlace
  <2>4. first \in places /\ \A j \in places : first <= j
    BY <2>3
  <2>5. QED
    BY <1>1, <2>2, <2>4 DEF places
<1>4. QED
  BY <1>2, <1>3

LEMMA EndTurnKeeps ==
  ASSUME IInv, Running, EndTurn, UNCHANGED hasTerminal PROVE IInv'
<1>1. /\ UNCHANGED <<used, kept, call, missing>>
      /\ calls' = <<>> /\ failed' = FALSE /\ fresh' = None
  BY DEF EndTurn, Drain
<1>2. RejectedFirst \in Nat
  BY FirstAcceptedIsAccepted DEF RejectedFirst, IInv, TypeOK
<1>3. attempts' \in Nat
  BY <1>2 DEF EndTurn, Retry, Finish, IInv, TypeOK
<1>4. result' \in Value \cup {None}
  <2>1. CASE UNCHANGED result \/ result' = None
    BY <2>1 DEF IInv, TypeOK
  <2>2. CASE FirstAccepted # 0 /\ result' = calls[FirstAccepted].output
    <3>1. FirstAccepted \in 1..Len(calls)
      BY <2>2, FirstAcceptedIsAccepted DEF IInv, TypeOK
    <3>2. PICK response \in Responses : response = calls[FirstAccepted]
      BY <3>1 DEF IInv, TypeOK
    <3>3. response.output \in Value \cup {None}
      BY DEF Responses, Accepted, Rejected
    <3>4. QED
      BY <2>2, <3>2, <3>3
  <2>3. QED
    BY <2>1, <2>2 DEF EndTurn, Retry, Finish
<1>5. outcome' \in {"running", "complete", "protocol_exhausted", "terminal_error", "session"}
  BY DEF EndTurn, Retry, Finish
<1>6. calls' \in Seq(Responses)
  BY <1>1
<1>7. failed' \in BOOLEAN
  BY <1>1
<1>8. QED
  BY <1>1, <1>3, <1>4, <1>5, <1>6, <1>7 DEF IInv, TypeOK, QuotaCountsAccepted

LEMMA NextIInv == IInv /\ [Next]_vars => IInv'
<1> SUFFICES ASSUME IInv, [Next]_vars PROVE IInv'
  OBVIOUS
<1>1. CASE Running /\ ToolStep /\ UNCHANGED <<hasTerminal, runVars>>
  BY <1>1, ToolStepKeeps DEF Elsewhere
<1>2. CASE Running /\ EndTurn /\ UNCHANGED hasTerminal
  BY <1>2, EndTurnKeeps
<1>3. CASE Running /\ SessionFails /\ UNCHANGED hasTerminal
  BY <1>3 DEF SessionFails, Finish, toolVars, IInv, TypeOK, QuotaCountsAccepted
<1>4. CASE UNCHANGED vars
  BY <1>4 DEF vars, turnVars, toolVars, runVars, IInv, TypeOK, QuotaCountsAccepted
<1>5. QED
  BY <1>1, <1>2, <1>3, <1>4 DEF Next

LEMMA AlwaysIInv == Spec => []IInv
BY InitIInv, NextIInv, PTL DEF Spec

(* The history of this turn is what firstAccepted finds on the record: the *)
(* first accepted call, and none while there is none.  It holds only       *)
(* because the record and the history are emptied by the same turns.       *)
FreshIsFirst ==
  IF fresh = None THEN \A i \in 1..Len(calls) : ~calls[i].accepted
  ELSE \E i \in 1..Len(calls) :
         calls[i] = Accepted(fresh) /\ \A j \in 1..(i - 1) : ~calls[j].accepted

(* One more outcome on the record.                                         *)
LEMMA RecordKeepsFresh ==
  ASSUME IInv, FreshIsFirst, NEW response \in Responses, Record(response),
         fresh' = IF fresh = None /\ response.accepted THEN response.output ELSE fresh
  PROVE  FreshIsFirst'
<1>1. /\ Len(calls) \in Nat
      /\ Len(calls') = Len(calls) + 1
      /\ \A i \in 1..Len(calls) : calls'[i] = calls[i]
      /\ calls'[Len(calls) + 1] = response
  BY DEF Record, IInv, TypeOK
<1>2. response = Rejected \/ \E v \in Value : response = Accepted(v)
  BY DEF Responses
<1>3. CASE fresh # None
  <2>1. PICK i \in 1..Len(calls) :
          calls[i] = Accepted(fresh) /\ \A j \in 1..(i - 1) : ~calls[j].accepted
    BY <1>3 DEF FreshIsFirst
  <2>2. i \in 1..Len(calls') /\ calls'[i] = Accepted(fresh)
    BY <1>1, <2>1
  <2>3. \A j \in 1..(i - 1) : ~calls'[j].accepted
    BY <1>1, <2>1
  <2>4. fresh' = fresh
    BY <1>3
  <2>5. QED
    BY <1>3, <2>2, <2>3, <2>4 DEF FreshIsFirst, Accepted
<1>4. CASE fresh = None /\ response = Rejected
  <2>1. \A i \in 1..Len(calls) : ~calls[i].accepted
    BY <1>4 DEF FreshIsFirst
  <2>2. ~response.accepted
    BY <1>4 DEF Rejected
  <2>3. \A i \in 1..Len(calls') : ~calls'[i].accepted
    BY <1>1, <2>1, <2>2
  <2>4. fresh' = None
    BY <1>4, <2>2
  <2>5. QED
    BY <2>3, <2>4 DEF FreshIsFirst
<1>5. ASSUME fresh = None, NEW v \in Value, response = Accepted(v) PROVE FreshIsFirst'
  <2>1. \A i \in 1..Len(calls) : ~calls[i].accepted
    BY <1>5 DEF FreshIsFirst
  <2>2. response.accepted /\ response.output = v
    BY <1>5 DEF Accepted
  <2>3. fresh' = v /\ fresh' # None
    BY <1>5, <2>2, ResearchAssumption
  <2> DEFINE last == Len(calls) + 1
  <2>4. last \in 1..Len(calls') /\ calls'[last] = Accepted(v)
    BY <1>1, <1>5
  <2>5. \A j \in 1..(last - 1) : ~calls'[j].accepted
    BY <1>1, <2>1
  <2>6. QED
    BY <2>3, <2>4, <2>5 DEF FreshIsFirst, Accepted
<1>6. QED
  BY <1>2, <1>3, <1>4, <1>5

LEMMA NextFresh == IInv /\ FreshIsFirst /\ [Next]_vars => FreshIsFirst'
<1> SUFFICES ASSUME IInv, FreshIsFirst, [Next]_vars PROVE FreshIsFirst'
  OBVIOUS
<1>1. CASE UNCHANGED <<calls, fresh>>
  BY <1>1 DEF FreshIsFirst
<1>2. ASSUME NEW c \in Call, RejectArguments(c) PROVE FreshIsFirst'
  <2>1. Rejected \in Responses /\ ~Rejected.accepted
    BY DEF Responses, Rejected
  <2>2. Record(Rejected) /\ UNCHANGED fresh
    BY <1>2 DEF RejectArguments
  <2>3. QED
    BY <2>1, <2>2, RecordKeepsFresh
<1>3. ASSUME NEW c \in Call, RecordAnswer(c) PROVE FreshIsFirst'
  <2>1. call[c].response \in Responses
    BY <1>3 DEF RecordAnswer, IInv, TypeOK, CallSteps
  <2>2. QED
    BY <1>3, <2>1, RecordKeepsFresh DEF RecordAnswer
<1>4. CASE EndTurn
  BY <1>4 DEF EndTurn, Drain, FreshIsFirst
<1>5. CASE \/ EditArtifacts \/ SessionFails \/ UNCHANGED vars
           \/ \E c \in Call : \/ Reserve(c) \/ ProgramFails(c)
                             \/ BreakPostcondition(c) \/ LoseAnswer(c)
                             \/ \E response \in Responses : ProgramAnswers(c, response)
  BY <1>1, <1>5 DEF EditArtifacts, SessionFails, Reserve, ProgramFails, BreakPostcondition,
                    RecordError, LoseAnswer, ProgramAnswers, vars, turnVars, toolVars
<1>6. QED
  BY <1>2, <1>3, <1>4, <1>5 DEF Next, ToolStep, Responses

LEMMA AlwaysFresh == Spec => [](IInv /\ FreshIsFirst)
<1>1. Init => FreshIsFirst
  BY DEF Init, FreshIsFirst
<1>2. QED
  BY <1>1, InitIInv, NextIInv, NextFresh, PTL DEF Spec

--------------------------------------------------------------------------------
(* The run keeps its types; in particular the reservations never exceed    *)
(* the quota, whatever calls overlap.                                      *)
THEOREM ResearchTypeCorrect == Spec => []TypeOK
BY AlwaysIInv, PTL DEF IInv

(* The quota is exactly the accepted answers and the programs running.     *)
THEOREM QuotaIsExact == Spec => []QuotaCountsAccepted
BY AlwaysIInv, PTL DEF IInv

(* A run that completes with a terminal tool returns the first output the  *)
(* host has put on record since the last prompt, for any quota and any     *)
(* number of calls that overlap, within a turn or across its end.          *)
THEOREM CompletionIsConfirmed == Spec => CompletionIsOfThisTurn
<1>1. IInv /\ FreshIsFirst /\ [Next]_vars => [CompletesOfThisTurn]_turnVars
  <2> SUFFICES ASSUME IInv, FreshIsFirst, Next, outcome' = "complete", Running, hasTerminal
               PROVE  fresh # None /\ result' = fresh
    BY DEF CompletesOfThisTurn, Running, vars
  <2>1. EndTurn
    BY DEF Next, Running, SessionFails, Finish, runVars
  <2>2. FirstAccepted # 0 /\ result' = calls[FirstAccepted].output
    BY <2>1 DEF EndTurn, Finish, Retry
  <2>3. /\ FirstAccepted \in 1..Len(calls) /\ calls[FirstAccepted].accepted
        /\ \A j \in 1..Len(calls) : calls[j].accepted => FirstAccepted <= j
    BY <2>2, FirstAcceptedIsAccepted DEF IInv
  <2>4. fresh # None
    BY <2>3 DEF FreshIsFirst
  <2>5. PICK i \in 1..Len(calls) :
          calls[i] = Accepted(fresh) /\ \A j \in 1..(i - 1) : ~calls[j].accepted
    BY <2>4 DEF FreshIsFirst
  <2>6. calls[i].accepted /\ calls[i].output = fresh
    BY <2>5 DEF Accepted
  <2>7. FirstAccepted = i
    BY <2>3, <2>5, <2>6
  <2>8. QED
    BY <2>2, <2>4, <2>6, <2>7
<1>2. QED
  BY <1>1, AlwaysFresh, PTL DEF Spec, CompletionIsOfThisTurn

--------------------------------------------------------------------------------
(* Final QC.  The safety properties are inductive with the types; what     *)
(* they need is that an active issue never has an ID beyond the last one   *)
(* given out, so that a new ID is always beyond every ID a completion has  *)
(* cleared.                                                                *)
Review == INSTANCE FinalQC

(* A review that goes on has an attempt left.                              *)
AttemptsLeft == Review!Reviewing => reviewAttempts < MaxProtocolAttempts

(* The completion the next drain finds is the first one accepted.          *)
DrainFindsCompletion == Review!Reviewing => (confirmed <=> completionPending)

ReviewInv ==
  /\ Review!TypeOK
  /\ AttemptsLeft
  /\ DrainFindsCompletion
  /\ Review!PassLeavesOnlyLateIssues
  /\ VerdictFollowsCompletions

LEMMA InitReviewInv == Review!Init => ReviewInv
<1> SUFFICES ASSUME Review!Init PROVE ReviewInv
  OBVIOUS
<1>1. reviewAttempts \in 0..MaxProtocolAttempts /\ AttemptsLeft
  BY FinalQCAssumption DEF Review!Init, AttemptsLeft
<1>2. Review!TypeOK
  <2>1. finalIssues \subseteq 1..nextFinalIssueID /\ nextFinalIssueID \in Nat
    BY DEF Review!Init
  <2>2. clearedID \in 0..nextFinalIssueID
    BY DEF Review!Init
  <2>3. completionPending \in BOOLEAN /\ confirmed \in BOOLEAN
    BY DEF Review!Init
  <2>4. QED
    BY <1>1, <2>1, <2>2, <2>3 DEF Review!Init, Review!TypeOK
<1>3. QED
  BY <1>1, <1>2 DEF Review!Init, ReviewInv, Review!PassLeavesOnlyLateIssues,
                    DrainFindsCompletion, VerdictFollowsCompletions

(* New issues are numbered beyond everything cleared so far.               *)
LEMMA OpenKeeps ==
  ASSUME ReviewInv, NEW count \in 1..2, Review!OpenFinalIssues(count),
         UNCHANGED <<reviewAttempts, reviewOutcome>>
  PROVE  ReviewInv'
<1>1. \A id \in finalIssues' \ finalIssues : id > nextFinalIssueID
  BY DEF Review!OpenFinalIssues, Review!historyVars, ReviewInv, Review!TypeOK
<1>2. Review!TypeOK'
  BY DEF Review!OpenFinalIssues, Review!historyVars, ReviewInv, Review!TypeOK
<1>3. Review!PassLeavesOnlyLateIssues'
  <2>1. ASSUME completionPending \/ reviewOutcome = "pass", NEW id \in finalIssues'
        PROVE  id > clearedID
    BY <1>1, <1>2, <2>1 DEF Review!OpenFinalIssues, Review!historyVars, ReviewInv, Review!TypeOK,
                            Review!PassLeavesOnlyLateIssues
  <2>2. QED
    BY <2>1 DEF Review!OpenFinalIssues, Review!historyVars, Review!PassLeavesOnlyLateIssues
<1>4. AttemptsLeft' /\ DrainFindsCompletion' /\ VerdictFollowsCompletions'
  BY DEF ReviewInv, AttemptsLeft, Review!Reviewing, Review!OpenFinalIssues,
         Review!historyVars, DrainFindsCompletion, VerdictFollowsCompletions
<1>5. QED
  BY <1>2, <1>3, <1>4 DEF ReviewInv

(* A completion clears what is there; the others only remove issues.       *)
LEMMA CompletionKeeps ==
  ASSUME ReviewInv, Review!Reviewing, Review!RecordFinalCompletion,
         UNCHANGED <<reviewAttempts, reviewOutcome>>
  PROVE  ReviewInv'
<1>1. completionPending' \in BOOLEAN /\ confirmed' \in BOOLEAN
  BY DEF Review!RecordFinalCompletion, ReviewInv, Review!TypeOK
<1>2. Review!TypeOK'
  BY <1>1 DEF Review!RecordFinalCompletion, ReviewInv, Review!TypeOK
<1>3. Review!PassLeavesOnlyLateIssues'
  <2>1. CASE Review!Resolved
    BY <2>1 DEF Review!RecordFinalCompletion, Review!Resolved, Review!PassLeavesOnlyLateIssues
  <2>2. CASE ~Review!Resolved
    BY <2>2 DEF Review!RecordFinalCompletion, ReviewInv, Review!PassLeavesOnlyLateIssues
  <2>3. QED
    BY <2>1, <2>2
<1>4. AttemptsLeft'
  BY DEF ReviewInv, AttemptsLeft, Review!Reviewing
<1>5. DrainFindsCompletion' /\ VerdictFollowsCompletions'
  BY DEF Review!RecordFinalCompletion, ReviewInv, Review!Reviewing, DrainFindsCompletion,
         VerdictFollowsCompletions
<1>6. QED
  BY <1>2, <1>3, <1>4, <1>5 DEF ReviewInv

LEMMA EndReviewTurnKeeps ==
  ASSUME ReviewInv, Review!Reviewing, Review!EndTurn PROVE ReviewInv'
<1>1. reviewAttempts' \in 0..MaxProtocolAttempts /\ AttemptsLeft'
  <2>1. reviewAttempts \in Nat /\ reviewAttempts < MaxProtocolAttempts
    BY DEF ReviewInv, Review!TypeOK, AttemptsLeft
  <2>2. CASE UNCHANGED reviewAttempts /\ ~Review!Reviewing'
    BY <2>1, <2>2 DEF AttemptsLeft, ReviewInv, Review!TypeOK
  <2>3. CASE Review!SpendAttempt /\ reviewOutcome' = IF reviewAttempts' >= MaxProtocolAttempts
                                        THEN "protocol_exhausted" ELSE "reviewing"
    BY <2>1, <2>3, FinalQCAssumption DEF Review!SpendAttempt, AttemptsLeft, Review!Reviewing
  <2>4. QED
    BY <2>2, <2>3 DEF Review!EndTurn, Review!Reviewing
<1>2. Review!TypeOK' /\ Review!PassLeavesOnlyLateIssues'
  BY <1>1 DEF Review!EndTurn, Review!Completed, Review!historyVars, ReviewInv, Review!TypeOK,
              Review!PassLeavesOnlyLateIssues
<1>3. DrainFindsCompletion' /\ VerdictFollowsCompletions'
  <2>1. UNCHANGED confirmed /\ completionPending' = FALSE
    BY DEF Review!EndTurn, Review!historyVars
  <2>2. CASE completionPending
    BY <2>1, <2>2 DEF Review!EndTurn, Review!Completed, Review!Reviewing, ReviewInv,
                      DrainFindsCompletion, VerdictFollowsCompletions
  <2>3. CASE ~completionPending
    BY <2>1, <2>3 DEF Review!EndTurn, Review!Completed, Review!Reviewing, ReviewInv,
                      DrainFindsCompletion, VerdictFollowsCompletions
  <2>4. QED
    BY <2>2, <2>3
<1>4. QED
  BY <1>1, <1>2, <1>3 DEF ReviewInv

LEMMA NextReviewInv == ReviewInv /\ [Review!Next]_(Review!vars) => ReviewInv'
<1> SUFFICES ASSUME ReviewInv, [Review!Next]_(Review!vars) PROVE ReviewInv'
  OBVIOUS
<1>1. ASSUME Review!Reviewing, NEW count \in 1..2, Review!OpenFinalIssues(count),
             UNCHANGED <<reviewAttempts, reviewOutcome>>
      PROVE  ReviewInv'
  BY <1>1, OpenKeeps
<1>2. ASSUME Review!Reviewing, NEW ids \in SUBSET finalIssues, Review!ResolveFinalIssues(ids),
             UNCHANGED <<reviewAttempts, reviewOutcome>>
      PROVE  ReviewInv'
  BY <1>2 DEF Review!ResolveFinalIssues, Review!historyVars, ReviewInv, Review!TypeOK,
              AttemptsLeft, Review!Reviewing, Review!PassLeavesOnlyLateIssues,
              DrainFindsCompletion, VerdictFollowsCompletions
<1>3. CASE Review!Reviewing /\ Review!RecordFinalCompletion
            /\ UNCHANGED <<reviewAttempts, reviewOutcome>>
  BY <1>3, CompletionKeeps
<1>4. CASE Review!Reviewing /\ Review!EndTurn
  BY <1>4, EndReviewTurnKeeps
<1>5. CASE Review!Reviewing /\ Review!SessionFails
  BY <1>5 DEF Review!SessionFails, Review!recorderVars, Review!historyVars,
              Review!Reviewing, ReviewInv, Review!TypeOK, AttemptsLeft,
              Review!PassLeavesOnlyLateIssues, DrainFindsCompletion, VerdictFollowsCompletions
<1>6. CASE UNCHANGED Review!vars
  BY <1>6 DEF Review!vars, Review!reviewVars, Review!recorderVars, Review!historyVars,
              ReviewInv, Review!TypeOK, AttemptsLeft, Review!Reviewing,
              Review!PassLeavesOnlyLateIssues, DrainFindsCompletion, VerdictFollowsCompletions
<1>7. QED
  BY <1>1, <1>2, <1>3, <1>4, <1>5, <1>6 DEF Review!Next, Review!ToolCall

LEMMA AlwaysReviewInv == Review!Spec => []ReviewInv
BY InitReviewInv, NextReviewInv, PTL DEF Review!Spec

(* The recorder and the review keep their types.                           *)
THEOREM FinalQCTypeCorrect == Review!Spec => []Review!TypeOK
BY AlwaysReviewInv, PTL DEF ReviewInv

(* An accepted completion, and the pass it becomes, leave no issue behind  *)
(* that was open when the completion was accepted.                         *)
THEOREM PassAlwaysClears == Review!Spec => []PassLeavesOnlyLateIssues
<1>1. ReviewInv => PassLeavesOnlyLateIssues
  BY DEF ReviewInv, Review!PassLeavesOnlyLateIssues, PassLeavesOnlyLateIssues
<1>2. QED
  BY <1>1, AlwaysReviewInv, PTL

(* The host never gives an ID out twice.                                   *)
THEOREM IDsStayStable == Review!Spec => Review!IssueIDsAreStable
<1>1. ReviewInv /\ [Review!Next]_(Review!vars) =>
        [\A id \in finalIssues' \ finalIssues : id > nextFinalIssueID]_(Review!vars)
  <2> SUFFICES ASSUME ReviewInv, Review!Next
               PROVE  \A id \in finalIssues' \ finalIssues : id > nextFinalIssueID
    OBVIOUS
  <2>1. ASSUME NEW count \in 1..2, Review!OpenFinalIssues(count)
        PROVE  \A id \in finalIssues' \ finalIssues : id > nextFinalIssueID
    BY <2>1 DEF Review!OpenFinalIssues, ReviewInv, Review!TypeOK
  <2>2. CASE \A count \in 1..2 : ~Review!OpenFinalIssues(count)
    BY <2>2 DEF Review!Next, Review!ToolCall, Review!ResolveFinalIssues,
                Review!RecordFinalCompletion, Review!EndTurn,
                Review!SessionFails, Review!vars, Review!reviewVars, Review!recorderVars
  <2>3. QED
    BY <2>1, <2>2
<1>2. QED
  BY <1>1, AlwaysReviewInv, PTL DEF Review!Spec, Review!IssueIDsAreStable

(* No limit discards an accepted completion, and no candidate passes       *)
(* without one, whatever the limits and however the calls of a turn come.  *)
THEOREM VerdictFollows == Review!Spec => []VerdictFollowsCompletions
BY AlwaysReviewInv, PTL DEF ReviewInv
================================================================================
