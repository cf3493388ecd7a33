---------------------------- MODULE CollectionRounds ----------------------------
(***************************************************************************)
(* The Collection and Collection-QC rounds of one research block: the      *)
(* concurrent tool calls of the Collection session (internal/collection    *)
(* tools.go and the wrappers of internal/cli/runtime_workflow_tools.go),   *)
(* the turns collection.Runner and collectionqc.Runner wait for, and the   *)
(* coordinator's hand-off between them.                                    *)
(*                                                                         *)
(* A tool call takes one step per lock it acquires: a lease on the round,  *)
(* the acquisition gate, the file it writes, the registration, and so on.  *)
(* A call that is refused changes nothing and is not a step unless it has  *)
(* a lease to give back.  A turn of the session ends only when its tool    *)
(* calls have returned, as the SDK session becomes idle only then; a call  *)
(* of a built-in web tool is the exception, whose post-use hook, and with  *)
(* it the lease, can be lost when the attempt it belongs to is aborted.    *)
(***************************************************************************)
EXTENDS WorkflowState, PlanState, FiniteSets

CONSTANTS
  Need,                (* questions a plan may freeze                      *)
  Condition,           (* stop conditions of a need                        *)
  Artifact,            (* evidence files and retained tool results         *)
  Call,                (* tool calls in flight at once                     *)
  MaxProtocolAttempts, (* turns without the mandatory tool call            *)
  MaxLostHooks,        (* bound: post-use hooks that never arrive          *)
  None                 (* nothing recorded, no call                        *)

ASSUME RoundsAssumption ==
  /\ Need # {} /\ Condition # {}
  /\ IsFiniteSet(Artifact) /\ IsFiniteSet(Call)
  /\ MaxProtocolAttempts \in Nat \ {0}
  /\ MaxLostHooks \in Nat

(* What Collection QC says of a need, what Collection says of it at the    *)
(* end of a round, and a checkpoint.                                       *)
Assessments == [unsatisfied : SUBSET Condition, material : BOOLEAN]
Dispositions == UNION {[ns -> {"continue", "stalled"}] : ns \in SUBSET Need}
Checkpoints == [artifacts : SUBSET Artifact, dispositions : Dispositions]

(* A call that holds a lease, and one that has a checkpoint to record.     *)
Leases ==
  [tool : {"acquire", "save", "write"}, step : {"leased", "acquiring", "written"},
   artifact : Artifact]
Recordings == [tool : {"checkpoint"}, step : {"accepted"}, output : Checkpoints]

ASSUME NoneAssumption ==
  /\ None \notin Checkpoints \cup Leases \cup Recordings
  /\ \A ns \in SUBSET Need : None \notin [ns -> Assessments]

VARIABLES
  checkpointed,          (* evidence some accepted checkpoint listed       *)
  checkpointAccepted,    (* the round is closed until the next one begins  *)
  lastRoundHadArtifacts, (* whether the last accepted checkpoint had any   *)
  activeToolCalls,       (* leases out                                     *)
  lost,                  (* leases whose post-use hook never came          *)
  material,              (* files and retained results that exist          *)
  call,                  (* what each in-flight tool call is doing         *)
  submitted,             (* CheckpointRecorder: the accepted checkpoint    *)
  handoff,               (* the checkpoint under review                    *)
  verdict,               (* VerdictRecorder: the accepted verdict          *)
  outcomes,              (* the outcomes published for later phases        *)
  attempt,               (* protocol attempts used in this phase           *)
  failure                (* why the block failed, or "none"                *)

contextVars == <<needs, ledger, evidence, checkpointed, reviewed,
                 checkpointAccepted, lastRoundHadArtifacts, activeToolCalls>>
toolVars    == <<contextVars, lost, material, call, submitted, verdict>>
vars        == <<stateVars, toolVars, handoff, outcomes, attempt, failure>>

--------------------------------------------------------------------------------
(* The need ledger.                                                        *)

Fresh == [unsatisfied |-> {}, assessed |-> FALSE, streak |-> 0, outcome |-> Open]

(* One verdict: for every active need the conditions it leaves unsatisfied *)
(* (none: the need is sufficient) and whether the evidence was material.   *)
Verdicts == [Active -> Assessments]

(* Mutant: a verdict may reopen conditions.                                *)
AcceptableReopening(v, hasNewArtifacts) ==
  /\ DOMAIN v = Active
  /\ \A n \in Active : v[n].material => hasNewArtifacts

(* validateAssessments: every active need exactly once, no condition       *)
(* reopened, no progress claimed for a round that added nothing.           *)
Acceptable(v, hasNewArtifacts) ==
  /\ DOMAIN v = Active
  /\ \A n \in Active :
       /\ v[n].material => hasNewArtifacts
       /\ ledger[n].assessed => v[n].unsatisfied \subseteq ledger[n].unsatisfied

(* Mutant: a round with progress does not end the streak.                  *)
StreakKept(entry, idle) == IF idle THEN entry.streak + 1 ELSE entry.streak

(* Consecutive idle rounds.                                                *)
Streak(entry, idle) == IF idle THEN entry.streak + 1 ELSE 0

(* What one assessment and one end-of-round disposition make of a need.    *)
Assess(entry, assessment, disposition) ==
  LET left   == assessment.unsatisfied
      shrank == entry.assessed /\ Cardinality(left) < Cardinality(entry.unsatisfied)
      idle   == disposition = "stalled" /\ ~assessment.material /\ ~shrank
      streak == Streak(entry, idle)
  IN  IF left = {} THEN [entry EXCEPT !.outcome = "satisfied"]
      ELSE [unsatisfied |-> left, assessed |-> TRUE, streak |-> streak,
            outcome |-> IF streak >= 2 THEN "search_stalled" ELSE Open]

(* ApplyQCAssessments; an exhausted round budget closes what is still open.*)
Assessed(v, dispositions, budgetExhausted) ==
  [n \in Need |->
     IF n \notin Active THEN ledger[n]
     ELSE LET entry == Assess(ledger[n], v[n], dispositions[n])
          IN  IF budgetExhausted /\ entry.outcome = Open
              THEN [entry EXCEPT !.outcome = "budget_exhausted"]
              ELSE entry]

(* Mutant: only the satisfied needs are told to later phases.              *)
OutcomesSatisfied(l) ==
  {<<n, l[n].outcome>> : n \in {m \in needs : l[m].outcome = "satisfied"}}

Outcomes(l) == {<<n, l[n].outcome>> : n \in {m \in needs : l[m].outcome # Open}}

--------------------------------------------------------------------------------
(* Tool calls of the Collection session.                                   *)

Running == failure = "none"

RoundOpen == needs # {} /\ ~checkpointAccepted

AllReturned == \A c \in Call : call[c] = None

At(c, step) == call[c] # None /\ call[c].step = step

(* Mutant: the plan can be set again.                                      *)
SetInformationNeedsAgain ==
  /\ phase = "collection"
  /\ needs' \in SUBSET Need \ {{}}
  /\ UNCHANGED <<stateVars, ledger, evidence, checkpointed, reviewed,
                 checkpointAccepted, lastRoundHadArtifacts, activeToolCalls,
                 lost, material, call, submitted, verdict>>

(* r42_set_information_needs: permanent, once.                             *)
SetInformationNeeds ==
  /\ phase = "collection"
  /\ needs = {}
  /\ needs' \in SUBSET Need \ {{}}
  /\ UNCHANGED <<stateVars, ledger, evidence, checkpointed, reviewed,
                 checkpointAccepted, lastRoundHadArtifacts, activeToolCalls,
                 lost, material, call, submitted, verdict>>

(* BeginCollectionToolCall: an acquisition (custom or web), a save or a    *)
(* markdown write takes a lease on the round for its whole execution.      *)
BeginToolCall(c, tool, a) ==
  /\ phase = "collection"
  /\ call[c] = None
  /\ RoundOpen
  /\ activeToolCalls' = activeToolCalls + 1
  /\ call' = [call EXCEPT ![c] = [tool |-> tool, step |-> "leased", artifact |-> a]]
  /\ UNCHANGED <<stateVars, needs, ledger, evidence, checkpointed, reviewed,
                 checkpointAccepted, lastRoundHadArtifacts, lost, material,
                 submitted, verdict>>

(* Mutant: an acquisition does not give its lease back.                    *)
ReturnLeaks(c) ==
  /\ call' = [call EXCEPT ![c] = None]
  /\ activeToolCalls' =
       IF call[c].tool = "acquire" THEN activeToolCalls ELSE activeToolCalls - 1

(* The call returns and its deferred release, or its post-use hook, runs.  *)
Return(c) ==
  /\ call' = [call EXCEPT ![c] = None]
  /\ activeToolCalls' = activeToolCalls - 1

(* The acquisition passes the checkpoint gate, a second lock after the     *)
(* lease.                                                                  *)
PassGate(c) ==
  /\ At(c, "leased") /\ call[c].tool = "acquire"
  /\ AcquireGate
  /\ call' = [call EXCEPT ![c].step = "acquiring"]
  /\ UNCHANGED <<stateVars, contextVars, lost, material, submitted, verdict>>

(* It is turned away by the gate, or a save or a write is refused: bad     *)
(* arguments, or a path that already exists.                               *)
TurnAway(c) ==
  /\ At(c, "leased")
  /\ call[c].tool = "acquire" => ~AcquireGate
  /\ Return(c)
  /\ UNCHANGED <<stateVars, needs, ledger, evidence, checkpointed, reviewed,
                 checkpointAccepted, lastRoundHadArtifacts, lost, material,
                 submitted, verdict>>

(* The acquisition answers: its result is retained, or it failed.          *)
FinishAcquire(c) ==
  /\ At(c, "acquiring")
  /\ material' \in {material, material \cup {call[c].artifact}}
  /\ Return(c)
  /\ UNCHANGED <<stateVars, needs, ledger, evidence, checkpointed, reviewed,
                 checkpointAccepted, lastRoundHadArtifacts, lost, submitted,
                 verdict>>

(* A web call is aborted and no post-use hook gives its lease back.        *)
LoseHook(c) ==
  /\ At(c, "acquiring")
  /\ lost < MaxLostHooks
  /\ lost' = lost + 1
  /\ call' = [call EXCEPT ![c] = None]
  /\ UNCHANGED <<stateVars, contextVars, material, submitted, verdict>>

(* r42_save_artifact writes a path that did not exist.                     *)
SaveWrite(c) ==
  /\ At(c, "leased") /\ call[c].tool = "save"
  /\ call[c].artifact \notin material
  /\ material' = material \cup {call[c].artifact}
  /\ call' = [call EXCEPT ![c].step = "written"]
  /\ UNCHANGED <<stateVars, contextVars, lost, submitted, verdict>>

(* r42_write_markdown creates or replaces a file and registers nothing.    *)
WriteMarkdown(c) ==
  /\ At(c, "leased") /\ call[c].tool = "write"
  /\ material' = material \cup {call[c].artifact}
  /\ Return(c)
  /\ UNCHANGED <<stateVars, needs, ledger, evidence, checkpointed, reviewed,
                 checkpointAccepted, lastRoundHadArtifacts, lost, submitted,
                 verdict>>

(* Mutant: an artifact registered twice counts twice.                      *)
KnownNever(a) == FALSE

Known(a) == a \in evidence

(* RegisterHandler.Register: the same artifact counts once.                *)
Register(a) ==
  /\ RoundOpen
  /\ evidence' = evidence \cup {a}
  /\ IF Known(a) THEN UNCHANGED stateVars ELSE RegisterEvidenceArtifact
  /\ UNCHANGED <<needs, ledger, checkpointed, reviewed, checkpointAccepted,
                 lastRoundHadArtifacts>>

(* The second half of r42_save_artifact.  A refused registration would     *)
(* leave the file behind, unregistered.                                    *)
SaveRegister(c) ==
  /\ At(c, "written")
  /\ IF RoundOpen THEN Register(call[c].artifact)
     ELSE UNCHANGED <<stateVars, needs, ledger, evidence, checkpointed, reviewed,
                      checkpointAccepted, lastRoundHadArtifacts>>
  /\ Return(c)
  /\ UNCHANGED <<lost, material, submitted, verdict>>

(* Mutant: a file that does not exist can be registered.                   *)
RegisterAnything(a) ==
  /\ phase = "collection"
  /\ a \in Artifact \ evidence
  /\ Register(a)
  /\ UNCHANGED <<activeToolCalls, lost, material, call, submitted, verdict>>

(* r42_register_artifact takes no lease: it holds the context's lock.      *)
RegisterArtifact(a) ==
  /\ phase = "collection"
  /\ a \in material \ evidence
  /\ Register(a)
  /\ UNCHANGED <<activeToolCalls, lost, material, call, submitted, verdict>>

(* Mutant: a checkpoint does not wait for the leases.                      *)
LeasesIgnored == TRUE

LeasesReturned == activeToolCalls = 0

(* CheckpointHandler.Submit accepts: no lease is out and every active need *)
(* has a disposition.  An empty checkpoint carries its reason.             *)
SubmitCheckpoint(c, dispositions) ==
  LET pending == evidence \ checkpointed
  IN  /\ phase = "collection"
      /\ call[c] = None
      /\ RoundOpen
      /\ LeasesReturned
      /\ DOMAIN dispositions = Active
      /\ IF pending = {} THEN UNCHANGED stateVars ELSE Checkpoint
      /\ checkpointed' = checkpointed \cup pending
      /\ checkpointAccepted' = TRUE
      /\ lastRoundHadArtifacts' = (pending # {})
      /\ call' = [call EXCEPT ![c] =
                    [tool |-> "checkpoint", step |-> "accepted",
                     output |-> [artifacts |-> pending, dispositions |-> dispositions]]]
      /\ UNCHANGED <<needs, ledger, evidence, reviewed, activeToolCalls, lost,
                     material, submitted, verdict>>

(* The handler then records what was accepted, under the recorder's lock;  *)
(* the recorder refuses a second one.                                      *)
RecordCheckpoint(c) ==
  /\ At(c, "accepted")
  /\ submitted' = IF submitted = None THEN call[c].output ELSE submitted
  /\ call' = [call EXCEPT ![c] = None]
  /\ UNCHANGED <<stateVars, contextVars, lost, material, verdict>>

--------------------------------------------------------------------------------
(* Collection QC's one tool, and the runners.                              *)

(* Mutant: the tool does not ask whether the round added anything.         *)
SubmitVerdictUnchecked(v) ==
  /\ phase = "collection_qc"
  /\ verdict = None
  /\ Acceptable(v, TRUE)
  /\ verdict' = v
  /\ UNCHANGED <<stateVars, contextVars, lost, material, call, submitted>>

(* r42_collection_qc_verdict: validated against the ledger, recorded once. *)
SubmitVerdict(v) ==
  /\ phase = "collection_qc"
  /\ verdict = None
  /\ Acceptable(v, lastRoundHadArtifacts)
  /\ verdict' = v
  /\ UNCHANGED <<stateVars, contextVars, lost, material, call, submitted>>

ToolStep ==
  \/ SetInformationNeeds
  \/ \E c \in Call :
       \/ \E tool \in {"acquire", "save", "write"}, a \in Artifact :
            BeginToolCall(c, tool, a)
       \/ PassGate(c) \/ TurnAway(c) \/ FinishAcquire(c) \/ LoseHook(c)
       \/ SaveWrite(c) \/ SaveRegister(c) \/ WriteMarkdown(c)
       \/ \E dispositions \in [Active -> {"continue", "stalled"}] :
            SubmitCheckpoint(c, dispositions)
       \/ RecordCheckpoint(c)
  \/ \E a \in Artifact : RegisterArtifact(a)
  \/ \E v \in Verdicts : SubmitVerdict(v)

(* The coordinator begins the workflow and opens the first round.          *)
Start ==
  /\ Begin
  /\ attempt' = 1
  /\ UNCHANGED <<toolVars, handoff, outcomes, failure>>

Fail(why) == failure' = why /\ UNCHANGED <<stateVars, toolVars, handoff, outcomes, attempt>>

(* Mutant: retries cost nothing.                                           *)
SpendNoAttempt == attempt' = attempt

SpendAttempt == attempt' = attempt + 1

(* A turn that ended without its mandatory call is retried or is the last. *)
RetryOrFail ==
  IF attempt >= MaxProtocolAttempts
  THEN Fail("protocol_exhausted")
  ELSE SpendAttempt /\ UNCHANGED <<stateVars, toolVars, handoff, outcomes, failure>>

(* Mutant: the drained checkpoint stays in the recorder.                   *)
DrainNothing == UNCHANGED submitted

Drain == submitted' = None

(* collection.Runner drains the recorder; the coordinator hands what it    *)
(* finds to Collection QC.                                                 *)
EndCollectionTurn ==
  /\ phase = "collection"
  /\ AllReturned
  /\ IF submitted = None THEN RetryOrFail
     ELSE /\ handoff' = submitted
          /\ Drain
          /\ Advance("checkpoint")
          /\ attempt' = 1
          /\ UNCHANGED <<contextVars, lost, material, call, verdict, outcomes, failure>>

(* Mutant: a stalled search does not count as decided.                     *)
AllTerminalButStalled(l) ==
  \A n \in needs : l[n].outcome \in {"satisfied", "budget_exhausted"}

AllTerminal(l) == \A n \in needs : l[n].outcome # Open

(* Mutant: only the last checkpoint counts as reviewed.                    *)
MarkOnlyLast(artifacts) == artifacts

MarkEvidenceReviewed(artifacts) == reviewed \cup artifacts

(* The verdict fits the checkpoint and the ledger as they are now.         *)
Applicable ==
  /\ DOMAIN handoff.dispositions = Active
  /\ Acceptable(verdict, handoff.artifacts # {})

(* collectionqc.Runner applies the verdict: marks the evidence reviewed,   *)
(* updates the ledger, publishes the outcomes and moves the workflow.  A   *)
(* verdict that no longer fits, or a round the budget vetoes, is an error. *)
ApplyVerdict ==
  LET next  == Assessed(verdict, handoff.dispositions, CollectionLimitExhausted)
      done  == AllTerminal(next)
      event == IF done THEN "sufficient" ELSE "needs_more"
  IN  /\ reviewed' = MarkEvidenceReviewed(handoff.artifacts)
      /\ verdict' = None
      /\ IF Applicable
         THEN /\ ledger' = next
              /\ outcomes' = IF Outcomes(next) = {} THEN outcomes ELSE Outcomes(next)
         ELSE UNCHANGED <<ledger, outcomes>>
      /\ IF Applicable /\ Accepts(event)
         THEN /\ Advance(event)
              /\ checkpointAccepted' = done
              /\ attempt' = 1
              /\ UNCHANGED failure
         ELSE /\ failure' = "verdict_refused"
              /\ UNCHANGED <<stateVars, checkpointAccepted, attempt>>
      /\ UNCHANGED <<needs, evidence, checkpointed, lastRoundHadArtifacts,
                     activeToolCalls, lost, material, call, submitted, handoff>>

EndQCTurn ==
  /\ phase = "collection_qc"
  /\ IF verdict = None THEN RetryOrFail ELSE ApplyVerdict

(* A session error, a cancellation, or a tool error ends the block.        *)
SessionFails == phase # "research" /\ Fail("session")

(* The block leaves Collection for Research, or has failed.                *)
Over == phase = "research" \/ failure # "none"

--------------------------------------------------------------------------------
NothingCollected ==
  /\ StateInit
  /\ needs = {}
  /\ ledger = [n \in Need |-> Fresh]
  /\ evidence = {} /\ checkpointed = {} /\ reviewed = {}
  /\ checkpointAccepted = FALSE
  /\ lastRoundHadArtifacts = FALSE
  /\ activeToolCalls = 0 /\ lost = 0
  /\ material = {}
  /\ call = [c \in Call |-> None]
  /\ submitted = None /\ handoff = None /\ verdict = None
  /\ outcomes = {}
  /\ attempt = 0

Init == NothingCollected /\ failure = "none"

Next ==
  \/ Running /\ Start
  \/ Running /\ ToolStep /\ UNCHANGED <<handoff, outcomes, attempt, failure>>
  \/ Running /\ EndCollectionTurn
  \/ Running /\ EndQCTurn
  \/ Running /\ SessionFails
  \/ Over /\ UNCHANGED vars

Spec == Init /\ [][Next]_vars

(* A handler that has started returns.  The model does not overlap tool    *)
(* calls for ever: again and again none is in flight, and if so the turn   *)
(* ends (the session goes idle, or its watchdog makes it).  Nothing        *)
(* obliges the model to call a tool.                                       *)
CallReturns(c) ==
  /\ Running
  /\ \/ PassGate(c) \/ TurnAway(c) \/ FinishAcquire(c)
     \/ SaveWrite(c) \/ SaveRegister(c) \/ WriteMarkdown(c) \/ RecordCheckpoint(c)
  /\ UNCHANGED <<handoff, outcomes, attempt, failure>>

Fairness ==
  /\ WF_vars(Running /\ Start)
  /\ \A c \in Call : WF_vars(CallReturns(c))
  /\ SF_vars(Running /\ EndCollectionTurn)
  /\ WF_vars(Running /\ EndQCTurn)
  /\ []<>(AllReturned \/ Over)

FairSpec == Spec /\ Fairness
================================================================================
