---------------------------- MODULE CollectionProofs ----------------------------
(***************************************************************************)
(* The safety of the Collection rounds, for any number of needs,           *)
(* conditions, artifacts, tool calls in flight, rounds and attempts.       *)
(*                                                                         *)
(* The argument follows one checkpoint through the three places that hold  *)
(* it: the handler that had it accepted, the recorder, and the review.     *)
(* Wherever it is, it covers everything that was gathered since the last   *)
(* review, and nothing can be gathered until the review is over.           *)
(***************************************************************************)
EXTENDS CollectionProperties, StallHistory, ResearchBlock, FiniteSetTheorems, TLAPS

(* The calls that hold a lease.                                            *)
Holding == {c \in Call : call[c] # None /\ call[c].step # "accepted"}

(* A checkpoint that is all there is to review.                            *)
Covers(checkpoint) ==
  /\ checkpoint \in Checkpoints
  /\ checkpointed = reviewed \cup checkpoint.artifacts
  /\ lastRoundHadArtifacts <=> checkpoint.artifacts # {}
  /\ DOMAIN checkpoint.dispositions = Active

(* The round counters; the rounds reach no phase beyond Research.          *)
CounterInv ==
  /\ phase \in {NotBegun, "collection", "collection_qc", "research"}
  /\ phase = NotBegun => cursor = 0 /\ collectionRoundsUsed = 0
  /\ phase \in {"collection", "collection_qc"} => cursor + 1 = collectionRoundsUsed
  /\ collectionRoundsUsed <= MaxCollectionRounds

(* While the round is closed no lease is out and nothing is unlisted.      *)
RoundInv ==
  /\ checkpointAccepted => Holding = {} /\ evidence = checkpointed
  /\ phase # "collection" => submitted = None /\ \A c \in Call : call[c] = None
  /\ \A c \in Call : At(c, "written") => call[c].artifact \in material

(* Where the accepted checkpoint is.                                       *)
CheckpointInv ==
  /\ phase = "collection" =>
       /\ checkpointAccepted <=> (submitted # None \/ \E c \in Call : At(c, "accepted"))
       /\ submitted # None => \A c \in Call : ~At(c, "accepted")
       /\ \A c, d \in Call : At(c, "accepted") /\ At(d, "accepted") => c = d
       /\ submitted # None => Covers(submitted)
       /\ \A c \in Call : At(c, "accepted") => Covers(call[c].output)
  /\ phase = "collection_qc" => checkpointAccepted /\ Covers(handoff)
  /\ phase = "research" => checkpointAccepted
  /\ phase \in {NotBegun, "research"} \/ ~checkpointAccepted => reviewed = checkpointed
  /\ phase = NotBegun => ~checkpointAccepted /\ material = {}

(* What is decided about the needs in each phase.                          *)
NeedInv ==
  /\ needs = {} =>
       /\ phase \in {NotBegun, "collection"}
       /\ ~checkpointAccepted
       /\ evidence = {}
       /\ \A n \in Need : ledger[n] = Fresh
       /\ \A c \in Call : call[c] = None
  /\ phase = NotBegun => needs = {}
  /\ \A n \in Need : ledger[n].outcome = Open => ledger[n].streak < 2
  /\ phase \in {"collection", "collection_qc"} =>
       /\ needs # {} => Active # {}
       /\ \A n \in needs : ledger[n].outcome # "budget_exhausted"
  /\ phase = "research" =>
       /\ Active = {}
       /\ outcomes = {<<n, ledger[n].outcome>> : n \in needs}
       /\ (\E n \in needs : ledger[n].outcome = "budget_exhausted")
             => cursor = MaxCollectionRounds

(* An accepted verdict fits what it will be applied to.                    *)
VerdictInv ==
  /\ verdict # None =>
       phase = "collection_qc" /\ verdict \in Verdicts
       /\ Acceptable(verdict, lastRoundHadArtifacts)
  /\ failure # "verdict_refused"

(* The inductive invariant.                                                *)
IInv ==
  /\ TypeOK /\ CounterInv /\ RoundInv /\ CheckpointInv /\ NeedInv /\ VerdictInv
  /\ LeasesAreAccounted /\ UnreviewedMatchesEvidence

(* Nothing has begun.                                                      *)
LEMMA InitIInv == Init => IInv
<1> SUFFICES ASSUME Init PROVE IInv
  OBVIOUS
<1> USE DEF Init, NothingCollected, StateInit, NotBegun, Open, Fresh
<1>1. Holding = {}
  BY DEF Holding
<1>2. TypeOK
  <2>1. StateTypeOK
    BY DEF StateTypeOK, Phases
  <2>2. ledger \in [Need -> [unsatisfied : SUBSET Condition, assessed : BOOLEAN, streak : 0..2,
                      outcome : {Open, "satisfied", "search_stalled", "budget_exhausted"}]]
    OBVIOUS
  <2>3. 0 \in 0..MaxLostHooks /\ 0 \in 0..MaxProtocolAttempts
    BY RoundsAssumption
  <2>4. call \in [Call -> Leases \cup Recordings \cup {None}]
    OBVIOUS
  <2>5. QED
    BY <2>1, <2>2, <2>3, <2>4 DEF TypeOK
<1>3. CounterInv
  BY BudgetAssumption DEF CounterInv
<1>4. RoundInv
  BY <1>1 DEF RoundInv, At
<1>5. CheckpointInv /\ NeedInv /\ VerdictInv
  BY DEF CheckpointInv, NeedInv, VerdictInv
<1>6. LeasesAreAccounted
  BY <1>1, FS_EmptySet DEF LeasesAreAccounted, Holding
<1>7. UnreviewedMatchesEvidence
  <2>1. Cardinality(evidence \ checkpointed) = 0
    BY FS_EmptySet
  <2>2. QED
    BY <2>1, BudgetAssumption DEF UnreviewedMatchesEvidence
<1>8. QED
  BY <1>2, <1>3, <1>4, <1>5, <1>6, <1>7 DEF IInv

--------------------------------------------------------------------------------
(* One call moves on without touching an accepted checkpoint.              *)
LEMMA CallMoves ==
  ASSUME call \in [Call -> Leases \cup Recordings \cup {None}],
         NEW c \in Call, NEW next \in Leases \cup {None},
         ~At(c, "accepted"),
         call' = [call EXCEPT ![c] = next]
  PROVE  /\ call' \in [Call -> Leases \cup Recordings \cup {None}]
         /\ \A d \in Call : At(d, "accepted")' <=> At(d, "accepted")
         /\ \A d \in Call : d # c => call'[d] = call[d]
         /\ call'[c] = next
         /\ Holding' = IF next = None THEN Holding \ {c} ELSE Holding \cup {c}
<1>1. call' \in [Call -> Leases \cup Recordings \cup {None}]
  OBVIOUS
<1>2. call'[c] = next /\ \A d \in Call : d # c => call'[d] = call[d]
  OBVIOUS
<1>3. next # None => next.step # "accepted"
  BY DEF Leases
<1>4. \A d \in Call : At(d, "accepted")' <=> At(d, "accepted")
  BY <1>2, <1>3 DEF At
<1>5. Holding' = IF next = None THEN Holding \ {c} ELSE Holding \cup {c}
  BY <1>2, <1>3 DEF Holding
<1>6. QED
  BY <1>1, <1>2, <1>4, <1>5

(* The leases are finitely many, and one more or less counts for one.      *)
LEMMA HoldingFinite ==
  /\ IsFiniteSet(Holding)
  /\ Cardinality(Holding) \in Nat
<1>1. Holding \subseteq Call
  BY DEF Holding
<1>2. QED
  BY <1>1, FS_Subset, FS_CardinalityType, RoundsAssumption

(* While a lease is out, or can be taken, no checkpoint is accepted.       *)
LEMMA HolderMeansOpen ==
  ASSUME IInv, NEW c \in Call, call[c] # None, ~At(c, "accepted")
  PROVE  phase = "collection" /\ ~checkpointAccepted /\ needs # {}
<1>1. c \in Holding
  BY DEF Holding, At
<1>2. phase = "collection" /\ ~checkpointAccepted
  BY <1>1 DEF IInv, RoundInv
<1>3. QED
  BY <1>2 DEF IInv, NeedInv

(* What holding a lease does in an open round changes nothing that the     *)
(* round, its checkpoint or the ledger rests on.                           *)
LEMMA LeaseStep ==
  ASSUME IInv, phase = "collection", needs # {}, ~checkpointAccepted,
         NEW c \in Call, ~At(c, "accepted"),
         NEW next \in Leases \cup {None},
         call' = [call EXCEPT ![c] = next],
         material' \in SUBSET Artifact, material \subseteq material',
         next # None /\ next.step = "written" => next.artifact \in material',
         lost' \in 0..MaxLostHooks,
         activeToolCalls' \in Nat, LeasesAreAccounted',
         UNCHANGED <<stateVars, needs, ledger, evidence, checkpointed, reviewed,
                     checkpointAccepted, lastRoundHadArtifacts, submitted, verdict,
                     handoff, outcomes, attempt, failure>>
  PROVE  IInv'
<1> USE DEF stateVars
<1>1. /\ call' \in [Call -> Leases \cup Recordings \cup {None}]
      /\ \A d \in Call : At(d, "accepted")' <=> At(d, "accepted")
      /\ \A d \in Call : d # c => call'[d] = call[d]
      /\ call'[c] = next
  BY CallMoves DEF IInv, TypeOK
<1>2. \A d \in Call : ~At(d, "accepted")
  BY DEF IInv, CheckpointInv
<1>3. TypeOK'
  BY <1>1 DEF IInv, TypeOK, StateTypeOK
<1>4. CounterInv'
  BY DEF IInv, CounterInv
<1>5. RoundInv'
  BY <1>1 DEF IInv, RoundInv, At
<1>6. CheckpointInv'
  BY <1>1, <1>2 DEF IInv, CheckpointInv, NotBegun
<1>7. NeedInv'
  BY DEF IInv, NeedInv, Active
<1>8. VerdictInv'
  BY DEF IInv, VerdictInv
<1>9. UnreviewedMatchesEvidence'
  BY DEF IInv, UnreviewedMatchesEvidence
<1>10. QED
  BY <1>3, <1>4, <1>5, <1>6, <1>7, <1>8, <1>9 DEF IInv

(* What a tool call leaves to the runners.                                 *)
Elsewhere == UNCHANGED <<handoff, outcomes, attempt, failure>>

LEMMA BeginToolCallKeeps ==
  ASSUME IInv, NEW c \in Call, NEW tool \in {"acquire", "save", "write"},
         NEW a \in Artifact, BeginToolCall(c, tool, a), Elsewhere
  PROVE  IInv'
<1> DEFINE lease == [tool |-> tool, step |-> "leased", artifact |-> a]
<1>1. lease \in Leases /\ lease # None
  BY NoneAssumption DEF Leases
<1>2. ~At(c, "accepted") /\ c \notin Holding
  BY DEF BeginToolCall, At, Holding
<1>3. Holding' = Holding \cup {c}
  BY <1>1, <1>2, CallMoves DEF BeginToolCall, IInv, TypeOK
<1>4. Cardinality(Holding') = Cardinality(Holding) + 1
  BY <1>2, <1>3, HoldingFinite, FS_AddElement
<1>5. LeasesAreAccounted' /\ activeToolCalls' \in Nat
  BY <1>4, HoldingFinite DEF BeginToolCall, IInv, TypeOK, LeasesAreAccounted, Holding
<1>6. QED
  BY <1>1, <1>2, <1>5, LeaseStep
     DEF BeginToolCall, RoundOpen, Elsewhere, IInv, TypeOK

(* Giving a lease back, whatever the call leaves on the disk.              *)
LEMMA ReturnKeeps ==
  ASSUME IInv, NEW c \in Call, call[c] # None, ~At(c, "accepted"), Return(c), Elsewhere,
         material' \in SUBSET Artifact, material \subseteq material',
         UNCHANGED <<stateVars, needs, ledger, evidence, checkpointed, reviewed,
                     checkpointAccepted, lastRoundHadArtifacts, lost, submitted, verdict>>
  PROVE  IInv'
<1>1. c \in Holding
  BY DEF Holding, At
<1>2. Holding' = Holding \ {c}
  BY CallMoves DEF Return, IInv, TypeOK
<1>3. Cardinality(Holding') = Cardinality(Holding) - 1 /\ Cardinality(Holding) # 0
  BY <1>1, <1>2, HoldingFinite, FS_RemoveElement, FS_EmptySet
<1>4. LeasesAreAccounted' /\ activeToolCalls' \in Nat
  BY <1>3, HoldingFinite DEF Return, IInv, TypeOK, LeasesAreAccounted, Holding
<1>5. phase = "collection" /\ ~checkpointAccepted /\ needs # {}
  BY HolderMeansOpen
<1>6. QED
  BY <1>4, <1>5, LeaseStep DEF Return, Elsewhere, IInv, TypeOK

LEMMA TurnAwayKeeps ==
  ASSUME IInv, NEW c \in Call, TurnAway(c), Elsewhere PROVE IInv'
BY ReturnKeeps DEF TurnAway, At, IInv, TypeOK

LEMMA FinishAcquireKeeps ==
  ASSUME IInv, NEW c \in Call, FinishAcquire(c), Elsewhere PROVE IInv'
<1>1. call[c] \in Leases
  BY DEF FinishAcquire, At, IInv, TypeOK, Recordings
<1>2. material' \in SUBSET Artifact /\ material \subseteq material'
  BY <1>1 DEF FinishAcquire, IInv, TypeOK, Leases
<1>3. QED
  BY <1>2, ReturnKeeps DEF FinishAcquire, At

LEMMA WriteMarkdownKeeps ==
  ASSUME IInv, NEW c \in Call, WriteMarkdown(c), Elsewhere PROVE IInv'
<1>1. call[c] \in Leases
  BY DEF WriteMarkdown, At, IInv, TypeOK, Recordings
<1>2. material' \in SUBSET Artifact /\ material \subseteq material'
  BY <1>1 DEF WriteMarkdown, IInv, TypeOK, Leases
<1>3. QED
  BY <1>2, ReturnKeeps DEF WriteMarkdown, At

(* Going on to the next step with the lease in hand.                       *)
LEMMA AdvanceKeeps ==
  ASSUME IInv, NEW c \in Call, call[c] \in Leases, Elsewhere,
         NEW step \in {"acquiring", "written"},
         call' = [call EXCEPT ![c].step = step],
         material' \in SUBSET Artifact, material \subseteq material',
         step = "written" => call[c].artifact \in material',
         UNCHANGED <<stateVars, contextVars, lost, submitted, verdict>>
  PROVE  IInv'
<1>1. PICK next \in Leases : next = [call[c] EXCEPT !.step = step]
  BY DEF Leases
<1>2. next # None /\ call[c] # None
  BY NoneAssumption
<1>3. call' = [call EXCEPT ![c] = next] /\ (next.step = "written" => next.artifact \in material')
  BY <1>1 DEF IInv, TypeOK, Leases
<1>4. ~At(c, "accepted")
  BY DEF At, Leases
<1>5. c \in Holding
  BY <1>2, <1>4 DEF Holding, At
<1>6. Holding' = Holding
  <2>1. Holding' = Holding \cup {c}
    BY <1>2, <1>3, <1>4, CallMoves DEF IInv, TypeOK
  <2>2. QED
    BY <1>5, <2>1
<1>7. LeasesAreAccounted' /\ activeToolCalls' \in Nat
  BY <1>6 DEF IInv, TypeOK, LeasesAreAccounted, Holding, contextVars
<1>8. phase = "collection" /\ ~checkpointAccepted /\ needs # {}
  BY <1>2, <1>4, HolderMeansOpen
<1>9. QED
  BY <1>2, <1>3, <1>4, <1>7, <1>8, LeaseStep DEF Elsewhere, IInv, TypeOK, contextVars

LEMMA PassGateKeeps ==
  ASSUME IInv, NEW c \in Call, PassGate(c), Elsewhere PROVE IInv'
<1>1. call[c] \in Leases
  BY DEF PassGate, At, IInv, TypeOK, Recordings
<1>2. QED
  BY <1>1, AdvanceKeeps DEF PassGate, IInv, TypeOK

LEMMA SaveWriteKeeps ==
  ASSUME IInv, NEW c \in Call, SaveWrite(c), Elsewhere PROVE IInv'
<1>1. call[c] \in Leases
  BY DEF SaveWrite, At, IInv, TypeOK, Recordings
<1>2. QED
  BY <1>1, AdvanceKeeps DEF SaveWrite, IInv, TypeOK, Leases

(* The lease of a lost hook is accounted for as lost.                      *)
LEMMA LoseHookKeeps ==
  ASSUME IInv, NEW c \in Call, LoseHook(c), Elsewhere PROVE IInv'
<1>1. call[c] # None /\ ~At(c, "accepted")
  BY DEF LoseHook, At
<1>2. c \in Holding
  BY <1>1 DEF Holding, At
<1>3. Holding' = Holding \ {c}
  BY <1>1, CallMoves DEF LoseHook, IInv, TypeOK
<1>4. Cardinality(Holding') = Cardinality(Holding) - 1
  BY <1>2, <1>3, HoldingFinite, FS_RemoveElement
<1>5. LeasesAreAccounted' /\ activeToolCalls' \in Nat /\ lost' \in 0..MaxLostHooks
  BY <1>4, HoldingFinite, RoundsAssumption
     DEF LoseHook, IInv, TypeOK, LeasesAreAccounted, Holding, contextVars
<1>6. phase = "collection" /\ ~checkpointAccepted /\ needs # {}
  BY <1>1, HolderMeansOpen
<1>7. QED
  BY <1>1, <1>5, <1>6, LeaseStep DEF LoseHook, Elsewhere, IInv, TypeOK, contextVars

--------------------------------------------------------------------------------
(* A new artifact is one more that no checkpoint has listed.               *)
LEMMA RegisterCounts ==
  ASSUME IInv, NEW a \in Artifact, Register(a)
  PROVE  /\ UnreviewedMatchesEvidence'
         /\ StateTypeOK'
         /\ UNCHANGED <<phase, cursor, collectionRoundsUsed>>
<1> USE DEF Register
<1>1. CASE Known(a)
  <2>1. evidence' = evidence
    BY <1>1 DEF Known
  <2>2. QED
    BY <1>1, <2>1 DEF IInv, TypeOK, StateTypeOK, UnreviewedMatchesEvidence, stateVars
<1>2. CASE ~Known(a)
  <2>1. evidence' \ checkpointed' = (evidence \ checkpointed) \cup {a}
    BY <1>2 DEF Known, IInv, TypeOK
  <2>2. IsFiniteSet(evidence \ checkpointed)
    BY FS_Subset, RoundsAssumption DEF IInv, TypeOK
  <2>3. a \notin evidence \ checkpointed
    BY <1>2 DEF Known
  <2>4. Cardinality(evidence' \ checkpointed') = Cardinality(evidence \ checkpointed) + 1
    BY <2>1, <2>2, <2>3, FS_AddElement
  <2>5. unreviewedCount' = Cardinality(evidence' \ checkpointed')
    BY <1>2, <2>4 DEF RegisterEvidenceArtifact, IInv, UnreviewedMatchesEvidence
  <2>6. checkpointPending' <=> (checkpointPending \/ unreviewedCount + 1 >= BatchSize)
    BY <1>2 DEF RegisterEvidenceArtifact, BatchReached
  <2>7. checkpointPending => unreviewedCount >= BatchSize
    BY DEF IInv, UnreviewedMatchesEvidence
  <2>8. unreviewedCount' = unreviewedCount + 1 /\ unreviewedCount \in Nat
    BY <1>2 DEF RegisterEvidenceArtifact, IInv, TypeOK, StateTypeOK
  <2>9. checkpointPending' <=> unreviewedCount' >= BatchSize
    <3>1. unreviewedCount >= BatchSize => unreviewedCount + 1 >= BatchSize
      BY <2>8, BudgetAssumption
    <3>2. QED
      BY <2>6, <2>7, <2>8, <3>1
  <2>10. StateTypeOK' /\ UNCHANGED <<phase, cursor, collectionRoundsUsed>>
    <3>1. UNCHANGED <<phase, cursor, collectionRoundsUsed>> /\ checkpointPending' \in BOOLEAN
      BY <1>2 DEF RegisterEvidenceArtifact
    <3>2. QED
      BY <2>8, <3>1 DEF IInv, TypeOK, StateTypeOK
  <2>11. QED
    BY <2>5, <2>9, <2>10 DEF UnreviewedMatchesEvidence
<1>3. QED
  BY <1>1, <1>2

(* A registration in an open round, with or without a lease.               *)
LEMMA RegisterStep ==
  ASSUME IInv, phase = "collection", NEW a \in material, Register(a), Elsewhere,
         \A d \in Call : ~At(d, "accepted")',
         \A d \in Call : At(d, "written")' => call'[d].artifact \in material,
         call' \in [Call -> Leases \cup Recordings \cup {None}],
         activeToolCalls' \in Nat, LeasesAreAccounted',
         UNCHANGED <<lost, material, submitted, verdict>>
  PROVE  IInv'
<1> USE DEF Elsewhere
<1>1. a \in Artifact
  BY DEF IInv, TypeOK
<1>2. UnreviewedMatchesEvidence' /\ StateTypeOK' /\ UNCHANGED <<phase, cursor, collectionRoundsUsed>>
  BY <1>1, RegisterCounts
<1>3. /\ needs # {} /\ ~checkpointAccepted
      /\ evidence' = evidence \cup {a}
      /\ UNCHANGED <<needs, ledger, checkpointed, reviewed, checkpointAccepted,
                     lastRoundHadArtifacts>>
  BY DEF Register, RoundOpen
<1>4. TypeOK'
  BY <1>2, <1>3 DEF IInv, TypeOK
<1>5. CounterInv'
  BY <1>2 DEF IInv, CounterInv
<1>6. RoundInv'
  BY <1>2, <1>3 DEF IInv, RoundInv
<1>7. CheckpointInv'
  BY <1>2, <1>3 DEF IInv, CheckpointInv, NotBegun
<1>8. NeedInv'
  BY <1>2, <1>3 DEF IInv, NeedInv, Active, NotBegun
<1>9. VerdictInv'
  BY <1>2 DEF IInv, VerdictInv
<1>10. QED
  BY <1>2, <1>4, <1>5, <1>6, <1>7, <1>8, <1>9 DEF IInv

LEMMA RegisterArtifactKeeps ==
  ASSUME IInv, NEW a \in Artifact, RegisterArtifact(a), Elsewhere PROVE IInv'
<1> USE DEF RegisterArtifact
<1>1. ~checkpointAccepted /\ a \in material /\ phase = "collection"
  BY DEF Register, RoundOpen
<1>2. \A d \in Call : ~At(d, "accepted")
  BY <1>1 DEF IInv, CheckpointInv
<1>3. LeasesAreAccounted'
  BY DEF IInv, LeasesAreAccounted
<1>4. \A d \in Call : ~At(d, "accepted")' /\ (At(d, "written")' => call'[d].artifact \in material)
  BY <1>2 DEF At, IInv, RoundInv
<1>5. QED
  BY <1>1, <1>3, <1>4, RegisterStep DEF IInv, TypeOK

(* The call's own lease keeps the round open: registering what was written *)
(* is never refused.                                                       *)
LEMMA SaveRegisterKeeps ==
  ASSUME IInv, NEW c \in Call, SaveRegister(c), Elsewhere PROVE IInv'
<1> USE DEF SaveRegister
<1>1. call[c] # None /\ ~At(c, "accepted") /\ At(c, "written")
  BY DEF At
<1>2. phase = "collection" /\ ~checkpointAccepted /\ needs # {}
  BY <1>1, HolderMeansOpen
<1>3. Register(call[c].artifact)
  BY <1>2 DEF RoundOpen
<1>4. PICK a \in material : a = call[c].artifact
  BY <1>1 DEF IInv, RoundInv
<1>5. c \in Holding
  BY <1>1 DEF Holding, At
<1>6. /\ Holding' = Holding \ {c}
      /\ call' \in [Call -> Leases \cup Recordings \cup {None}]
      /\ \A d \in Call : At(d, "accepted")' <=> At(d, "accepted")
      /\ \A d \in Call : d # c => call'[d] = call[d]
      /\ call'[c] = None
  BY <1>1, CallMoves DEF Return, IInv, TypeOK
<1>7. Cardinality(Holding') = Cardinality(Holding) - 1 /\ Cardinality(Holding) # 0
  BY <1>5, <1>6, HoldingFinite, FS_RemoveElement, FS_EmptySet
<1>8. LeasesAreAccounted' /\ activeToolCalls' \in Nat
  <2>1. activeToolCalls = lost + Cardinality(Holding) /\ lost \in Nat /\ lost' = lost
    BY DEF IInv, TypeOK, LeasesAreAccounted, Holding
  <2>2. activeToolCalls' = activeToolCalls - 1
    BY DEF Return
  <2>3. Cardinality(Holding) \in Nat /\ Cardinality(Holding') = Cardinality(Holding) - 1
        /\ Cardinality(Holding) # 0
    BY <1>7, HoldingFinite
  <2>4. activeToolCalls' = lost' + Cardinality(Holding') /\ activeToolCalls' \in Nat
    BY <2>1, <2>2, <2>3
  <2>5. QED
    BY <2>4 DEF LeasesAreAccounted, Holding
<1>9. \A d \in Call : ~At(d, "accepted")'
  BY <1>2, <1>6 DEF IInv, CheckpointInv
<1>10. \A d \in Call : At(d, "written")' => call'[d].artifact \in material
  BY <1>6 DEF At, IInv, RoundInv
<1>11. QED
  BY <1>2, <1>3, <1>4, <1>6, <1>8, <1>9, <1>10, RegisterStep

--------------------------------------------------------------------------------
LEMMA SetInformationNeedsKeeps ==
  ASSUME IInv, SetInformationNeeds, Elsewhere PROVE IInv'
<1> USE DEF SetInformationNeeds, Elsewhere, stateVars
<1>1. /\ ~checkpointAccepted /\ \A n \in Need : ledger[n] = Fresh
      /\ \A c \in Call : call[c] = None
  BY DEF IInv, NeedInv
<1>2. \A d \in Call : ~At(d, "accepted")' /\ ~At(d, "accepted")
  BY <1>1 DEF At
<1>3. TypeOK'
  BY DEF IInv, TypeOK, StateTypeOK
<1>4. CounterInv' /\ VerdictInv'
  BY DEF IInv, CounterInv, VerdictInv
<1>5. RoundInv'
  BY DEF IInv, RoundInv, Holding, At
<1>6. CheckpointInv'
  BY <1>1, <1>2 DEF IInv, CheckpointInv, NotBegun
<1>7. Active' = needs'
  BY <1>1 DEF Active, Fresh
<1>8. NeedInv'
  <2>1. \A n \in needs' : ledger'[n].outcome = Open
    BY <1>1 DEF Fresh
  <2>2. QED
    BY <1>7, <2>1 DEF IInv, NeedInv, NotBegun, Open
<1>9. LeasesAreAccounted' /\ UnreviewedMatchesEvidence'
  BY DEF IInv, LeasesAreAccounted, UnreviewedMatchesEvidence
<1>10. QED
  BY <1>3, <1>4, <1>5, <1>6, <1>8, <1>9 DEF IInv

(* The accepted checkpoint lists all that is new, and with no lease out    *)
(* there is nothing else to come.                                          *)
LEMMA SubmitCheckpointKeeps ==
  ASSUME IInv, NEW c \in Call, NEW dispositions \in [Active -> {"continue", "stalled"}],
         SubmitCheckpoint(c, dispositions), Elsewhere
  PROVE  IInv'
<1> DEFINE pending == evidence \ checkpointed
<1> USE DEF Elsewhere
<1>1. PICK output \in Checkpoints : output = [artifacts |-> pending, dispositions |-> dispositions]
  <2>1. dispositions \in Dispositions
    BY DEF Dispositions, Active, IInv, TypeOK
  <2>2. pending \in SUBSET Artifact
    BY DEF IInv, TypeOK
  <2>3. QED
    BY <2>1, <2>2 DEF Checkpoints
<1>2. /\ phase = "collection" /\ call[c] = None /\ needs # {} /\ ~checkpointAccepted
      /\ activeToolCalls = 0
      /\ IF pending = {} THEN UNCHANGED stateVars ELSE Checkpoint
      /\ checkpointed' = checkpointed \cup pending
      /\ checkpointAccepted' = TRUE
      /\ lastRoundHadArtifacts' = (pending # {})
      /\ UNCHANGED <<needs, ledger, evidence, reviewed, activeToolCalls, lost,
                     material, submitted, verdict>>
  BY DEF SubmitCheckpoint, RoundOpen, LeasesReturned
<1>3. call' = [call EXCEPT ![c] = [tool |-> "checkpoint", step |-> "accepted", output |-> output]]
  BY <1>1 DEF SubmitCheckpoint
<1>4. PICK recording \in Recordings :
        recording = [tool |-> "checkpoint", step |-> "accepted", output |-> output]
  BY DEF Recordings
<1>5. recording # None /\ recording.step = "accepted" /\ recording.output = output
  BY <1>4, NoneAssumption
<1>6. /\ call' \in [Call -> Leases \cup Recordings \cup {None}]
      /\ call'[c] = recording
      /\ \A d \in Call : d # c => call'[d] = call[d]
  BY <1>3, <1>4 DEF IInv, TypeOK
<1>7. Holding' = {} /\ Holding = {} /\ lost = 0
  <2>1. lost + Cardinality(Holding) = 0 /\ lost \in Nat
    BY <1>2, RoundsAssumption DEF IInv, LeasesAreAccounted, TypeOK, Holding
  <2>2. lost = 0 /\ Cardinality(Holding) = 0
    BY <2>1, HoldingFinite
  <2>3. Holding = {}
    BY <2>2, HoldingFinite, FS_EmptySet
  <2>4. \A d \in Call : d # c => ~(call'[d] # None /\ call'[d].step # "accepted")
    BY <1>6, <2>3 DEF Holding
  <2>5. QED
    BY <1>5, <1>6, <2>2, <2>3, <2>4 DEF Holding
<1>8. /\ submitted = None /\ reviewed = checkpointed
      /\ \A d \in Call : ~At(d, "accepted")
  BY <1>2 DEF IInv, CheckpointInv
<1>9. /\ At(c, "accepted")'
      /\ \A d \in Call : At(d, "accepted")' => d = c
      /\ \A d \in Call : ~At(d, "written")'
  BY <1>5, <1>6, <1>7, <1>8 DEF At, Holding
<1>10. Active' = Active
  BY <1>2 DEF Active
<1>11. evidence' = checkpointed' /\ checkpointed' \subseteq evidence'
  BY <1>2 DEF IInv, TypeOK
<1>12. Covers(call[c].output)'
  <2>1. checkpointed' = reviewed' \cup output.artifacts
    BY <1>1, <1>2, <1>8
  <2>2. lastRoundHadArtifacts' <=> output.artifacts # {}
    BY <1>1, <1>2
  <2>3. DOMAIN output.dispositions = Active'
    BY <1>1, <1>10
  <2>4. QED
    BY <1>5, <1>6, <2>1, <2>2, <2>3 DEF Covers
<1>13. /\ UNCHANGED <<phase, cursor, collectionRoundsUsed>> /\ StateTypeOK'
       /\ UnreviewedMatchesEvidence'
  <2>1. Cardinality(evidence' \ checkpointed') = 0
    <3>1. evidence' \ checkpointed' = {}
      BY <1>11
    <3>2. QED
      BY <3>1, FS_EmptySet
  <2>2. CASE pending = {}
    <3>1. UNCHANGED stateVars
      BY <1>2, <2>2
    <3>2. evidence' \ checkpointed' = evidence \ checkpointed
      BY <1>2, <2>2
    <3>3. QED
      BY <3>1, <3>2 DEF stateVars, IInv, TypeOK, StateTypeOK, UnreviewedMatchesEvidence
  <2>3. CASE pending # {}
    <3>1. Checkpoint
      BY <1>2, <2>3
    <3>2. /\ UNCHANGED <<phase, cursor, collectionRoundsUsed>>
          /\ unreviewedCount' = 0 /\ checkpointPending' = FALSE
      BY <3>1 DEF Checkpoint
    <3>3. ~(0 >= BatchSize)
      BY BudgetAssumption
    <3>4. QED
      BY <2>1, <3>2, <3>3 DEF IInv, TypeOK, StateTypeOK, UnreviewedMatchesEvidence
  <2>4. QED
    BY <2>2, <2>3
<1>14. TypeOK'
  <2>1. lastRoundHadArtifacts' \in BOOLEAN
    BY <1>2
  <2>2. QED
    BY <1>2, <1>6, <1>11, <1>13, <2>1 DEF IInv, TypeOK
<1>15. CounterInv' /\ VerdictInv'
  BY <1>2, <1>13 DEF IInv, CounterInv, VerdictInv
<1>16. RoundInv'
  BY <1>2, <1>7, <1>9, <1>11, <1>13 DEF IInv, RoundInv
<1>17. CheckpointInv'
  BY <1>2, <1>8, <1>9, <1>12, <1>13 DEF CheckpointInv, NotBegun
<1>18. NeedInv'
  BY <1>2, <1>10, <1>13 DEF IInv, NeedInv, NotBegun
<1>19. LeasesAreAccounted'
  BY <1>2, <1>7 DEF IInv, LeasesAreAccounted, Holding
<1>20. QED
  BY <1>13, <1>14, <1>15, <1>16, <1>17, <1>18, <1>19 DEF IInv

(* The recorder is empty while a handler has a checkpoint for it.          *)
LEMMA RecordCheckpointKeeps ==
  ASSUME IInv, NEW c \in Call, RecordCheckpoint(c), Elsewhere PROVE IInv'
<1> USE DEF RecordCheckpoint, Elsewhere, stateVars, contextVars
<1>1. phase = "collection" /\ call[c] # None
  BY DEF IInv, RoundInv, At
<1>2. /\ submitted = None /\ checkpointAccepted
      /\ \A d \in Call : At(d, "accepted") => d = c
      /\ Covers(call[c].output)
  BY <1>1 DEF IInv, CheckpointInv
<1>3. call[c].output \in Checkpoints /\ call[c].output # None
  BY <1>2, NoneAssumption DEF Covers
<1>4. submitted' = call[c].output
  BY <1>2
<1>5. /\ call' \in [Call -> Leases \cup Recordings \cup {None}]
      /\ call'[c] = None
      /\ \A d \in Call : d # c => call'[d] = call[d]
  BY DEF IInv, TypeOK
<1>6. \A d \in Call : ~At(d, "accepted")'
  BY <1>2, <1>5 DEF At
<1>7. Holding = {} /\ Holding' = {}
  BY <1>2, <1>5 DEF IInv, RoundInv, Holding
<1>8. Covers(submitted)'
  BY <1>2, <1>4 DEF Covers, Active
<1>9. TypeOK'
  BY <1>3, <1>4, <1>5 DEF IInv, TypeOK, StateTypeOK
<1>10. CounterInv' /\ VerdictInv'
  BY <1>1 DEF IInv, CounterInv, VerdictInv
<1>11. RoundInv'
  BY <1>1, <1>5, <1>7 DEF IInv, RoundInv, At
<1>12. CheckpointInv'
  BY <1>1, <1>2, <1>3, <1>4, <1>6, <1>8 DEF CheckpointInv, NotBegun
<1>13. NeedInv'
  BY <1>1, <1>5 DEF IInv, NeedInv, Active
<1>14. LeasesAreAccounted' /\ UnreviewedMatchesEvidence'
  BY <1>7 DEF IInv, LeasesAreAccounted, UnreviewedMatchesEvidence, Holding
<1>15. QED
  BY <1>9, <1>10, <1>11, <1>12, <1>13, <1>14 DEF IInv

LEMMA SubmitVerdictKeeps ==
  ASSUME IInv, NEW v \in Verdicts, SubmitVerdict(v), Elsewhere PROVE IInv'
<1> USE DEF SubmitVerdict, Elsewhere, stateVars, contextVars
<1>1. Active' = Active
  BY DEF Active
<1>2. v \in UNION {[ns -> Assessments] : ns \in SUBSET Need}
  BY DEF Verdicts, Active, IInv, TypeOK
<1>3. TypeOK'
  BY <1>2 DEF IInv, TypeOK, StateTypeOK
<1>4. CounterInv' /\ RoundInv' /\ NeedInv'
  BY <1>1 DEF IInv, CounterInv, RoundInv, NeedInv, Holding, At
<1>5. CheckpointInv'
  BY DEF IInv, CheckpointInv, Covers, Active, At
<1>6. VerdictInv'
  <2>1. verdict' \in Verdicts'
    BY <1>1 DEF Verdicts
  <2>2. Acceptable(verdict, lastRoundHadArtifacts)'
    BY <1>1 DEF Acceptable
  <2>3. QED
    BY <2>1, <2>2 DEF IInv, VerdictInv
<1>7. LeasesAreAccounted' /\ UnreviewedMatchesEvidence'
  BY DEF IInv, LeasesAreAccounted, UnreviewedMatchesEvidence
<1>8. QED
  BY <1>3, <1>4, <1>5, <1>6, <1>7 DEF IInv

--------------------------------------------------------------------------------
(* The coordinator and the runners.                                        *)
LEMMA StartKeeps ==
  ASSUME IInv, Start PROVE IInv'
<1> USE DEF Start, Begin, Begun, NotBegun, toolVars, contextVars
<1>1. /\ needs = {} /\ ~checkpointAccepted /\ reviewed = checkpointed
      /\ submitted = None /\ \A c \in Call : call[c] = None
  BY DEF IInv, NeedInv, CheckpointInv, RoundInv
<1>2. \A c \in Call : ~At(c, "accepted")' /\ ~At(c, "written")'
  BY <1>1 DEF At
<1>3. TypeOK'
  BY RoundsAssumption DEF IInv, TypeOK, StateTypeOK, Phases
<1>4. CounterInv'
  BY BudgetAssumption DEF IInv, CounterInv
<1>5. RoundInv'
  BY <1>1, <1>2 DEF RoundInv
<1>6. CheckpointInv'
  BY <1>1, <1>2 DEF CheckpointInv
<1>7. NeedInv'
  BY <1>1 DEF IInv, NeedInv, Active
<1>8. VerdictInv' /\ LeasesAreAccounted' /\ UnreviewedMatchesEvidence'
  BY DEF IInv, VerdictInv, LeasesAreAccounted, UnreviewedMatchesEvidence
<1>9. QED
  BY <1>3, <1>4, <1>5, <1>6, <1>7, <1>8 DEF IInv

(* What only changes the attempt counter or the reason of failure.         *)
LEMMA RunnersOwn ==
  ASSUME IInv, attempt' \in 0..MaxProtocolAttempts,
         failure' \in {"none", "protocol_exhausted", "session"},
         UNCHANGED <<stateVars, toolVars, handoff, outcomes>>
  PROVE  IInv'
<1> USE DEF stateVars, toolVars, contextVars
<1>1. TypeOK'
  BY DEF IInv, TypeOK, StateTypeOK
<1>2. CounterInv' /\ RoundInv'
  BY DEF IInv, CounterInv, RoundInv, Holding, At
<1>3. CheckpointInv'
  BY DEF IInv, CheckpointInv, Covers, Active, At
<1>4. NeedInv'
  BY DEF IInv, NeedInv, Active
<1>5. VerdictInv'
  BY DEF IInv, VerdictInv, Verdicts, Acceptable, Active
<1>6. LeasesAreAccounted' /\ UnreviewedMatchesEvidence'
  BY DEF IInv, LeasesAreAccounted, UnreviewedMatchesEvidence
<1>7. QED
  BY <1>1, <1>2, <1>3, <1>4, <1>5, <1>6 DEF IInv

LEMMA FailKeeps ==
  ASSUME IInv, NEW why \in {"protocol_exhausted", "session"}, Fail(why) PROVE IInv'
BY RunnersOwn DEF Fail, IInv, TypeOK

LEMMA RetryOrFailKeeps ==
  ASSUME IInv, failure = "none", RetryOrFail PROVE IInv'
<1>1. CASE attempt >= MaxProtocolAttempts
  BY <1>1, FailKeeps DEF RetryOrFail
<1>2. CASE ~(attempt >= MaxProtocolAttempts)
  <2>1. attempt' \in 0..MaxProtocolAttempts
    BY <1>2, RoundsAssumption DEF RetryOrFail, SpendAttempt, IInv, TypeOK
  <2>2. QED
    BY <1>2, <2>1, RunnersOwn DEF RetryOrFail
<1>3. QED
  BY <1>1, <1>2

LEMMA AdvanceToReview ==
  ASSUME phase = "collection", Advance("checkpoint")
  PROVE  phase' = "collection_qc"
         /\ UNCHANGED <<cursor, collectionRoundsUsed, unreviewedCount, checkpointPending>>
BY DEF Advance, Edges, Spends

LEMMA EndCollectionTurnKeeps ==
  ASSUME IInv, failure = "none", EndCollectionTurn PROVE IInv'
<1>1. CASE submitted = None
  BY <1>1, RetryOrFailKeeps DEF EndCollectionTurn
<1>2. CASE submitted # None
  <2>1. /\ phase = "collection" /\ handoff' = submitted /\ submitted' = None
        /\ Advance("checkpoint") /\ attempt' = 1
        /\ \A c \in Call : call[c] = None
        /\ UNCHANGED <<contextVars, lost, material, call, verdict, outcomes, failure>>
    BY <1>2 DEF EndCollectionTurn, Drain, AllReturned
  <2>2. phase' = "collection_qc"
        /\ UNCHANGED <<cursor, collectionRoundsUsed, unreviewedCount, checkpointPending>>
    BY <2>1, AdvanceToReview
  <2>3. Covers(submitted) /\ checkpointAccepted
    BY <1>2, <2>1 DEF IInv, CheckpointInv
  <2> USE DEF contextVars
  <2>4. TypeOK'
    BY <2>1, <2>2, RoundsAssumption DEF IInv, TypeOK, StateTypeOK, Phases
  <2>5. CounterInv'
    BY <2>1, <2>2 DEF IInv, CounterInv, NotBegun
  <2>6. RoundInv'
    BY <2>1, <2>2, <2>3 DEF IInv, RoundInv, Holding, At
  <2>7. Covers(handoff)'
    BY <2>1, <2>3 DEF Covers, Active
  <2>8. CheckpointInv'
    BY <2>1, <2>2, <2>3, <2>7 DEF CheckpointInv, NotBegun
  <2>9. NeedInv'
    BY <2>1, <2>2, <2>3 DEF IInv, NeedInv, Active, NotBegun
  <2>10. VerdictInv'
    BY <2>1, <2>2 DEF IInv, VerdictInv
  <2>11. LeasesAreAccounted' /\ UnreviewedMatchesEvidence'
    BY <2>1, <2>2 DEF IInv, LeasesAreAccounted, UnreviewedMatchesEvidence
  <2>12. QED
    BY <2>4, <2>5, <2>6, <2>8, <2>9, <2>10, <2>11 DEF IInv
<1>3. QED
  BY <1>1, <1>2

LedgerEntries ==
  [unsatisfied : SUBSET Condition, assessed : BOOLEAN, streak : 0..2,
   outcome : {Open, "satisfied", "search_stalled", "budget_exhausted"}]

(* One assessment leaves an open need open with a streak short of the      *)
(* limit, or decides it; it never writes a need off for want of budget.    *)
LEMMA AssessResult ==
  ASSUME NEW entry \in LedgerEntries, entry.outcome = Open, entry.streak < 2,
         NEW assessment \in Assessments, NEW disposition
  PROVE  LET after == Assess(entry, assessment, disposition)
         IN  /\ after \in LedgerEntries
             /\ after.outcome = Open => after.streak < 2
             /\ after.outcome # "budget_exhausted"
             /\ after.outcome = Open => after.unsatisfied = assessment.unsatisfied
             /\ after.unsatisfied \in {entry.unsatisfied, assessment.unsatisfied}
             /\ after.outcome # "satisfied" => after.unsatisfied = assessment.unsatisfied
             /\ after.outcome # "satisfied" => assessment.unsatisfied # {}
<1> DEFINE left   == assessment.unsatisfied
           shrank == entry.assessed /\ Cardinality(left) < Cardinality(entry.unsatisfied)
           idle   == disposition = "stalled" /\ ~assessment.material /\ ~shrank
           streak == Streak(entry, idle)
           after  == Assess(entry, assessment, disposition)
<1>1. left \in SUBSET Condition
  BY DEF Assessments
<1>2. streak \in 0..2
  <2>1. entry.streak \in 0..1
    BY DEF LedgerEntries
  <2>2. streak = entry.streak + 1 \/ streak = 0
    BY DEF Streak
  <2> HIDE DEF streak
  <2>3. QED
    BY <2>1, <2>2
<1>3. after = IF left = {} THEN [entry EXCEPT !.outcome = "satisfied"]
              ELSE [unsatisfied |-> left, assessed |-> TRUE, streak |-> streak,
                    outcome |-> IF streak >= 2 THEN "search_stalled" ELSE Open]
  BY DEF Assess
<1> HIDE DEF left, streak, after
<1>4. CASE left = {}
  <2>1. after = [entry EXCEPT !.outcome = "satisfied"]
    BY <1>3, <1>4
  <2>2. after \in LedgerEntries /\ after.outcome = "satisfied" /\ after.unsatisfied = entry.unsatisfied
    BY <2>1 DEF LedgerEntries
  <2>3. QED
    BY <2>2 DEF Open, after
<1>5. CASE left # {}
  <2>1. after = [unsatisfied |-> left, assessed |-> TRUE, streak |-> streak,
                 outcome |-> IF streak >= 2 THEN "search_stalled" ELSE Open]
    BY <1>3, <1>5
  <2>2. after.outcome = IF streak >= 2 THEN "search_stalled" ELSE Open
    BY <2>1
  <2>3. after.streak = streak /\ after.unsatisfied = left
    BY <2>1
  <2>4. after \in LedgerEntries
    BY <1>1, <1>2, <2>1 DEF LedgerEntries
  <2>5. after.outcome = Open => after.streak < 2
    BY <1>2, <2>2, <2>3 DEF Open
  <2>6. after.outcome \in {"search_stalled", Open}
    BY <2>2
  <2>7. QED
    BY <1>5, <2>3, <2>4, <2>5, <2>6 DEF Open, after, left
<1>6. QED
  BY <1>4, <1>5

(* What a verdict makes of the whole ledger.                               *)
LEMMA AssessedResult ==
  ASSUME TypeOK, NEW v \in Verdicts, NEW dispositions, NEW exhausted \in BOOLEAN,
         \A n \in Need : ledger[n].outcome = Open => ledger[n].streak < 2
  PROVE  LET after == Assessed(v, dispositions, exhausted)
         IN  /\ after \in [Need -> LedgerEntries]
             /\ \A n \in Need : n \notin Active => after[n] = ledger[n]
             /\ \A n \in Need : after[n].outcome = Open => after[n].streak < 2
             /\ \A n \in Active :
                  /\ after[n].outcome = "budget_exhausted" => exhausted
                  /\ after[n].outcome = Open => ~exhausted
                  /\ after[n].unsatisfied \in {ledger[n].unsatisfied, v[n].unsatisfied}
<1> DEFINE entry(n) == Assess(ledger[n], v[n], dispositions[n])
           after    == Assessed(v, dispositions, exhausted)
<1>1. after = [n \in Need |->
                 IF n \notin Active THEN ledger[n]
                 ELSE IF exhausted /\ entry(n).outcome = Open
                      THEN [entry(n) EXCEPT !.outcome = "budget_exhausted"]
                      ELSE entry(n)]
  BY DEF Assessed
<1>2. ledger \in [Need -> LedgerEntries]
  BY DEF TypeOK, LedgerEntries
<1>3. ASSUME NEW n \in Active
      PROVE  /\ entry(n) \in LedgerEntries
             /\ entry(n).outcome = Open => entry(n).streak < 2
             /\ entry(n).outcome # "budget_exhausted"
             /\ entry(n).unsatisfied \in {ledger[n].unsatisfied, v[n].unsatisfied}
  <2>1. n \in Need /\ ledger[n].outcome = Open
    BY DEF Active, TypeOK
  <2>2. ledger[n] \in LedgerEntries /\ ledger[n].streak < 2
    BY <1>2, <2>1
  <2>3. v[n] \in Assessments
    BY DEF Verdicts
  <2> HIDE DEF entry
  <2>4. PICK e \in LedgerEntries, a \in Assessments : e = ledger[n] /\ a = v[n]
    BY <2>2, <2>3
  <2>5. PICK d : d = dispositions[n]
    OBVIOUS
  <2>6. entry(n) = Assess(e, a, d)
    BY <2>4, <2>5 DEF entry
  <2>7. QED
    BY <2>1, <2>2, <2>4, <2>6, AssessResult
<1> HIDE DEF entry, after
<1>4. \A n \in Need : n \notin Active => after[n] = ledger[n]
  BY <1>1
<1>5. ASSUME NEW n \in Active
      PROVE  /\ after[n] \in LedgerEntries
             /\ after[n].outcome = Open => after[n].streak < 2
             /\ after[n].outcome = "budget_exhausted" => exhausted
             /\ after[n].outcome = Open => ~exhausted
             /\ after[n].unsatisfied \in {ledger[n].unsatisfied, v[n].unsatisfied}
  <2>1. n \in Need
    BY DEF Active, TypeOK
  <2>2. CASE exhausted /\ entry(n).outcome = Open
    <3>1. after[n] = [entry(n) EXCEPT !.outcome = "budget_exhausted"]
      BY <1>1, <2>1, <2>2
    <3>2. after[n] \in LedgerEntries /\ after[n].outcome = "budget_exhausted"
          /\ after[n].unsatisfied = entry(n).unsatisfied
      BY <1>3, <3>1 DEF LedgerEntries
    <3>3. QED
      BY <1>3, <2>2, <3>2 DEF Open
  <2>3. CASE ~(exhausted /\ entry(n).outcome = Open)
    <3>1. after[n] = entry(n)
      BY <1>1, <2>1, <2>3
    <3>2. QED
      BY <1>3, <2>3, <3>1
  <2>4. QED
    BY <2>2, <2>3
<1>6. ASSUME NEW n \in Need
      PROVE  after[n] \in LedgerEntries /\ (after[n].outcome = Open => after[n].streak < 2)
  <2>1. CASE n \in Active
    BY <1>5, <2>1
  <2>2. CASE n \notin Active
    BY <1>2, <1>4, <2>2
  <2>3. QED
    BY <2>1, <2>2
<1>7. DOMAIN after = Need /\ after = [n \in Need |-> after[n]]
  BY <1>1
<1>8. after \in [Need -> LedgerEntries]
  BY <1>6, <1>7
<1>9. QED
  BY <1>4, <1>5, <1>6, <1>8 DEF after

LEMMA AdvanceFromReview ==
  ASSUME phase = "collection_qc", NEW event \in {"sufficient", "needs_more"}, Advance(event)
  PROVE  /\ phase' = IF event = "sufficient" THEN "research" ELSE "collection"
         /\ cursor' = cursor + 1
         /\ collectionRoundsUsed' =
              IF event = "sufficient" THEN collectionRoundsUsed ELSE collectionRoundsUsed + 1
         /\ event = "needs_more" => collectionRoundsUsed < MaxCollectionRounds
                                    \/ ~(collectionRoundsUsed >= MaxCollectionRounds)
         /\ UNCHANGED <<unreviewedCount, checkpointPending>>
BY DEF Advance, Accepts, Edges, Spends, CollectionLimitExhausted

(* The verdict that was accepted during the turn is applied after it: the  *)
(* checks pass again, the budget does not veto, and Research begins only   *)
(* with every need decided and all the evidence reviewed.                  *)
LEMMA ApplyVerdictStep ==
  ASSUME IInv, phase = "collection_qc", verdict # None, ApplyVerdict
  PROVE  \E next \in [Need -> LedgerEntries] :
           LET done == AllTerminal(next)
           IN  /\ next = Assessed(verdict, handoff.dispositions, CollectionLimitExhausted)
               /\ ledger' = next
               /\ \A n \in Need : n \notin Active => next[n] = ledger[n]
               /\ \A n \in Need : next[n].outcome = Open => next[n].streak < 2
               /\ \A n \in Active :
                    /\ next[n].outcome = "budget_exhausted" => CollectionLimitExhausted
                    /\ next[n].outcome = Open => ~CollectionLimitExhausted
                    /\ next[n].unsatisfied \in {ledger[n].unsatisfied, verdict[n].unsatisfied}
               /\ Advance(IF done THEN "sufficient" ELSE "needs_more")
               /\ checkpointAccepted' = done
               /\ outcomes' = IF Outcomes(next) = {} THEN outcomes ELSE Outcomes(next)
               /\ reviewed' = checkpointed
               /\ verdict' = None /\ attempt' = 1 /\ failure' = failure
               /\ UNCHANGED <<needs, evidence, checkpointed, lastRoundHadArtifacts,
                              activeToolCalls, lost, material, call, submitted, handoff>>
<1> DEFINE next  == Assessed(verdict, handoff.dispositions, CollectionLimitExhausted)
           done  == AllTerminal(next)
           event == IF done THEN "sufficient" ELSE "needs_more"
<1>1. Covers(handoff) /\ verdict \in Verdicts /\ Acceptable(verdict, lastRoundHadArtifacts)
  BY DEF IInv, CheckpointInv, VerdictInv
<1>2. Applicable
  BY <1>1 DEF Applicable, Covers, Acceptable
<1>3. /\ next \in [Need -> LedgerEntries]
      /\ \A n \in Need : n \notin Active => next[n] = ledger[n]
      /\ \A n \in Need : next[n].outcome = Open => next[n].streak < 2
      /\ \A n \in Active :
           /\ next[n].outcome = "budget_exhausted" => CollectionLimitExhausted
           /\ next[n].outcome = Open => ~CollectionLimitExhausted
           /\ next[n].unsatisfied \in {ledger[n].unsatisfied, verdict[n].unsatisfied}
  <2>1. PICK v \in Verdicts, x \in BOOLEAN, d \in {handoff.dispositions} :
          v = verdict /\ x = CollectionLimitExhausted
    <3>1. CollectionLimitExhausted \in BOOLEAN
      BY DEF CollectionLimitExhausted
    <3>2. QED
      BY <1>1, <3>1
  <2>2. next = Assessed(v, d, x)
    BY <2>1
  <2>3. TypeOK /\ \A n \in Need : ledger[n].outcome = Open => ledger[n].streak < 2
    BY DEF IInv, NeedInv
  <2> HIDE DEF next
  <2>4. QED
    BY <2>1, <2>2, <2>3, AssessedResult
<1>4. Accepts(event)
  <2>1. CASE done
    BY <2>1 DEF Accepts, Edges
  <2>2. CASE ~done
    <3>1. PICK n \in needs : next[n].outcome = Open
      BY <2>2 DEF AllTerminal
    <3>2. n \in Need /\ (n \notin Active => ledger[n].outcome # Open)
      BY DEF Active, IInv, TypeOK
    <3>3. n \in Active
      BY <1>3, <3>1, <3>2
    <3>4. ~CollectionLimitExhausted
      BY <1>3, <3>1, <3>3
    <3>5. QED
      BY <2>2, <3>4 DEF Accepts, Edges
  <2>3. QED
    BY <2>1, <2>2
<1>5. reviewed' = checkpointed
  BY <1>1 DEF ApplyVerdict, MarkEvidenceReviewed, Covers
<1>6. /\ ledger' = next
      /\ Advance(event)
      /\ checkpointAccepted' = done
      /\ outcomes' = IF Outcomes(next) = {} THEN outcomes ELSE Outcomes(next)
      /\ verdict' = None /\ attempt' = 1 /\ failure' = failure
      /\ UNCHANGED <<needs, evidence, checkpointed, lastRoundHadArtifacts,
                     activeToolCalls, lost, material, call, submitted, handoff>>
  BY <1>2, <1>4 DEF ApplyVerdict
<1>7. next = Assessed(verdict, handoff.dispositions, CollectionLimitExhausted)
  OBVIOUS
<1> HIDE DEF next
<1>8. QED
  BY <1>3, <1>5, <1>6, <1>7

LEMMA ApplyVerdictKeeps ==
  ASSUME IInv, phase = "collection_qc", verdict # None, ApplyVerdict PROVE IInv'
<1>1. PICK next \in [Need -> LedgerEntries] :
        /\ ledger' = next
        /\ \A n \in Need : n \notin Active => next[n] = ledger[n]
        /\ \A n \in Need : next[n].outcome = Open => next[n].streak < 2
        /\ \A n \in Active :
             /\ next[n].outcome = "budget_exhausted" => CollectionLimitExhausted
             /\ next[n].outcome = Open => ~CollectionLimitExhausted
        /\ Advance(IF AllTerminal(next) THEN "sufficient" ELSE "needs_more")
        /\ checkpointAccepted' = AllTerminal(next)
        /\ outcomes' = IF Outcomes(next) = {} THEN outcomes ELSE Outcomes(next)
        /\ reviewed' = checkpointed
        /\ verdict' = None /\ attempt' = 1 /\ failure' = failure
        /\ UNCHANGED <<needs, evidence, checkpointed, lastRoundHadArtifacts,
                       activeToolCalls, lost, material, call, submitted, handoff>>
  BY ApplyVerdictStep
<1>2. /\ phase' = IF AllTerminal(next) THEN "research" ELSE "collection"
      /\ cursor' = cursor + 1
      /\ collectionRoundsUsed' =
           IF AllTerminal(next) THEN collectionRoundsUsed ELSE collectionRoundsUsed + 1
      /\ ~AllTerminal(next) => ~(collectionRoundsUsed >= MaxCollectionRounds)
      /\ UNCHANGED <<unreviewedCount, checkpointPending>>
  <2>1. CASE AllTerminal(next)
    BY <1>1, <2>1, AdvanceFromReview
  <2>2. CASE ~AllTerminal(next)
    <3>1. Advance("needs_more")
      BY <1>1, <2>2
    <3>2. ~(collectionRoundsUsed >= MaxCollectionRounds)
      BY <3>1 DEF Advance, Accepts, CollectionLimitExhausted
    <3>3. QED
      BY <2>2, <3>1, <3>2, AdvanceFromReview
  <2>3. QED
    BY <2>1, <2>2
<1>3. /\ needs # {} /\ checkpointAccepted /\ needs \subseteq Need
      /\ submitted = None /\ \A c \in Call : call[c] = None
      /\ evidence = checkpointed
      /\ \A n \in needs : ledger[n].outcome # "budget_exhausted"
  BY DEF IInv, NeedInv, CheckpointInv, RoundInv, TypeOK
<1>4. \A c \in Call : ~At(c, "accepted")' /\ ~At(c, "written")'
  BY <1>1, <1>3 DEF At
<1>5. checkpointAccepted' \in BOOLEAN
  BY <1>1 DEF AllTerminal
<1>6. cursor \in Nat /\ collectionRoundsUsed \in Nat /\ cursor + 1 = collectionRoundsUsed
      /\ collectionRoundsUsed <= MaxCollectionRounds
  BY DEF IInv, CounterInv, TypeOK, StateTypeOK
<1>7. TypeOK'
  <2>1. ledger' \in [Need -> LedgerEntries] /\ attempt' \in 0..MaxProtocolAttempts
    BY <1>1, RoundsAssumption
  <2>2. StateTypeOK'
    <3>1. phase' \in Phases /\ cursor' \in Nat /\ collectionRoundsUsed' \in Nat
      BY <1>2, <1>6 DEF Phases
    <3>2. QED
      BY <1>2, <3>1 DEF IInv, TypeOK, StateTypeOK
  <2>3. /\ checkpointed' \subseteq evidence' /\ evidence' \subseteq material'
        /\ reviewed' \subseteq checkpointed'
    BY <1>1, <1>3 DEF IInv, TypeOK
  <2>4. QED
    BY <1>1, <1>5, <2>1, <2>2, <2>3 DEF IInv, TypeOK, LedgerEntries
<1>8. CounterInv'
  BY <1>2, <1>6, BudgetAssumption DEF CounterInv, NotBegun
<1>9. RoundInv'
  BY <1>1, <1>3, <1>4 DEF RoundInv, Holding
<1>10. CheckpointInv'
  BY <1>1, <1>2, <1>3, <1>4 DEF CheckpointInv, NotBegun
<1>11. Active' = {n \in needs : next[n].outcome = Open}
  BY <1>1 DEF Active
<1>12. NeedInv'
  <2>1. CASE AllTerminal(next)
    <3>1. Active' = {}
      BY <1>11, <2>1 DEF AllTerminal
    <3>2. Outcomes(next) = {<<n, next[n].outcome>> : n \in needs}
      BY <2>1 DEF Outcomes, AllTerminal
    <3>3. outcomes' = {<<n, ledger'[n].outcome>> : n \in needs'}
      BY <1>1, <1>3, <3>2
    <3>4. ASSUME NEW n \in needs, next[n].outcome = "budget_exhausted"
          PROVE  cursor' = MaxCollectionRounds
      <4>1. n \in Active
        BY <1>1, <1>3, <3>4
      <4>2. collectionRoundsUsed >= MaxCollectionRounds
        BY <1>1, <3>4, <4>1 DEF CollectionLimitExhausted
      <4>3. QED
        BY <1>2, <1>6, <4>2, BudgetAssumption
    <3>5. QED
      BY <1>1, <1>2, <1>3, <2>1, <3>1, <3>3, <3>4 DEF NeedInv, NotBegun
  <2>2. CASE ~AllTerminal(next)
    <3>1. Active' # {}
      BY <1>11, <2>2 DEF AllTerminal
    <3>2. ASSUME NEW n \in needs PROVE next[n].outcome # "budget_exhausted"
      <4>1. CASE n \in Active
        BY <1>1, <1>2, <2>2, <4>1 DEF CollectionLimitExhausted
      <4>2. CASE n \notin Active
        BY <1>1, <1>3, <4>2
      <4>3. QED
        BY <4>1, <4>2
    <3>3. QED
      BY <1>1, <1>2, <1>3, <2>2, <3>1, <3>2 DEF NeedInv, NotBegun
  <2>3. QED
    BY <2>1, <2>2
<1>13. VerdictInv'
  BY <1>1 DEF IInv, VerdictInv
<1>14. LeasesAreAccounted' /\ UnreviewedMatchesEvidence'
  BY <1>1, <1>2 DEF IInv, LeasesAreAccounted, UnreviewedMatchesEvidence
<1>15. QED
  BY <1>7, <1>8, <1>9, <1>10, <1>12, <1>13, <1>14 DEF IInv

LEMMA EndQCTurnKeeps ==
  ASSUME IInv, failure = "none", EndQCTurn PROVE IInv'
BY RetryOrFailKeeps, ApplyVerdictKeeps DEF EndQCTurn

LEMMA ToolStepKeeps ==
  ASSUME IInv, ToolStep, Elsewhere PROVE IInv'
<1>1. CASE SetInformationNeeds
  BY <1>1, SetInformationNeedsKeeps
<1>2. CASE \E c \in Call, tool \in {"acquire", "save", "write"}, a \in Artifact :
             BeginToolCall(c, tool, a)
  BY <1>2, BeginToolCallKeeps
<1>3. CASE \E c \in Call : PassGate(c)
  BY <1>3, PassGateKeeps
<1>4. CASE \E c \in Call : TurnAway(c)
  BY <1>4, TurnAwayKeeps
<1>5. CASE \E c \in Call : FinishAcquire(c)
  BY <1>5, FinishAcquireKeeps
<1>6. CASE \E c \in Call : LoseHook(c)
  BY <1>6, LoseHookKeeps
<1>7. CASE \E c \in Call : SaveWrite(c)
  BY <1>7, SaveWriteKeeps
<1>8. CASE \E c \in Call : SaveRegister(c)
  BY <1>8, SaveRegisterKeeps
<1>9. CASE \E c \in Call : WriteMarkdown(c)
  BY <1>9, WriteMarkdownKeeps
<1>10. CASE \E c \in Call : \E dispositions \in [Active -> {"continue", "stalled"}] :
              SubmitCheckpoint(c, dispositions)
  <2>1. PICK c \in Call, dispositions \in [Active -> {"continue", "stalled"}] :
          SubmitCheckpoint(c, dispositions)
    BY <1>10
  <2>2. QED
    BY <2>1, SubmitCheckpointKeeps
<1>11. CASE \E c \in Call : RecordCheckpoint(c)
  BY <1>11, RecordCheckpointKeeps
<1>12. CASE \E a \in Artifact : RegisterArtifact(a)
  BY <1>12, RegisterArtifactKeeps
<1>13. CASE \E v \in Verdicts : SubmitVerdict(v)
  BY <1>13, SubmitVerdictKeeps
<1>14. QED
  BY <1>1, <1>2, <1>3, <1>4, <1>5, <1>6, <1>7, <1>8, <1>9, <1>10, <1>11, <1>12,
     <1>13 DEF ToolStep

LEMMA NextIInv == IInv /\ [Next]_vars => IInv'
<1> SUFFICES ASSUME IInv, [Next]_vars PROVE IInv'
  OBVIOUS
<1>1. CASE Running /\ Start
  BY <1>1, StartKeeps
<1>2. CASE Running /\ ToolStep /\ UNCHANGED <<handoff, outcomes, attempt, failure>>
  BY <1>2, ToolStepKeeps DEF Elsewhere
<1>3. CASE Running /\ EndCollectionTurn
  BY <1>3, EndCollectionTurnKeeps DEF Running
<1>4. CASE Running /\ EndQCTurn
  BY <1>4, EndQCTurnKeeps DEF Running
<1>5. CASE Running /\ SessionFails
  BY <1>5, FailKeeps DEF SessionFails
<1>6. CASE UNCHANGED vars
  <2>1. failure' \in {"none", "protocol_exhausted", "session"}
    BY <1>6 DEF vars, IInv, VerdictInv, TypeOK
  <2>2. attempt' \in 0..MaxProtocolAttempts /\ UNCHANGED <<stateVars, toolVars, handoff, outcomes>>
    BY <1>6 DEF vars, IInv, TypeOK
  <2>3. QED
    BY <2>1, <2>2, RunnersOwn
<1>7. QED
  BY <1>1, <1>2, <1>3, <1>4, <1>5, <1>6 DEF Next

LEMMA AlwaysIInv == Spec => []IInv
BY InitIInv, NextIInv, PTL DEF Spec

--------------------------------------------------------------------------------
(* The state of the rounds keeps its types, whatever the number of calls.  *)
THEOREM CollectionTypeCorrect == Spec => []TypeOK
<1>1. IInv => TypeOK
  BY DEF IInv
<1>2. QED
  BY <1>1, AlwaysIInv, PTL

(* The gate's counter and the evidence list agree under any interleaving   *)
(* of registrations and checkpoints.                                       *)
THEOREM GateAlwaysMatchesEvidence == Spec => []UnreviewedMatchesEvidence
<1>1. IInv => UnreviewedMatchesEvidence
  BY DEF IInv
<1>2. QED
  BY <1>1, AlwaysIInv, PTL

(* Leases balance under any number of overlapping calls and lost hooks.    *)
THEOREM LeasesAlwaysAccounted == Spec => []LeasesAreAccounted
<1>1. IInv => LeasesAreAccounted
  BY DEF IInv
<1>2. QED
  BY <1>1, AlwaysIInv, PTL

(* A checkpoint is the last word of its round.                             *)
THEOREM AlwaysQuietAfterCheckpoint == Spec => []QuietAfterCheckpoint
<1>1. IInv => QuietAfterCheckpoint
  BY DEF IInv, RoundInv, QuietAfterCheckpoint, Holding
<1>2. QED
  BY <1>1, AlwaysIInv, PTL

(* An accepted verdict is never refused when it is applied.                *)
THEOREM VerdictNeverRefused == Spec => []VerdictAlwaysApplies
<1>1. IInv => VerdictAlwaysApplies
  BY DEF IInv, VerdictInv, VerdictAlwaysApplies
<1>2. QED
  BY <1>1, AlwaysIInv, PTL

(* Research starts with all the evidence reviewed.                         *)
THEOREM ResearchIsPrepared == Spec => []ResearchSeesReviewedEvidence
<1>1. IInv => ResearchSeesReviewedEvidence
  BY DEF IInv, RoundInv, CheckpointInv, ResearchSeesReviewedEvidence
<1>2. QED
  BY <1>1, AlwaysIInv, PTL

(* Research starts with every need of the plan decided, and is told of     *)
(* each what the ledger says.                                              *)
THEOREM ResearchIsToldTheOutcomes == Spec => []ResearchSeesDecidedNeeds
<1>1. IInv => ResearchSeesDecidedNeeds
  BY DEF IInv, NeedInv, ResearchSeesDecidedNeeds, NotBegun
<1>2. QED
  BY <1>1, AlwaysIInv, PTL

(* Every open round has a need to search for, and no need is written off   *)
(* while the budget has a round left.                                      *)
THEOREM RoundsAreWellSpent == Spec => [](RoundHasWork /\ BudgetIsUsedUp)
<1>1. ASSUME IInv PROVE RoundHasWork
  BY <1>1 DEF IInv, NeedInv, RoundHasWork
<1>2. ASSUME IInv PROVE BudgetIsUsedUp
  BY <1>2 DEF IInv, CounterInv, NeedInv, BudgetIsUsedUp
<1>3. QED
  BY <1>1, <1>2, AlwaysIInv, PTL

--------------------------------------------------------------------------------
(* Refinement.  Of all the steps only four kinds mean anything to the      *)
(* contract: the beginning, the plan, new evidence, and a verdict.         *)
LEMMA ToolStepContract ==
  ASSUME IInv, failure = "none", ToolStep, Elsewhere
  PROVE  /\ phase' = phase /\ failure' = failure /\ ledger' = ledger /\ reviewed' = reviewed
         /\ \/ UNCHANGED <<needs, evidence>>
            \/ /\ needs = {} /\ needs' \in SUBSET Need \ {{}} /\ evidence' = evidence
               /\ phase = "collection"
            \/ /\ needs # {} /\ needs' = needs /\ phase = "collection"
               /\ \E a \in Artifact : evidence' = evidence \cup {a}
<1> USE DEF stateVars, contextVars, Elsewhere
<1>1. CASE SetInformationNeeds
  BY <1>1 DEF SetInformationNeeds
<1>2. CASE \E c \in Call, tool \in {"acquire", "save", "write"}, a \in Artifact :
             BeginToolCall(c, tool, a)
  BY <1>2 DEF BeginToolCall
<1>3. CASE \E c \in Call :
             \/ PassGate(c) \/ TurnAway(c) \/ FinishAcquire(c) \/ LoseHook(c)
             \/ SaveWrite(c) \/ WriteMarkdown(c) \/ RecordCheckpoint(c)
  BY <1>3 DEF PassGate, TurnAway, FinishAcquire, LoseHook, SaveWrite, WriteMarkdown,
              RecordCheckpoint
<1>4. ASSUME NEW a \in Artifact, Register(a), phase = "collection"
      PROVE  /\ phase' = phase /\ ledger' = ledger /\ reviewed' = reviewed
             /\ needs # {} /\ needs' = needs /\ evidence' = evidence \cup {a}
  <2>1. phase' = phase
    BY <1>4, RegisterCounts
  <2>2. QED
    BY <1>4, <2>1 DEF Register, RoundOpen
<1>5. CASE \E c \in Call : SaveRegister(c)
  <2>1. PICK c \in Call : SaveRegister(c)
    BY <1>5
  <2>2. call[c] \in Leases /\ phase = "collection" /\ ~checkpointAccepted /\ needs # {}
    <3>1. call[c] # None /\ ~At(c, "accepted")
      BY <2>1 DEF SaveRegister, At
    <3>2. QED
      BY <3>1, HolderMeansOpen DEF At, IInv, TypeOK, Recordings
  <2>3. PICK a \in Artifact : a = call[c].artifact
    BY <2>2 DEF Leases
  <2>4. Register(a)
    BY <2>1, <2>2, <2>3 DEF SaveRegister, RoundOpen
  <2>5. QED
    BY <1>4, <2>2, <2>4
<1>6. CASE \E a \in Artifact : RegisterArtifact(a)
  BY <1>4, <1>6 DEF RegisterArtifact
<1>7. CASE \E c \in Call : \E dispositions \in [Active -> {"continue", "stalled"}] :
             SubmitCheckpoint(c, dispositions)
  BY <1>7 DEF SubmitCheckpoint, Checkpoint
<1>8. CASE \E v \in Verdicts : SubmitVerdict(v)
  BY <1>8 DEF SubmitVerdict
<1>9. QED
  BY <1>1, <1>2, <1>3, <1>5, <1>6, <1>7, <1>8 DEF ToolStep

(* What a verdict is to the contract: a review of everything gathered.     *)
LEMMA ApplyVerdictContract ==
  ASSUME IInv, failure = "none", phase = "collection_qc", verdict # None, ApplyVerdict
  PROVE  Contract!Review(Active \ Active')
<1>1. PICK next \in [Need -> LedgerEntries] :
        /\ ledger' = next
        /\ \A n \in Need : n \notin Active => next[n] = ledger[n]
        /\ Advance(IF AllTerminal(next) THEN "sufficient" ELSE "needs_more")
        /\ reviewed' = checkpointed
        /\ failure' = failure
        /\ UNCHANGED <<needs, evidence>>
  BY ApplyVerdictStep
<1>2. phase' = IF AllTerminal(next) THEN "research" ELSE "collection"
  <2>1. CASE AllTerminal(next)
    BY <1>1, <2>1, AdvanceFromReview
  <2>2. CASE ~AllTerminal(next)
    BY <1>1, <2>2, AdvanceFromReview
  <2>3. QED
    BY <2>1, <2>2
<1>3. needs # {} /\ needs \subseteq Need /\ evidence = checkpointed
  BY DEF IInv, NeedInv, TypeOK, CheckpointInv, RoundInv
<1>4. Active' = {n \in needs : next[n].outcome = Open} /\ Active' \subseteq Active
  BY <1>1, <1>3 DEF Active
<1>5. Active' = {} <=> AllTerminal(next)
  BY <1>4 DEF AllTerminal
<1>6. Stage = "collecting"
  BY DEF Stage, Begun, NotBegun
<1>7. Stage' = IF Active' = {} THEN "closed" ELSE "collecting"
  BY <1>1, <1>2, <1>5 DEF Stage, Begun, NotBegun
<1>8. /\ Active \ Active' \subseteq Active
      /\ Active' = Active \ (Active \ Active')
  BY <1>4
<1>9. QED
  BY <1>1, <1>3, <1>6, <1>7, <1>8 DEF Contract!Review

(* Every step of the rounds is a step of the contract, or none.            *)
LEMMA ContractStep ==
  ASSUME IInv, [Next]_vars PROVE [Contract!Next]_Contract!vars
<1> USE DEF Contract!vars
<1>1. CASE Running /\ Start
  <2>1. /\ failure = "none" /\ failure' = "none" /\ phase = NotBegun /\ phase' = "collection"
        /\ UNCHANGED <<needs, ledger, evidence, reviewed>>
    BY <1>1 DEF Running, Start, Begin, Begun, toolVars, contextVars
  <2>2. Stage = "waiting" /\ Stage' = "collecting" /\ Active' = Active
    BY <2>1 DEF Stage, Begun, NotBegun, Active
  <2>3. QED
    BY <2>1, <2>2 DEF Contract!Next, Contract!Begin
<1>2. CASE Running /\ ToolStep /\ UNCHANGED <<handoff, outcomes, attempt, failure>>
  <2>1. failure = "none" /\ ToolStep /\ Elsewhere
    BY <1>2 DEF Running, Elsewhere
  <2>2. phase' = phase /\ failure' = failure /\ ledger' = ledger /\ reviewed' = reviewed
    BY <2>1, ToolStepContract
  <2>3. Stage' = Stage
    BY <2>2 DEF Stage, Begun
  <2>4. CASE UNCHANGED <<needs, evidence>>
    <3>1. Active' = Active
      BY <2>2, <2>4 DEF Active
    <3>2. QED
      BY <2>2, <2>3, <2>4, <3>1
  <2>5. CASE /\ needs = {} /\ needs' \in SUBSET Need \ {{}} /\ evidence' = evidence
             /\ phase = "collection"
    <3>1. Stage = "collecting"
      BY <2>1, <2>5 DEF Stage, Begun, NotBegun
    <3>2. \A n \in Need : ledger'[n].outcome = Open
      BY <2>2, <2>5 DEF IInv, NeedInv, Fresh
    <3>3. Active' = needs'
      BY <2>5, <3>2 DEF Active
    <3>4. Contract!Freeze
      BY <2>2, <2>3, <2>5, <3>1, <3>3 DEF Contract!Freeze
    <3>5. QED
      BY <3>4 DEF Contract!Next
  <2>6. CASE /\ needs # {} /\ needs' = needs /\ phase = "collection"
             /\ \E a \in Artifact : evidence' = evidence \cup {a}
    <3>1. PICK a \in Artifact : evidence' = evidence \cup {a}
      BY <2>6
    <3>2. Stage = "collecting"
      BY <2>1, <2>6 DEF Stage, Begun, NotBegun
    <3>3. Active' = Active
      BY <2>2, <2>6 DEF Active
    <3>4. Contract!Gather(a)
      BY <2>2, <2>3, <2>6, <3>1, <3>2, <3>3 DEF Contract!Gather
    <3>5. QED
      BY <3>4 DEF Contract!Next
  <2>7. QED
    BY <2>1, <2>4, <2>5, <2>6, ToolStepContract
<1>3. ASSUME Running, NEW why \in {"protocol_exhausted", "session"}, Fail(why),
             phase # "research"
      PROVE  Contract!Fail
  <2>1. /\ failure = "none" /\ failure' = why /\ phase' = phase
        /\ UNCHANGED <<needs, ledger, evidence, reviewed>>
    BY <1>3 DEF Running, Fail, stateVars, toolVars, contextVars
  <2>2. phase \in {NotBegun, "collection", "collection_qc"}
    BY <1>3 DEF IInv, CounterInv
  <2>3. Stage \in {"waiting", "collecting"} /\ Stage' = "failed" /\ Active' = Active
    BY <2>1, <2>2 DEF Stage, Begun, NotBegun, Active
  <2>4. QED
    BY <2>1, <2>3 DEF Contract!Fail
<1>4. ASSUME Running, RetryOrFail, phase # "research"
      PROVE  [Contract!Next]_Contract!vars
  <2>1. CASE attempt >= MaxProtocolAttempts
    BY <1>3, <1>4, <2>1 DEF RetryOrFail, Contract!Next
  <2>2. CASE ~(attempt >= MaxProtocolAttempts)
    <3>1. /\ phase' = phase /\ failure' = failure
          /\ UNCHANGED <<needs, ledger, evidence, reviewed>>
      BY <1>4, <2>2 DEF RetryOrFail, stateVars, toolVars, contextVars
    <3>2. Stage' = Stage /\ Active' = Active
      BY <3>1 DEF Stage, Begun, Active
    <3>3. QED
      BY <3>1, <3>2
  <2>3. QED
    BY <2>1, <2>2
<1>5. CASE Running /\ EndCollectionTurn
  <2>1. CASE submitted = None
    BY <1>4, <1>5, <2>1 DEF EndCollectionTurn
  <2>2. CASE submitted # None
    <3>1. /\ phase = "collection" /\ Advance("checkpoint") /\ failure' = failure
          /\ UNCHANGED <<needs, ledger, evidence, reviewed>>
      BY <1>5, <2>2 DEF EndCollectionTurn, contextVars
    <3>2. phase' = "collection_qc"
      BY <3>1, AdvanceToReview
    <3>3. Stage' = Stage /\ Active' = Active
      BY <3>1, <3>2 DEF Stage, Begun, NotBegun, Active
    <3>4. QED
      BY <3>1, <3>3
  <2>3. QED
    BY <2>1, <2>2
<1>6. CASE Running /\ EndQCTurn
  <2>1. CASE verdict = None
    BY <1>4, <1>6, <2>1 DEF EndQCTurn
  <2>2. CASE verdict # None
    <3>1. Contract!Review(Active \ Active')
      BY <1>6, <2>2, ApplyVerdictContract DEF Running, EndQCTurn
    <3>2. Active \ Active' \in SUBSET Need
      BY DEF Active, IInv, TypeOK
    <3>3. QED
      BY <3>1, <3>2 DEF Contract!Next
  <2>3. QED
    BY <2>1, <2>2
<1>7. CASE Running /\ SessionFails
  BY <1>3, <1>7 DEF SessionFails, Contract!Next
<1>8. CASE UNCHANGED vars
  <2>1. UNCHANGED <<phase, failure, needs, ledger, evidence, reviewed>>
    BY <1>8 DEF vars, stateVars, toolVars, contextVars
  <2>2. Stage' = Stage /\ Active' = Active
    BY <2>1 DEF Stage, Begun, Active
  <2>3. QED
    BY <2>1, <2>2
<1>9. QED
  BY <1>1, <1>2, <1>5, <1>6, <1>7, <1>8 DEF Next

(* With any number of calls, needs and rounds, the rounds implement the    *)
(* contract the rest of the workflow relies on.                            *)
THEOREM CollectionKeepsContract == Spec => ImplementsContract
<1>1. Init => Contract!Init
  <2>1. SUFFICES ASSUME Init PROVE Contract!Init
    OBVIOUS
  <2>2. phase = NotBegun /\ failure = "none"
    BY <2>1 DEF Init, NothingCollected, StateInit
  <2>3. needs = {} /\ evidence = {} /\ reviewed = {}
    BY <2>1 DEF Init, NothingCollected
  <2>4. Stage = "waiting"
    BY <2>2 DEF Stage, Begun, NotBegun
  <2>5. Active = {}
    BY <2>3 DEF Active
  <2>6. QED
    BY <2>3, <2>4, <2>5 DEF Contract!Init
<1>2. IInv /\ [Next]_vars => [Contract!Next]_Contract!vars
  BY ContractStep
<1>3. QED
  BY <1>1, <1>2, AlwaysIInv, PTL DEF Spec, ImplementsContract, Contract!Spec

--------------------------------------------------------------------------------
(* Only a plan being frozen and a verdict touch the ledger.                *)
LEMMA LedgerStep ==
  ASSUME IInv, [Next]_vars
  PROVE  /\ needs # {} => needs' = needs
         /\ \A n \in Need :
              /\ ledger[n].outcome # Open => ledger'[n] = ledger[n]
              /\ ledger[n].assessed => ledger'[n].unsatisfied \subseteq ledger[n].unsatisfied
<1>1. CASE Running /\ Start
  BY <1>1 DEF Start, toolVars, contextVars
<1>2. CASE Running /\ ToolStep /\ UNCHANGED <<handoff, outcomes, attempt, failure>>
  BY <1>2, ToolStepContract DEF Running, Elsewhere
<1>3. CASE Running /\ EndCollectionTurn
  BY <1>3 DEF EndCollectionTurn, RetryOrFail, Fail, SpendAttempt, toolVars, contextVars
<1>4. CASE Running /\ EndQCTurn
  <2>1. CASE verdict = None
    BY <1>4, <2>1 DEF EndQCTurn, RetryOrFail, Fail, SpendAttempt, toolVars, contextVars
  <2>2. CASE verdict # None
    <3>1. phase = "collection_qc" /\ ApplyVerdict
      BY <1>4, <2>2 DEF EndQCTurn
    <3>2. PICK next \in [Need -> LedgerEntries] :
            /\ ledger' = next
            /\ \A n \in Need : n \notin Active => next[n] = ledger[n]
            /\ \A n \in Active :
                 next[n].unsatisfied \in {ledger[n].unsatisfied, verdict[n].unsatisfied}
            /\ UNCHANGED needs
      BY <2>2, <3>1, ApplyVerdictStep
    <3>3. Acceptable(verdict, lastRoundHadArtifacts)
      BY <2>2 DEF IInv, VerdictInv
    <3>4. ASSUME NEW n \in Need
          PROVE  /\ ledger[n].outcome # Open => ledger'[n] = ledger[n]
                 /\ ledger[n].assessed =>
                      ledger'[n].unsatisfied \subseteq ledger[n].unsatisfied
      <4>1. CASE n \in Active
        BY <3>2, <3>3, <4>1 DEF Active, Acceptable
      <4>2. CASE n \notin Active
        BY <3>2, <4>2
      <4>3. QED
        BY <4>1, <4>2
    <3>5. QED
      BY <3>2, <3>4
  <2>3. QED
    BY <2>1, <2>2
<1>5. CASE Running /\ SessionFails
  BY <1>5 DEF SessionFails, Fail, toolVars, contextVars
<1>6. CASE UNCHANGED vars
  BY <1>6 DEF vars, toolVars, contextVars
<1>7. QED
  BY <1>1, <1>2, <1>3, <1>4, <1>5, <1>6 DEF Next

(* What was decided about a need is final, in every step, and a later      *)
(* verdict never leaves more of it unsatisfied than an earlier one did.    *)
THEOREM LedgerAdvances == Spec => LedgerOnlyAdvances
<1>1. IInv /\ [Next]_vars =>
        [/\ needs # {} => needs' = needs
         /\ \A n \in Need :
              /\ ledger[n].outcome # Open => ledger'[n] = ledger[n]
              /\ ledger[n].assessed =>
                   ledger'[n].unsatisfied \subseteq ledger[n].unsatisfied]_vars
  BY LedgerStep
<1>2. QED
  BY <1>1, AlwaysIInv, PTL DEF Spec, LedgerOnlyAdvances

--------------------------------------------------------------------------------
(* A round closes exactly when one checkpoint was accepted, and that one   *)
(* is in the recorder or in the hands of the one call that will record it. *)
THEOREM CheckpointIsRecordedOnce == Spec => []AcceptedIsRecorded
<1>1. ASSUME IInv PROVE AcceptedIsRecorded
  <2> DEFINE recording == {c \in Call : At(c, "accepted")}
  <2>1. ASSUME phase = "collection" PROVE Cardinality(recording) <= 1
    <3>1. CASE recording = {}
      BY <3>1, FS_EmptySet
    <3>2. CASE recording # {}
      <4>1. PICK c : c \in recording
        BY <3>2
      <4>2. \A d \in recording : d = c
        BY <1>1, <2>1, <4>1 DEF IInv, CheckpointInv
      <4>3. recording = {c}
        BY <4>1, <4>2
      <4> HIDE DEF recording
      <4>4. Cardinality({c}) = 1
        BY FS_Singleton
      <4>5. QED
        BY <4>3, <4>4
    <3>3. QED
      BY <3>1, <3>2
  <2>2. ASSUME phase = "collection"
        PROVE  /\ checkpointAccepted <=> (submitted # None \/ recording # {})
               /\ submitted # None => recording = {}
    BY <1>1, <2>2 DEF IInv, CheckpointInv
  <2>3. QED
    BY <2>1, <2>2 DEF AcceptedIsRecorded
<1>2. QED
  BY <1>1, AlwaysIInv, PTL

--------------------------------------------------------------------------------
(* Stalls.  The streak in the ledger never runs ahead of the idle reviews  *)
(* in a row: it may start again where they go on, never the other way.     *)
StallInv ==
  /\ idleReviews \in [Need -> Nat]
  /\ \A n \in Need :
       /\ ledger[n].outcome = Open => ledger[n].streak <= idleReviews[n]
       /\ ledger[n].outcome = "search_stalled" => idleReviews[n] >= 2

(* One assessment against one count of idle reviews.                       *)
LEMMA StreakWithinIdle ==
  ASSUME NEW entry \in LedgerEntries, entry.outcome = Open,
         NEW assessment \in Assessments, NEW disposition,
         NEW count \in Nat, entry.streak <= count
  PROVE  LET after == Assess(entry, assessment, disposition)
             now   == IF disposition = "stalled" /\ assessment.unsatisfied # {} /\ ~assessment.material
                      THEN count + 1 ELSE 0
         IN  /\ after.outcome = Open => after.streak <= now
             /\ after.outcome = "search_stalled" => now >= 2
<1> DEFINE left   == assessment.unsatisfied
           shrank == entry.assessed /\ Cardinality(left) < Cardinality(entry.unsatisfied)
           idle   == disposition = "stalled" /\ ~assessment.material /\ ~shrank
           streak == Streak(entry, idle)
           after  == Assess(entry, assessment, disposition)
           now    == IF disposition = "stalled" /\ left # {} /\ ~assessment.material
                     THEN count + 1 ELSE 0
<1>1. after = IF left = {} THEN [entry EXCEPT !.outcome = "satisfied"]
              ELSE [unsatisfied |-> left, assessed |-> TRUE, streak |-> streak,
                    outcome |-> IF streak >= 2 THEN "search_stalled" ELSE Open]
  BY DEF Assess
<1>2. left # {} => streak \in Nat /\ streak <= now
  <2>1. entry.streak \in Nat
    BY DEF LedgerEntries
  <2>2. CASE idle
    <3>1. streak = entry.streak + 1
      BY <2>2 DEF Streak
    <3>2. left # {} => now = count + 1
      BY <2>2
    <3> HIDE DEF streak, now, left
    <3>3. QED
      BY <2>1, <3>1, <3>2
  <2>3. CASE ~idle
    <3>1. streak = 0
      BY <2>3 DEF Streak
    <3>2. now \in Nat
      OBVIOUS
    <3> HIDE DEF streak, now, left
    <3>3. QED
      BY <3>1, <3>2
  <2>4. QED
    BY <2>2, <2>3
<1>3. now \in Nat
  OBVIOUS
<1> HIDE DEF left, streak, now
<1>4. CASE left = {}
  <2>1. after = [entry EXCEPT !.outcome = "satisfied"]
    BY <1>1, <1>4
  <2>2. after.outcome = "satisfied"
    BY <2>1 DEF LedgerEntries
  <2>3. QED
    BY <2>2 DEF Open, now, left
<1>5. CASE left # {}
  <2>1. after.outcome = (IF streak >= 2 THEN "search_stalled" ELSE Open) /\ after.streak = streak
    BY <1>1, <1>5
  <2> HIDE DEF after
  <2>2. /\ after.outcome = Open => after.streak <= now
        /\ after.outcome = "search_stalled" => now >= 2
    BY <1>2, <1>3, <1>5, <2>1 DEF Open
  <2>3. QED
    BY <2>2 DEF now, left, after
<1>6. QED
  BY <1>4, <1>5

LEMMA VerdictKeepsStalls ==
  ASSUME IInv, StallInv, failure = "none", phase = "collection_qc", verdict # None, ApplyVerdict,
         idleReviews' = [n \in Need |-> IF ~Applied \/ n \notin Active THEN idleReviews[n]
                                        ELSE IF Idle(n) THEN idleReviews[n] + 1 ELSE 0]
  PROVE  StallInv'
<1>1. /\ ledger' = Assessed(verdict, handoff.dispositions, CollectionLimitExhausted)
      /\ Applied /\ ledger \in [Need -> LedgerEntries] /\ verdict \in Verdicts
  BY ApplyVerdictStep DEF Applied, IInv, TypeOK, LedgerEntries, VerdictInv
<1>2. idleReviews' \in [Need -> Nat]
  BY DEF StallInv
<1>3. ASSUME NEW n \in Need
      PROVE  /\ ledger'[n].outcome = Open => ledger'[n].streak <= idleReviews'[n]
             /\ ledger'[n].outcome = "search_stalled" => idleReviews'[n] >= 2
  <2>1. CASE n \notin Active
    <3>1. ledger'[n] = ledger[n] /\ idleReviews'[n] = idleReviews[n]
      BY <1>1, <2>1 DEF Assessed
    <3>2. QED
      BY <3>1 DEF StallInv
  <2>2. CASE n \in Active
    <3>1. PICK e \in LedgerEntries, v \in Assessments, d \in {handoff.dispositions[n]}, k \in Nat :
            /\ e = ledger[n] /\ v = verdict[n] /\ d = handoff.dispositions[n] /\ k = idleReviews[n]
      BY <1>1, <2>2 DEF Verdicts, StallInv
    <3>2. e.outcome = Open /\ e.streak <= k
      BY <2>2, <3>1 DEF Active, StallInv
    <3> DEFINE after == Assess(e, v, d)
               now   == IF d = "stalled" /\ v.unsatisfied # {} /\ ~v.material THEN k + 1 ELSE 0
    <3>3. /\ after.outcome = Open => after.streak <= now
          /\ after.outcome = "search_stalled" => now >= 2
      BY <3>2, StreakWithinIdle
    <3>4. idleReviews'[n] = now
      BY <1>1, <2>2, <3>1 DEF Idle
    <3>5. ledger'[n] = IF CollectionLimitExhausted /\ after.outcome = Open
                       THEN [after EXCEPT !.outcome = "budget_exhausted"] ELSE after
      BY <1>1, <2>2, <3>1 DEF Assessed
    <3>6. after \in LedgerEntries
      <4>1. e.streak < 2
        BY <3>1, <3>2 DEF IInv, NeedInv
      <4>2. QED
        BY <3>2, <4>1, AssessResult
    <3> HIDE DEF after, now
    <3>7. ledger'[n].outcome \in {Open, "search_stalled"} => ledger'[n] = after
      <4>1. CASE CollectionLimitExhausted /\ after.outcome = Open
        <5>1. ledger'[n].outcome = "budget_exhausted"
          BY <3>5, <3>6, <4>1 DEF LedgerEntries
        <5>2. QED
          BY <5>1 DEF Open
      <4>2. CASE ~(CollectionLimitExhausted /\ after.outcome = Open)
        BY <3>5, <4>2
      <4>3. QED
        BY <4>1, <4>2
    <3>8. QED
      BY <3>3, <3>4, <3>7
  <2>3. QED
    BY <2>1, <2>2
<1>4. QED
  BY <1>2, <1>3 DEF StallInv

(* Any other step leaves the ledger alone and is no review.                *)
LEMMA NoReview ==
  ASSUME IInv, [Next]_vars, ~(failure = "none" /\ phase = "collection_qc" /\ verdict # None /\ ApplyVerdict)
  PROVE  ledger' = ledger /\ ~Applied
<1>1. CASE Running /\ Start
  BY <1>1 DEF Start, toolVars, contextVars, Applied
<1>2. CASE Running /\ ToolStep /\ UNCHANGED <<handoff, outcomes, attempt, failure>>
  <2>1. ledger' = ledger
    BY <1>2, ToolStepContract DEF Running, Elsewhere
  <2>2. verdict' = verdict \/ verdict = None
    BY <1>2 DEF ToolStep, SetInformationNeeds, BeginToolCall, PassGate, TurnAway, FinishAcquire,
       LoseHook, SaveWrite, SaveRegister, WriteMarkdown, SubmitCheckpoint, RecordCheckpoint,
       RegisterArtifact, SubmitVerdict
  <2>3. QED
    BY <2>1, <2>2 DEF Applied
<1>3. CASE Running /\ EndCollectionTurn
  BY <1>3 DEF EndCollectionTurn, RetryOrFail, Fail, SpendAttempt, toolVars, contextVars, Applied
<1>4. CASE Running /\ EndQCTurn
  BY <1>4 DEF EndQCTurn, Running, RetryOrFail, Fail, SpendAttempt, toolVars, contextVars, Applied
<1>5. CASE Running /\ SessionFails
  BY <1>5 DEF SessionFails, Fail, toolVars, contextVars, Applied
<1>6. CASE UNCHANGED vars
  BY <1>6 DEF vars, toolVars, contextVars, Applied
<1>7. QED
  BY <1>1, <1>2, <1>3, <1>4, <1>5, <1>6 DEF Next

(* A search is given up only after two idle reviews in a row, for any      *)
(* number of rounds, needs and conditions.                                 *)
THEOREM StallsAreEarned == HistorySpec => []StallIsEarned
<1>1. HistoryInit => IInv /\ StallInv
  <2> SUFFICES ASSUME HistoryInit PROVE StallInv
    BY InitIInv DEF HistoryInit
  <2>1. \A n \in Need : ledger[n].outcome = Open /\ ledger[n].streak = 0 /\ idleReviews[n] = 0
    BY DEF HistoryInit, Init, NothingCollected, Fresh
  <2>2. QED
    BY <2>1 DEF StallInv, HistoryInit, Open
<1>2. IInv /\ StallInv /\ [HistoryNext]_<<vars, idleReviews>> => IInv' /\ StallInv'
  <2> SUFFICES ASSUME IInv, StallInv, [HistoryNext]_<<vars, idleReviews>> PROVE StallInv'
    BY NextIInv DEF HistoryNext
  <2>1. CASE UNCHANGED <<vars, idleReviews>>
    BY <2>1 DEF StallInv, vars, toolVars, contextVars
  <2>2. CASE HistoryNext
    <3>1. Next /\ idleReviews' = [n \in Need |-> IF ~Applied \/ n \notin Active THEN idleReviews[n]
                                                 ELSE IF Idle(n) THEN idleReviews[n] + 1 ELSE 0]
      BY <2>2 DEF HistoryNext
    <3>2. CASE failure = "none" /\ phase = "collection_qc" /\ verdict # None /\ ApplyVerdict
      BY <3>1, <3>2, VerdictKeepsStalls
    <3>3. CASE ~(failure = "none" /\ phase = "collection_qc" /\ verdict # None /\ ApplyVerdict)
      <4>1. ledger' = ledger /\ ~Applied
        BY <3>1, <3>3, NoReview
      <4>2. idleReviews' = idleReviews
        BY <3>1, <4>1 DEF StallInv
      <4>3. QED
        BY <4>1, <4>2 DEF StallInv
    <3>4. QED
      BY <3>2, <3>3
  <2>3. QED
    BY <2>1, <2>2
<1>3. StallInv => StallIsEarned
  BY DEF StallInv, StallIsEarned
<1>4. QED
  BY <1>1, <1>2, <1>3, PTL DEF HistorySpec
--------------------------------------------------------------------------------
(* The block around the rounds (ResearchBlock): what each phase finds has   *)
(* been settled by the phases before it, and no later phase undoes it.      *)

EarlyPhases == {NotBegun, "collection", "collection_qc"}

Prepared == needs # {} /\ Active = {} /\ reviewed = evidence

BlockInv ==
  /\ Full /\ phase \in EarlyPhases => IInv
  /\ Full => phase \in EarlyPhases \cup ClosedPhases
  /\ Full /\ phase \in ClosedPhases => Prepared
  /\ Full /\ phase \in {"final_qc", "complete"} => rOutcome = "complete"
  /\ Full /\ phase = "complete" /\ qcEnabled => qOutcome = "pass"
  /\ committed => WorkflowRun
  /\ published # <<>> => committed /\ published = <<rResult>>

LEMMA BlockInitInv == BlockInit => BlockInv
<1> SUFFICES ASSUME BlockInit PROVE BlockInv
  OBVIOUS
<1>1. Init /\ committed = FALSE /\ published = <<>>
  BY DEF BlockInit
<1>2. phase = NotBegun
  BY <1>1 DEF Init, NothingCollected, StateInit
<1>3. IInv
  BY <1>1, InitIInv
<1> QED
  BY <1>1, <1>2, <1>3 DEF BlockInv, EarlyPhases, ClosedPhases, NotBegun

LEMMA CollectionStepKeeps ==
  ASSUME BlockInv, Running, CollectionStep
  PROVE  BlockInv'
<1>1. Full /\ phase \in EarlyPhases /\ Next /\ UNCHANGED <<researchVars, finalVars, blockVars>>
  BY DEF CollectionStep, Collecting, EarlyPhases
<1>2. IInv'
  BY <1>1, NextIInv DEF BlockInv
<1>3. phase' \in EarlyPhases \cup {"research"}
  BY <1>2 DEF IInv, CounterInv, EarlyPhases
<1>4. phase' = "research" => Prepared'
  BY <1>2 DEF IInv, NeedInv, CheckpointInv, RoundInv, Prepared, NotBegun
<1>5. ~committed /\ published = <<>>
  BY <1>1 DEF BlockInv, WorkflowRun, EarlyPhases, NotBegun
<1>6. UNCHANGED <<mode, qcEnabled, committed, published, rOutcome, rResult, qOutcome>>
  BY <1>1 DEF researchVars, finalVars, blockVars
<1> QED
  BY <1>1, <1>2, <1>3, <1>4, <1>5, <1>6
     DEF BlockInv, Full, EarlyPhases, ClosedPhases, NotBegun

(* A runner of a later phase changes nothing but its own state, and only   *)
(* before it has come to an end.                                           *)
LEMMA RunnerStepKeeps ==
  ASSUME BlockInv, Running, ResearchStep \/ FinalStep
  PROVE  BlockInv'
<1>1. UNCHANGED <<vars, mode, qcEnabled, committed, published>>
  BY DEF ResearchStep, FinalStep, blockVars
<1>2. UNCHANGED <<phase, needs, ledger, evidence, reviewed, failure>>
  BY <1>1 DEF vars, stateVars, toolVars, contextVars
<1>3. IInv => IInv'
  BY <1>1, NextIInv
<1>4. Prepared' <=> Prepared
  BY <1>2 DEF Prepared, Active
<1>5. CASE ResearchStep
  <2>1. rOutcome = "running" /\ qOutcome' = qOutcome /\ (Full => phase = "research")
    BY <1>5 DEF ResearchStep, Researching, finalVars
  <2>2. ~committed /\ published = <<>>
    BY <2>1 DEF BlockInv, WorkflowRun, Full
  <2> QED
    BY <1>1, <1>2, <1>3, <1>4, <2>1, <2>2
       DEF BlockInv, Full, EarlyPhases, ClosedPhases, NotBegun
<1>6. CASE FinalStep
  <2>1. /\ qOutcome = "reviewing" /\ rOutcome' = rOutcome /\ rResult' = rResult
        /\ IF Full THEN phase = "final_qc" ELSE qcEnabled
    BY <1>6 DEF FinalStep, Reviewing, researchVars
  <2>2. ~committed /\ published = <<>>
    BY <2>1 DEF BlockInv, WorkflowRun, Full
  <2> QED
    BY <1>1, <1>2, <1>3, <1>4, <2>1, <2>2
       DEF BlockInv, Full, EarlyPhases, ClosedPhases, NotBegun
<1> QED
  BY <1>5, <1>6

(* The coordinator moves on when a runner has come to an end.              *)
LEMMA RunnerDoneKeeps ==
  ASSUME BlockInv, Running, ResearchDone \/ FinalDone
  PROVE  BlockInv'
<1>1. UNCHANGED <<toolVars, rOutcome, rResult, qOutcome, mode, qcEnabled, committed, published>>
  BY DEF ResearchDone, FinalDone, researchVars, finalVars, blockVars
<1>2. UNCHANGED <<needs, ledger, evidence, reviewed>>
  BY <1>1 DEF toolVars, contextVars
<1>3. Prepared' <=> Prepared
  BY <1>2 DEF Prepared, Active
<1>4. Full => phase \in {"research", "final_qc"}
  BY DEF ResearchDone, FinalDone, Researching, Reviewing
<1>5. Full => ~committed /\ published = <<>>
  BY <1>4 DEF BlockInv, WorkflowRun
<1>6. CASE phase' = phase
  BY <1>1, <1>3, <1>4, <1>5, <1>6
     DEF BlockInv, WorkflowRun, Full, EarlyPhases, ClosedPhases, NotBegun
<1>7. CASE phase' # phase
  <2>1. Full /\ \/ ResearchDone /\ rOutcome = "complete"
                   /\ Advance(IF qcEnabled THEN "research_complete"
                                           ELSE "research_complete_without_qc")
                \/ FinalDone /\ qOutcome = "pass" /\ Advance("pass")
    BY <1>7 DEF ResearchDone, FinalDone, stateVars
  <2>2. phase' \in {"final_qc", "complete"}
    BY <2>1 DEF Advance, Edges
  <2>3. rOutcome = "complete"
    BY <1>4, <2>1 DEF BlockInv, FinalDone, Reviewing
  <2>4. phase' = "complete" /\ qcEnabled => qOutcome = "pass"
    <3>1. CASE Advance("research_complete") /\ phase = "research"
      <4>1. phase' = "final_qc"
        BY <3>1 DEF Advance, Edges
      <4> QED
        BY <4>1
    <3>2. CASE ~qcEnabled \/ qOutcome = "pass"
      BY <3>2
    <3> QED
      BY <2>1, <3>1, <3>2 DEF ResearchDone, Researching
  <2>5. Prepared'
    BY <1>3, <1>4, <2>1 DEF BlockInv, ClosedPhases
  <2> QED
    BY <1>1, <1>5, <2>1, <2>2, <2>3, <2>4, <2>5
       DEF BlockInv, Full, EarlyPhases, ClosedPhases, NotBegun
<1> QED
  BY <1>6, <1>7

LEMMA UnitStepKeeps ==
  ASSUME BlockInv, Running, CompleteUnit \/ Publish
  PROVE  BlockInv'
<1>1. /\ UNCHANGED <<stateVars, toolVars, rOutcome, rResult, qOutcome, mode, qcEnabled>>
      /\ WorkflowRun
  BY DEF CompleteUnit, Publish, vars, researchVars, finalVars, BlockInv
<1>2. UNCHANGED <<phase, needs, ledger, evidence, reviewed>>
  BY <1>1 DEF stateVars, toolVars, contextVars
<1>3. Prepared' <=> Prepared
  BY <1>2 DEF Prepared, Active
<1>4. WorkflowRun'
  BY <1>1, <1>2 DEF WorkflowRun, Full
<1>5. Full => phase = "complete"
  BY <1>1 DEF WorkflowRun
<1>6. published' # <<>> => committed' /\ published' = <<rResult'>>
  BY <1>1 DEF BlockInv, CompleteUnit, Publish
<1> QED
  BY <1>1, <1>2, <1>3, <1>4, <1>5, <1>6
     DEF BlockInv, Full, EarlyPhases, ClosedPhases, NotBegun

LEMMA BlockStep == BlockInv /\ [BlockNext]_allVars => BlockInv'
<1> SUFFICES ASSUME BlockInv, [BlockNext]_allVars PROVE BlockInv'
  OBVIOUS
<1>1. CASE UNCHANGED allVars
  <2>1. /\ UNCHANGED <<phase, needs, ledger, evidence, reviewed>>
        /\ UNCHANGED <<rOutcome, rResult, qOutcome, mode, qcEnabled, committed, published>>
        /\ UNCHANGED vars
    BY <1>1 DEF allVars, vars, stateVars, toolVars, contextVars, researchVars, finalVars, blockVars
  <2>2. IInv => IInv'
    BY <2>1, NextIInv
  <2>3. Prepared' <=> Prepared
    BY <2>1 DEF Prepared, Active
  <2> QED
    BY <2>1, <2>2, <2>3 DEF BlockInv, WorkflowRun, Full
<1>2. CASE BlockNext
  BY <1>1, <1>2, CollectionStepKeeps, RunnerStepKeeps, RunnerDoneKeeps, UnitStepKeeps
     DEF BlockNext
<1> QED
  BY <1>1, <1>2

(* Whatever the sessions do and wherever the block fails, a result that     *)
(* dependents can read is one the whole workflow confirmed (coordinator.go  *)
(* Run, runtime.go researchApplyBlock.Apply).                               *)
THEOREM BlockPublishesConfirmed == BlockSpec => []PublishedIsConfirmed
<1>1. BlockInv => PublishedIsConfirmed
  BY DEF BlockInv, PublishedIsConfirmed, WorkflowRun, Prepared, ClosedPhases
<1>2. QED
  BY <1>1, BlockInitInv, BlockStep, PTL DEF BlockSpec
================================================================================
