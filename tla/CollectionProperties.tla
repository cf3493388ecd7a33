-------------------------- MODULE CollectionProperties --------------------------
(* What the Collection rounds promise the rest of the workflow.            *)
EXTENDS CollectionRounds

(* The values the state of a round ranges over.                            *)
TypeOK ==
  /\ StateTypeOK
  /\ needs \subseteq Need
  /\ ledger \in [Need -> [unsatisfied : SUBSET Condition, assessed : BOOLEAN, streak : 0..2,
                          outcome : {Open, "satisfied", "search_stalled", "budget_exhausted"}]]
  /\ reviewed \subseteq checkpointed /\ checkpointed \subseteq evidence
  /\ evidence \subseteq material /\ material \subseteq Artifact
  /\ checkpointAccepted \in BOOLEAN /\ lastRoundHadArtifacts \in BOOLEAN
  /\ activeToolCalls \in Nat /\ lost \in 0..MaxLostHooks
  /\ call \in [Call -> Leases \cup Recordings \cup {None}]
  /\ submitted \in Checkpoints \cup {None}
  /\ handoff \in Checkpoints \cup {None}
  /\ verdict = None \/ verdict \in UNION {[ns -> Assessments] : ns \in SUBSET Need}
  /\ attempt \in 0..MaxProtocolAttempts
  /\ failure \in {"none", "protocol_exhausted", "verdict_refused", "session"}

(* The counter behind the acquisition gate lives in workflow.State under   *)
(* one lock, the evidence it counts in collection.Context under another:   *)
(* whatever registrations and checkpoints interleave, they agree, and the  *)
(* gate is down exactly when a full batch is waiting.                      *)
UnreviewedMatchesEvidence ==
  /\ unreviewedCount = Cardinality(evidence \ checkpointed)
  /\ checkpointPending <=> unreviewedCount >= BatchSize

(* An accepted checkpoint is the last word of a round: no tool call still  *)
(* holds a lease, so none can add evidence the checkpoint did not list.    *)
QuietAfterCheckpoint ==
  checkpointAccepted =>
    /\ evidence = checkpointed
    /\ \A c \in Call : call[c] # None => call[c].step = "accepted"

(* Every accepted checkpoint reaches the runner: in Collection the round   *)
(* is closed exactly when its checkpoint is recorded or about to be, and   *)
(* never twice.                                                            *)
AcceptedIsRecorded ==
  phase = "collection" =>
    LET recording == {c \in Call : At(c, "accepted")}
    IN  /\ checkpointAccepted <=> (submitted # None \/ recording # {})
        /\ submitted # None => recording = {}
        /\ Cardinality(recording) <= 1

(* A verdict accepted by the tool is never refused when the runner applies *)
(* it, after the turn: the checks agree, the ledger did not move, and the  *)
(* round budget never vetoes the verdict's transition.                     *)
VerdictAlwaysApplies == failure # "verdict_refused"

(* Research starts from reviewed evidence only: each artifact that was     *)
(* ever registered was in some checkpoint and under some applied verdict.  *)
ResearchSeesReviewedEvidence == phase = "research" => reviewed = evidence

(* Research starts with every need decided, and what it is told about them *)
(* is what the ledger says.                                                *)
ResearchSeesDecidedNeeds ==
  phase = "research" =>
    /\ needs # {}
    /\ outcomes = {<<n, ledger[n].outcome>> : n \in needs}
    /\ Active = {}

(* No round is opened with nothing left to search for.                     *)
RoundHasWork == phase = "collection" /\ needs # {} => Active # {}

(* A need is written off for want of budget only when every round of it    *)
(* has been entered and reviewed (the cursor counts verdicts): the runner  *)
(* never gives up a round it could still open.                             *)
BudgetIsUsedUp ==
  (\E n \in needs : ledger[n].outcome = "budget_exhausted") =>
    cursor = MaxCollectionRounds

(* The leases out are those of the calls in flight, plus the lost ones:    *)
(* neither a double release nor a leak in any handler's paths.             *)
LeasesAreAccounted ==
  activeToolCalls =
    lost + Cardinality({c \in Call : call[c] # None /\ call[c].step # "accepted"})

(* The plan and what was decided about it are permanent, and a verdict can *)
(* only shrink what an earlier one left unsatisfied.                       *)
LedgerOnlyAdvances ==
  [][/\ needs # {} => needs' = needs
     /\ \A n \in Need :
          /\ ledger[n].outcome # Open => ledger'[n] = ledger[n]
          /\ ledger[n].assessed => ledger'[n].unsatisfied \subseteq ledger[n].unsatisfied]_vars

(* The rounds implement CollectionContract: all the tools, turns, locks    *)
(* and counters amount to reviews that cover everything gathered before.   *)
Stage ==
  CASE failure # "none"                        -> "failed"
    [] failure = "none" /\ ~Begun              -> "waiting"
    [] failure = "none" /\ phase \in {"collection", "collection_qc"} -> "collecting"
    [] OTHER                                   -> "closed"

Contract == INSTANCE CollectionContract
  WITH stage <- Stage, plan <- needs, open <- Active, gathered <- evidence

ImplementsContract == Contract!Spec

(* However the session behaves within its turns, the rounds come to an     *)
(* end: Research begins or the block has failed.                           *)
Termination == <>Over

(* A round that lost a lease can never be checkpointed: with no other      *)
(* failure it uses up its protocol attempts.                               *)
LostLeaseEndsTheBlock == lost > 0 /\ phase = "collection" ~> failure # "none"
================================================================================
