-------------------------------- MODULE MCRecords --------------------------------
(***************************************************************************)
(* What a run records, in one run of five parts checked side by side:      *)
(*                                                                         *)
(*   ledger    the needs of a block, of two conditions each, over four     *)
(*             rounds (a need can stall, shrink or outlast the budget)     *)
(*   unit      two files, two results, four commits: a unit can begin, be  *)
(*             interrupted and begin again twice before it completes       *)
(*   evidence  two files, one of them a retained result, and one restart   *)
(*   project   two sources whose plans have different shapes               *)
(*   progress  one static block and a dynamic one with two tasks, three    *)
(*             pending records                                             *)
(***************************************************************************)
EXTENDS CollectionProperties, StallHistory, UnitCheckpointState, EvidenceState,
        ProjectState, ProgressState

CONSTANTS a, b, a1, c1, d, f1, f2, i1, i2, n1, n2, s1, s2, t1, t2, v1, v2

MCSource == {a, b}
MCShapeOf == [s \in MCSource |-> s]

VARIABLE part

ledgerVars == <<vars, idleReviews>>
evidenceVars ==
  <<report, spelling, entries, paths, children, nextId, retained, content, registering, searching, quotes,
    authorized, knowledge, patching, stage, saved, crashes>>
projectVars ==
  <<transaction, modules, config, state, sourceOf, init, uncleaned, runs, newest, planFile,
    apply, inits, made, applies, faults>>
progressVars ==
  <<nodes, announced, log, recorderOpen, derived, priority, upserts, timelines, writing,
    started, closed, finished, stopped, subscribed, command, view, dropped, ended>>

Recovery == INSTANCE UnitCheckpoint
Artifacts == INSTANCE Evidence
Files == INSTANCE Project
Stream == INSTANCE Progress

PartsInit ==
  /\ part \in {"ledger", "unit", "evidence", "project", "progress"}
  /\ HistoryInit /\ Recovery!Init /\ Artifacts!Init /\ Files!Init /\ Stream!Init
  /\ part # "unit" => preUnit = {}
  /\ part # "evidence" \/ report = Dir => report = Dir /\ spelling = "real"

PartsNext ==
  /\ UNCHANGED part
  /\ \/ /\ part = "ledger" /\ HistoryNext
        /\ UNCHANGED <<unitVars, evidenceVars, projectVars, progressVars>>
     \/ /\ part = "unit" /\ Recovery!Next
        /\ UNCHANGED <<ledgerVars, evidenceVars, projectVars, progressVars>>
     \/ /\ part = "evidence" /\ Artifacts!Next
        /\ UNCHANGED <<ledgerVars, unitVars, projectVars, progressVars>>
     \/ /\ part = "project" /\ Files!Next
        /\ UNCHANGED <<ledgerVars, unitVars, evidenceVars, progressVars>>
     \/ /\ part = "progress" /\ Stream!Next
        /\ UNCHANGED <<ledgerVars, unitVars, evidenceVars, projectVars>>

PartsSpec ==
  /\ PartsInit
  /\ [][PartsNext]_<<part, ledgerVars, unitVars, evidenceVars, projectVars, progressVars>>
================================================================================
