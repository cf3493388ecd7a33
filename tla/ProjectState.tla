----------------------------- MODULE ProjectState ------------------------------
(* The parameters and the state of Project, and what opens. *)
EXTENDS Naturals

CONSTANTS
  Source,       (* configuration sources given to r42 init                   *)
  Shape,        (* shapes of a plan: addresses, kinds, dependencies, schemas *)
  ShapeOf,      (* Source -> Shape: the plan a source's configuration makes  *)
  MaxInits,     (* bound: init commands                                      *)
  MaxRuns,      (* bound: run directories                                    *)
  MaxApplies,   (* bound: plan and apply commands                            *)
  MaxFaults     (* bound: failed file operations and killed commands         *)

ASSUME ProjectAssumption ==
  /\ ShapeOf \in [Source -> Shape]
  /\ MaxInits \in Nat /\ MaxRuns \in Nat /\ MaxApplies \in Nat /\ MaxFaults \in Nat

VARIABLES
  transaction,   \* the .initializing marker exists
  modules,       \* the init whose modules are installed
  config,        \* the init whose configuration and marker are active
  state,         \* state.json: the init it describes and the saved outputs
  sourceOf,      \* the source each init was given
  init,          \* the running init command
  uncleaned,     \* the last completed step of an init left its modules beside
                 \* another configuration: only the backup could not be removed
  runs,          \* run directories: saved plan and checkpoints
  newest,        \* the run with the newest "latest" pointer
  planFile,      \* the plan written by r42 plan --out
  apply,         \* the running apply command
  inits, made, applies, faults      \* counters (model bounds)

Missing == 0

RunId == 1..MaxRuns

\* What the compatibility of a resume compares of a plan.
ShapeOfPlan(p) == ShapeOf[sourceOf[p.config]]

\* openProject: no transaction, a marker and a state that agree, and modules.
Openable ==
  /\ ~transaction
  /\ config # Missing /\ state.of = config
  /\ modules # Missing

(* A project that opens, its configuration and its state being of one      *)
(* init, has the modules of that init as well, whatever failed or was      *)
(* killed before, unless an init was stopped by nothing but the removal of *)
(* its modules backup (project.go Init and openProject).                   *)
OpenReadsOneInit ==
  Openable => modules = config \/ uncleaned

(* A run that a parameterless resume can choose and load only holds        *)
(* checkpoints of plans compatible with the plan that is saved in it       *)
(* (command.go validateResumeCompatibility, runtime.go Engine.apply).      *)
CheckpointsFitThePlan ==
  \A r \in RunId : runs[r].checkpoints # {} /\ ~runs[r].torn =>
    runs[r].checkpoints = {ShapeOfPlan(runs[r].plan)}
================================================================================
