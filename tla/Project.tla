-------------------------------- MODULE Project --------------------------------
(***************************************************************************)
(* The project directory .r42 (internal/project, internal/module,          *)
(* internal/run and the commands of internal/cli/command.go).              *)
(*                                                                         *)
(* One r42 init and one r42 plan or apply may run at a time, beside each   *)
(* other: nothing locks the directory.  Init replaces the modules, then    *)
(* the configuration, then state.json, one rename at a time between        *)
(* writing and removing the transaction marker; any file operation may     *)
(* fail and either command may be killed between two of them.  The number  *)
(* of an init stands for its source key and its time, so the contents of a *)
(* directory are the number of the init that wrote it, 0 when missing.     *)
(***************************************************************************)
EXTENDS ProjectState, FiniteSets

disk == <<transaction, modules, config, state, uncleaned>>
initVars == <<transaction, modules, config, sourceOf, init, uncleaned, inits>>
applyVars == <<runs, newest, planFile, apply, made, applies>>
vars == <<transaction, modules, config, state, sourceOf, init, uncleaned, runs, newest, planFile,
          apply, inits, made, applies, faults>>

InitId == 1..MaxInits
NoState == [of |-> Missing, outputs |-> Missing]
NoPlan == [config |-> Missing, modules |-> Missing]
NoInit == [at |-> "none", id |-> Missing, interrupted |-> FALSE, backup |-> Missing]
NoApply == [at |-> "none", run |-> 0, plan |-> NoPlan, resume |-> FALSE, read |-> NoState]

Init ==
  /\ transaction = FALSE /\ modules = Missing /\ config = Missing /\ state = NoState
  /\ sourceOf = [i \in InitId |-> CHOOSE s \in Source : TRUE]
  /\ init = NoInit /\ uncleaned = FALSE
  /\ runs = [r \in RunId |-> [plan |-> NoPlan, torn |-> FALSE, checkpoints |-> {}]]
  /\ newest = 0 /\ planFile = [plan |-> NoPlan, run |-> 0] /\ apply = NoApply
  /\ inits = 0 /\ made = 0 /\ applies = 0 /\ faults = 0

Fault == faults < MaxFaults /\ faults' = faults + 1
InitAt(step) == init.at = step
InitGoes(step) == init' = [init EXCEPT !.at = step]
InitEnds == init' = NoInit

----------------------------------------------------------------------------
(* r42 init.                                                               *)

\* The transaction marker is read, then written; the source is resolved.
BeginInit(s) ==
  /\ InitAt("none") /\ inits < MaxInits
  /\ inits' = inits + 1
  /\ sourceOf' = [sourceOf EXCEPT ![inits + 1] = s]
  /\ init' = [NoInit EXCEPT !.at = "modules", !.id = inits + 1, !.interrupted = transaction]
  /\ transaction' = TRUE
  /\ UNCHANGED <<modules, config, state, uncleaned, faults>> /\ UNCHANGED applyVars

\* module.Init failed: the marker is removed unless an earlier init left it.
\* Mutant: the marker is removed after every module failure.
ModulesFailedAnyway(left) ==
  /\ transaction' = FALSE /\ InitEnds /\ uncleaned' = (uncleaned \/ left)
ModulesFailed(left) ==
  /\ InitEnds
  /\ transaction' = init.interrupted
  /\ uncleaned' = (uncleaned \/ (left /\ ~init.interrupted))

\* The modules are copied or fetched into a staging directory: `r42 init` has no
\* upgrade flag and always refreshes all of them (internal/cli/command.go:149
\* passes upgrade = true), so module.Init never installs in place.
StageModules ==
  /\ InitAt("modules")
  /\ \/ /\ InitGoes(IF modules = Missing THEN "activate modules" ELSE "back up modules")
        /\ UNCHANGED <<transaction, uncleaned, faults>>
     \/ Fault /\ ModulesFailed(FALSE)
  /\ UNCHANGED <<modules, config, state, sourceOf, inits>> /\ UNCHANGED applyVars

\* replaceDirectory: the installed directory is renamed to a backup.
BackUpModules ==
  /\ InitAt("back up modules")
  /\ \/ /\ modules' = Missing
        /\ init' = [init EXCEPT !.at = "swap modules", !.backup = modules]
        /\ UNCHANGED <<transaction, uncleaned, faults>>
     \/ Fault /\ ModulesFailed(FALSE) /\ UNCHANGED modules
  /\ UNCHANGED <<config, state, sourceOf, inits>> /\ UNCHANGED applyVars

\* The staging directory is renamed into place; when that fails the backup is
\* renamed back, which may fail as well.
SwapModules ==
  /\ InitAt("swap modules")
  /\ \/ /\ modules' = init.id /\ InitGoes("drop backup") /\ UNCHANGED <<transaction, uncleaned, faults>>
     \/ Fault /\ ModulesFailed(FALSE) /\ modules' \in {init.backup, Missing}
  /\ UNCHANGED <<config, state, sourceOf, inits>> /\ UNCHANGED applyVars

\* The backup is removed: a failure is an error of Init, although the new
\* modules are in place.
DropModulesBackup ==
  /\ InitAt("drop backup")
  /\ \/ InitGoes("config") /\ UNCHANGED <<transaction, uncleaned, faults>>
     \/ Fault /\ ModulesFailed(TRUE)
  /\ UNCHANGED <<modules, config, state, sourceOf, inits>> /\ UNCHANGED applyVars

\* The first installation is one rename.
ActivateModules ==
  /\ InitAt("activate modules")
  /\ \/ modules' = init.id /\ InitGoes("config") /\ UNCHANGED <<transaction, uncleaned, faults>>
     \/ Fault /\ ModulesFailed(FALSE) /\ UNCHANGED modules
  /\ UNCHANGED <<config, state, sourceOf, inits>> /\ UNCHANGED applyVars

\* The source is copied and the marker written, in a staging directory.  From
\* here on every failure returns with the transaction marker left behind.
StageConfig ==
  /\ InitAt("config")
  /\ \/ InitGoes(IF config = Missing THEN "activate config" ELSE "back up config")
        /\ UNCHANGED faults
     \/ Fault /\ InitEnds
  /\ UNCHANGED <<disk, sourceOf, inits>> /\ UNCHANGED applyVars

BackUpConfig ==
  /\ InitAt("back up config")
  /\ \/ /\ config' = Missing
        /\ init' = [init EXCEPT !.at = "swap config", !.backup = config]
        /\ UNCHANGED faults
     \/ Fault /\ InitEnds /\ UNCHANGED config
  /\ UNCHANGED <<transaction, modules, state, sourceOf, uncleaned, inits>> /\ UNCHANGED applyVars

SwapConfig ==
  /\ InitAt("swap config")
  /\ \/ config' = init.id /\ InitGoes("drop config backup") /\ UNCHANGED faults
     \/ Fault /\ InitEnds /\ config' \in {init.backup, Missing}
  /\ UNCHANGED <<transaction, modules, state, sourceOf, uncleaned, inits>> /\ UNCHANGED applyVars

DropConfigBackup ==
  /\ InitAt("drop config backup")
  /\ \/ InitGoes("state") /\ UNCHANGED faults
     \/ Fault /\ InitEnds
  /\ UNCHANGED <<disk, sourceOf, inits>> /\ UNCHANGED applyVars

ActivateConfig ==
  /\ InitAt("activate config")
  /\ \/ config' = init.id /\ InitGoes("state") /\ UNCHANGED faults
     \/ Fault /\ InitEnds /\ UNCHANGED config
  /\ UNCHANGED <<transaction, modules, state, sourceOf, uncleaned, inits>> /\ UNCHANGED applyVars

\* state.json is replaced by one rename: this init, and no outputs.
WriteInitState ==
  /\ InitAt("state")
  /\ \/ state' = [of |-> init.id, outputs |-> Missing] /\ InitGoes("complete") /\ UNCHANGED faults
     \/ Fault /\ InitEnds /\ UNCHANGED state
  /\ UNCHANGED <<transaction, modules, config, sourceOf, uncleaned, inits>> /\ UNCHANGED applyVars

CompleteInit ==
  /\ InitAt("complete")
  /\ InitEnds
  /\ \/ transaction' = FALSE /\ uncleaned' = FALSE /\ UNCHANGED faults
     \/ Fault /\ UNCHANGED <<transaction, uncleaned>>
  /\ UNCHANGED <<modules, config, state, sourceOf, inits>> /\ UNCHANGED applyVars

KillInit ==
  /\ ~InitAt("none") /\ Fault /\ InitEnds
  /\ UNCHANGED <<disk, sourceOf, inits>> /\ UNCHANGED applyVars

----------------------------------------------------------------------------
(* Open, and r42 plan and apply.                                           *)

ApplyAt(step) == apply.at = step
ApplyGoes(step) == apply' = [apply EXCEPT !.at = step]
ApplyEnds == apply' = NoApply
initUnchanged == UNCHANGED <<transaction, modules, config, sourceOf, init, uncleaned, inits>>

\* A command opens the project, then reads it: init may have changed it since.
Open(then, resume) ==
  /\ ApplyAt("none") /\ applies < MaxApplies
  /\ Openable
  /\ applies' = applies + 1
  /\ apply' = [NoApply EXCEPT !.at = then, !.resume = resume]
  /\ UNCHANGED <<runs, newest, planFile, made, state, faults>> /\ initUnchanged

BeginPlan == Open("write plan", FALSE)
BeginApply == Open("plan", FALSE)
BeginResume == Open("choose run", TRUE)
BeginSavedApply(resume) == planFile.run # 0 /\ Open("load plan", resume)

\* Reading a missing configuration fails.
Current == [config |-> config, modules |-> modules]
Readable == config # Missing /\ modules # Missing
ReserveRun == made < MaxRuns /\ made' = made + 1

\* r42 plan --out: a plan with a run of its own.
WritePlan ==
  /\ ApplyAt("write plan") /\ Readable /\ ReserveRun
  /\ planFile' = [plan |-> Current, run |-> made + 1]
  /\ ApplyEnds
  /\ UNCHANGED <<runs, newest, applies, state, faults>> /\ initUnchanged

PlanFresh ==
  /\ ApplyAt("plan") /\ Readable /\ ReserveRun
  /\ apply' = [apply EXCEPT !.at = "truncate", !.plan = Current, !.run = made + 1]
  /\ UNCHANGED <<runs, newest, planFile, applies, state, faults>> /\ initUnchanged

\* LatestCheckpointRun, then the plan that run was started with.
ChooseRun ==
  /\ ApplyAt("choose run")
  /\ newest # 0 /\ ~runs[newest].torn
  /\ apply' = [apply EXCEPT !.at = "compare", !.run = newest, !.plan = runs[newest].plan]
  /\ UNCHANGED <<runs, newest, planFile, made, applies, state, faults>> /\ initUnchanged

\* validateResumeCompatibility: the same addresses, kinds, dependencies and
\* artifact schemas.
\* Mutant: the comparison is left out.
AlwaysCompatible(current, original) == TRUE
Compatible(current, original) == ShapeOfPlan(current) = ShapeOfPlan(original)

PlanResumed ==
  /\ ApplyAt("compare") /\ Readable
  /\ Compatible(Current, apply.plan)
  /\ apply' = [apply EXCEPT !.at = "truncate", !.plan = Current]
  /\ UNCHANGED <<runs, newest, planFile, made, applies, state, faults>> /\ initUnchanged

LoadSavedPlan ==
  /\ ApplyAt("load plan")
  /\ apply' = [apply EXCEPT !.at = "truncate", !.plan = planFile.plan, !.run = planFile.run]
  /\ UNCHANGED <<runs, newest, planFile, made, applies, state, faults>> /\ initUnchanged

\* plan.Save truncates the run's plan and writes it again.
TruncatePlan ==
  /\ ApplyAt("truncate")
  /\ runs' = [runs EXCEPT ![apply.run].torn = TRUE]
  /\ ApplyGoes("save")
  /\ UNCHANGED <<newest, planFile, made, applies, state, faults>> /\ initUnchanged

SavePlan ==
  /\ ApplyAt("save")
  /\ runs' = [runs EXCEPT ![apply.run].torn = FALSE, ![apply.run].plan = apply.plan]
  /\ ApplyGoes("run")
  /\ UNCHANGED <<newest, planFile, made, applies, state, faults>> /\ initUnchanged

\* A unit of the run commits a checkpoint.
CommitCheckpoint ==
  /\ ApplyAt("run")
  /\ runs' = [runs EXCEPT ![apply.run].checkpoints = @ \cup {ShapeOfPlan(apply.plan)}]
  /\ newest' = apply.run
  /\ UNCHANGED <<planFile, apply, made, applies, state, faults>> /\ initUnchanged

\* Apply succeeded: SaveOutputs reads state.json, then replaces it.
ReadState ==
  /\ ApplyAt("run") /\ state.of # Missing
  /\ apply' = [apply EXCEPT !.at = "outputs", !.read = state]
  /\ UNCHANGED <<runs, newest, planFile, made, applies, state, faults>> /\ initUnchanged

SaveOutputs ==
  /\ ApplyAt("outputs")
  /\ state' = [apply.read EXCEPT !.outputs = apply.plan.config]
  /\ ApplyEnds
  /\ UNCHANGED <<runs, newest, planFile, made, applies, faults>> /\ initUnchanged

\* The command reports an error (nothing to resume, an incompatible plan, a
\* failed block) or is killed.
StopApply ==
  /\ ~ApplyAt("none")
  /\ \/ /\ \/ ApplyAt("choose run") \/ ApplyAt("run")
           \/ ApplyAt("compare") /\ Readable /\ ~Compatible(Current, apply.plan)
           \/ ApplyAt("compare") /\ ~Readable
           \/ ApplyAt("plan") /\ ~Readable
           \/ ApplyAt("write plan") /\ ~Readable
        /\ UNCHANGED faults
     \/ Fault
  /\ ApplyEnds
  /\ UNCHANGED <<runs, newest, planFile, made, applies, state>> /\ initUnchanged

Next ==
  \/ \E s \in Source : BeginInit(s)
  \/ StageModules \/ BackUpModules \/ SwapModules \/ DropModulesBackup \/ ActivateModules
  \/ StageConfig \/ BackUpConfig \/ SwapConfig \/ DropConfigBackup \/ ActivateConfig
  \/ WriteInitState \/ CompleteInit \/ KillInit
  \/ BeginPlan \/ BeginApply \/ BeginResume \/ (\E b \in BOOLEAN : BeginSavedApply(b))
  \/ WritePlan \/ PlanFresh \/ ChooseRun \/ PlanResumed \/ LoadSavedPlan
  \/ TruncatePlan \/ SavePlan \/ CommitCheckpoint \/ ReadState \/ SaveOutputs \/ StopApply

Spec == Init /\ [][Next]_vars

----------------------------------------------------------------------------
(* README.md:1041: a successful Init invalidates outputs from the previous *)
(* configuration, so the outputs r42 output prints are those of the active *)
(* configuration.                                                          *)
OutputsAreOfConfiguration ==
  Openable /\ state.outputs # Missing => state.outputs = state.of
================================================================================
