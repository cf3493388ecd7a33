----------------------------- MODULE ProjectProofs -----------------------------
(***************************************************************************)
(* r42 init, for any sources, any number of inits and of commands beside   *)
(* them, and any number of failed file operations and kills: a project     *)
(* that opens reads the modules and the configuration of one init.         *)
(***************************************************************************)
EXTENDS Project, TLAPS

Steps ==
  {"none", "modules", "back up modules", "swap modules", "drop backup", "activate modules",
   "config", "back up config", "swap config", "drop config backup", "activate config",
   "state", "complete"}

(* The part of the state that init works on.                               *)
InitType ==
  /\ init \in [at : Steps, id : Nat, interrupted : BOOLEAN, backup : Nat]
  /\ transaction \in BOOLEAN /\ uncleaned \in BOOLEAN
  /\ modules \in Nat /\ config \in Nat /\ inits \in Nat

(* Modules m may stay beside the configuration there is.                   *)
Agree(m) == m = Missing \/ config = Missing \/ m = config \/ uncleaned

(* The marker stands while an init runs, and what it does not protect      *)
(* agrees.                                                                 *)
MarkerInv ==
  /\ init.at # "none" => transaction
  /\ ~transaction => Agree(modules)

(* Until its modules are in place, a failing init that found no marker     *)
(* leaves modules which agree.                                             *)
ModulesInv ==
  ~init.interrupted =>
    /\ init.at \in {"modules", "back up modules", "activate modules"} => Agree(modules)
    /\ init.at = "swap modules" => Agree(init.backup) /\ modules = Missing

(* From then on they are its own, and so at last is the configuration.     *)
ConfigInv ==
  /\ init.at \in {"drop backup", "config", "back up config", "swap config", "activate config",
                  "drop config backup", "state", "complete"} => modules = init.id
  /\ init.at \in {"drop config backup", "state", "complete"} => config = init.id

ProjectInv == InitType /\ MarkerInv /\ ModulesInv /\ ConfigInv

initSide == <<transaction, modules, config, init, uncleaned, inits>>

--------------------------------------------------------------------------------
(* A step that leaves init's side alone keeps the invariant.               *)
LEMMA InitSideKeeps ==
  ASSUME ProjectInv, UNCHANGED initSide
  PROVE  ProjectInv'
BY DEF ProjectInv, InitType, MarkerInv, ModulesInv, ConfigInv, Agree, initSide

LEMMA ProjectInit == Init => ProjectInv
<1> SUFFICES ASSUME Init PROVE ProjectInv
  OBVIOUS
<1>1. init = [at |-> "none", id |-> 0, interrupted |-> FALSE, backup |-> 0]
  BY DEF Init, NoInit, Missing
<1>2. /\ transaction = FALSE /\ modules = 0 /\ config = 0
      /\ uncleaned = FALSE /\ inits = 0
  BY DEF Init, Missing
<1> QED
  BY <1>1, <1>2 DEF ProjectInv, InitType, MarkerInv, ModulesInv, ConfigInv, Agree, Missing, Steps

(* What a step makes of the record of the running init.                    *)
LEMMA Goes ==
  ASSUME InitType, NEW step \in Steps, InitGoes(step)
  PROVE  /\ init' \in [at : Steps, id : Nat, interrupted : BOOLEAN, backup : Nat]
         /\ init'.at = step /\ init'.id = init.id
         /\ init'.interrupted = init.interrupted /\ init'.backup = init.backup
BY DEF InitType, InitGoes

LEMMA GoesWithBackup ==
  ASSUME InitType, NEW step \in Steps, NEW b \in Nat,
         init' = [init EXCEPT !.at = step, !.backup = b]
  PROVE  /\ init' \in [at : Steps, id : Nat, interrupted : BOOLEAN, backup : Nat]
         /\ init'.at = step /\ init'.id = init.id
         /\ init'.interrupted = init.interrupted /\ init'.backup = b
BY DEF InitType

LEMMA Ends ==
  ASSUME InitEnds
  PROVE  /\ init' \in [at : Steps, id : Nat, interrupted : BOOLEAN, backup : Nat]
         /\ init'.at = "none" /\ init'.interrupted = FALSE
<1>1. init' = [at |-> "none", id |-> 0, interrupted |-> FALSE, backup |-> 0]
  BY DEF InitEnds, NoInit, Missing
<1> QED
  BY <1>1 DEF Steps

LEMMA Begins ==
  ASSUME InitType, NEW s, BeginInit(s)
  PROVE  /\ init' \in [at : Steps, id : Nat, interrupted : BOOLEAN, backup : Nat]
         /\ init'.at = "modules" /\ init'.interrupted = transaction
         /\ transaction' = TRUE /\ inits' \in Nat
<1>1. NoInit = [at |-> "none", id |-> 0, interrupted |-> FALSE, backup |-> 0]
  BY DEF NoInit, Missing
<1>2. init' = [NoInit EXCEPT !.at = "modules", !.id = inits + 1, !.interrupted = transaction]
  BY DEF BeginInit
<1>3. init' = [at |-> "modules", id |-> inits + 1, interrupted |-> transaction, backup |-> 0]
  BY <1>1, <1>2, Zenon
<1>4. inits + 1 \in Nat /\ transaction \in BOOLEAN /\ inits' = inits + 1
  BY DEF InitType, BeginInit
<1>5. "modules" \in Steps
  BY DEF Steps
<1>6. init' \in [at : Steps, id : Nat, interrupted : BOOLEAN, backup : Nat]
  BY <1>3, <1>4, <1>5
<1> QED
  BY <1>3, <1>4, <1>6 DEF BeginInit

(* The steps that replace the modules.                                   *)
LEMMA ModulesSteps ==
  ASSUME ProjectInv,
         \/ \E s \in Source : BeginInit(s)
         \/ StageModules \/ BackUpModules \/ SwapModules \/ DropModulesBackup \/ ActivateModules
  PROVE  ProjectInv'
<1> USE DEF ProjectInv, InitType, MarkerInv, ModulesInv, ConfigInv, Agree, Missing, Steps,
            InitAt, disk
<1>1. CASE \E s \in Source : BeginInit(s)
  <2>1. PICK s \in Source : BeginInit(s)
    BY <1>1
  <2>2. /\ init' \in [at : Steps, id : Nat, interrupted : BOOLEAN, backup : Nat]
        /\ init'.at = "modules" /\ init'.interrupted = transaction
        /\ transaction' = TRUE /\ inits' \in Nat
    BY <2>1, Begins
  <2>3. UNCHANGED <<modules, config, uncleaned>>
    BY <2>1 DEF BeginInit
  <2>4. ~init'.interrupted => Agree(modules)'
    BY <2>2, <2>3
  <2> QED
    BY <2>2, <2>3, <2>4
<1>2. CASE StageModules
  <2>1. CASE InitGoes(IF modules = Missing THEN "activate modules" ELSE "back up modules") /\ UNCHANGED <<transaction, uncleaned, faults>>
    BY <1>2, <2>1, Goes DEF StageModules
  <2>2. CASE Fault /\ ModulesFailed(FALSE)
    BY <1>2, <2>2, Ends DEF StageModules, ModulesFailed
  <2> QED
    BY <1>2, <2>1, <2>2 DEF StageModules
<1>3. CASE BackUpModules
  <2>1. CASE init' = [init EXCEPT !.at = "swap modules", !.backup = modules] /\ modules' = Missing /\ UNCHANGED <<transaction, uncleaned, faults>>
    BY <1>3, <2>1, GoesWithBackup DEF BackUpModules
  <2>2. CASE Fault /\ ModulesFailed(FALSE) /\ UNCHANGED modules
    BY <1>3, <2>2, Ends DEF BackUpModules, ModulesFailed
  <2> QED
    BY <1>3, <2>1, <2>2 DEF BackUpModules
<1>4. CASE SwapModules
  <2>1. CASE InitGoes("drop backup") /\ modules' = init.id /\ UNCHANGED <<transaction, uncleaned, faults>>
    BY <1>4, <2>1, Goes DEF SwapModules
  <2>2. CASE Fault /\ ModulesFailed(FALSE) /\ modules' \in {init.backup, Missing}
    <3>1. /\ init' \in [at : Steps, id : Nat, interrupted : BOOLEAN, backup : Nat]
          /\ init'.at = "none" /\ init'.interrupted = FALSE
      BY <2>2, Ends DEF ModulesFailed
    <3>2. /\ transaction' = init.interrupted /\ uncleaned' = uncleaned
          /\ UNCHANGED <<config, inits>>
      BY <1>4, <2>2 DEF SwapModules, ModulesFailed
    <3>3. modules' = init.backup \/ modules' = 0
      BY <2>2
    <3>4. init.at = "swap modules"
      BY <1>4 DEF SwapModules
    <3>5. ~init.interrupted => Agree(modules)'
      BY <3>2, <3>3, <3>4
    <3>6. init.backup \in Nat
      OBVIOUS
    <3>7. InitType'
      <4>1. modules' \in Nat
        BY <3>3, <3>6, 0 \in Nat, Zenon
      <4>2. transaction' \in BOOLEAN
        BY <3>2
      <4> QED
        BY <3>1, <3>2, <4>1, <4>2
    <3>8. MarkerInv'
      BY <3>1, <3>2, <3>5, <3>7
    <3> QED
      BY <3>1, <3>7, <3>8
  <2> QED
    BY <1>4, <2>1, <2>2 DEF SwapModules
<1>5. CASE DropModulesBackup
  <2>1. CASE InitGoes("config") /\ UNCHANGED <<transaction, uncleaned, faults>>
    BY <1>5, <2>1, Goes DEF DropModulesBackup
  <2>2. CASE Fault /\ ModulesFailed(TRUE)
    BY <1>5, <2>2, Ends DEF DropModulesBackup, ModulesFailed
  <2> QED
    BY <1>5, <2>1, <2>2 DEF DropModulesBackup
<1>6. CASE ActivateModules
  <2>1. CASE InitGoes("config") /\ modules' = init.id /\ UNCHANGED <<transaction, uncleaned, faults>>
    BY <1>6, <2>1, Goes DEF ActivateModules
  <2>2. CASE Fault /\ ModulesFailed(FALSE) /\ UNCHANGED modules
    BY <1>6, <2>2, Ends DEF ActivateModules, ModulesFailed
  <2> QED
    BY <1>6, <2>1, <2>2 DEF ActivateModules
<1> QED
  BY <1>1, <1>2, <1>3, <1>4, <1>5, <1>6

(* The steps that replace the configuration and the state.               *)
LEMMA ConfigSteps ==
  ASSUME ProjectInv,
         \/ StageConfig \/ BackUpConfig \/ SwapConfig \/ DropConfigBackup \/ ActivateConfig
         \/ WriteInitState \/ CompleteInit \/ KillInit
  PROVE  ProjectInv'
<1> USE DEF ProjectInv, InitType, MarkerInv, ModulesInv, ConfigInv, Agree, Missing, Steps,
            InitAt, disk
<1>1. CASE StageConfig
  <2>1. CASE InitGoes(IF config = Missing THEN "activate config" ELSE "back up config") /\ UNCHANGED faults
    BY <1>1, <2>1, Goes DEF StageConfig
  <2>2. CASE Fault /\ InitEnds
    BY <1>1, <2>2, Ends DEF StageConfig
  <2> QED
    BY <1>1, <2>1, <2>2 DEF StageConfig
<1>2. CASE BackUpConfig
  <2>1. CASE init' = [init EXCEPT !.at = "swap config", !.backup = config] /\ config' = Missing /\ UNCHANGED faults
    BY <1>2, <2>1, GoesWithBackup DEF BackUpConfig
  <2>2. CASE Fault /\ InitEnds /\ UNCHANGED config
    BY <1>2, <2>2, Ends DEF BackUpConfig
  <2> QED
    BY <1>2, <2>1, <2>2 DEF BackUpConfig
<1>3. CASE SwapConfig
  <2>1. CASE InitGoes("drop config backup") /\ config' = init.id /\ UNCHANGED faults
    BY <1>3, <2>1, Goes DEF SwapConfig
  <2>2. CASE Fault /\ InitEnds /\ config' \in {init.backup, Missing}
    <3>1. /\ init' \in [at : Steps, id : Nat, interrupted : BOOLEAN, backup : Nat]
          /\ init'.at = "none" /\ init'.interrupted = FALSE
      BY <2>2, Ends
    <3>2. /\ UNCHANGED <<transaction, modules, uncleaned, inits>>
          /\ init.at = "swap config"
      BY <1>3 DEF SwapConfig
    <3>3. config' = init.backup \/ config' = 0
      BY <2>2
    <3>4. transaction
      BY <3>2
    <3>5. init.backup \in Nat
      OBVIOUS
    <3>6. InitType'
      <4>1. config' \in Nat
        BY <3>3, <3>5, 0 \in Nat, Zenon
      <4> QED
        BY <3>1, <3>2, <4>1
    <3>7. MarkerInv'
      BY <3>1, <3>2, <3>4, <3>6
    <3> QED
      BY <3>1, <3>6, <3>7
  <2> QED
    BY <1>3, <2>1, <2>2 DEF SwapConfig
<1>4. CASE DropConfigBackup
  <2>1. CASE InitGoes("state") /\ UNCHANGED faults
    BY <1>4, <2>1, Goes DEF DropConfigBackup
  <2>2. CASE Fault /\ InitEnds
    BY <1>4, <2>2, Ends DEF DropConfigBackup
  <2> QED
    BY <1>4, <2>1, <2>2 DEF DropConfigBackup
<1>5. CASE ActivateConfig
  <2>1. CASE InitGoes("state") /\ config' = init.id /\ UNCHANGED faults
    BY <1>5, <2>1, Goes DEF ActivateConfig
  <2>2. CASE Fault /\ InitEnds /\ UNCHANGED config
    BY <1>5, <2>2, Ends DEF ActivateConfig
  <2> QED
    BY <1>5, <2>1, <2>2 DEF ActivateConfig
<1>6. CASE WriteInitState
  <2>1. CASE InitGoes("complete") /\ UNCHANGED faults
    BY <1>6, <2>1, Goes DEF WriteInitState
  <2>2. CASE Fault /\ InitEnds /\ UNCHANGED state
    BY <1>6, <2>2, Ends DEF WriteInitState
  <2> QED
    BY <1>6, <2>1, <2>2 DEF WriteInitState
<1>7. CASE CompleteInit
  BY <1>7, Ends DEF CompleteInit
<1>8. CASE KillInit
  BY <1>8, Ends DEF KillInit
<1> QED
  BY <1>1, <1>2, <1>3, <1>4, <1>5, <1>6, <1>7, <1>8

(* plan and apply never touch what init works on, though they rewrite the  *)
(* state file.                                                             *)
LEMMA CommandSteps ==
  ASSUME \/ BeginPlan \/ BeginApply \/ BeginResume \/ (\E b \in BOOLEAN : BeginSavedApply(b))
         \/ WritePlan \/ PlanFresh \/ ChooseRun \/ PlanResumed \/ LoadSavedPlan
         \/ TruncatePlan \/ SavePlan \/ CommitCheckpoint \/ ReadState \/ SaveOutputs \/ StopApply
  PROVE  UNCHANGED initSide
BY DEF BeginPlan, BeginApply, BeginResume, BeginSavedApply, Open, WritePlan, PlanFresh, ChooseRun,
       PlanResumed, LoadSavedPlan, TruncatePlan, SavePlan, CommitCheckpoint, ReadState,
       SaveOutputs, StopApply, initUnchanged, initSide

LEMMA ProjectStep == ProjectInv /\ [Next]_vars => ProjectInv'
<1> SUFFICES ASSUME ProjectInv, [Next]_vars PROVE ProjectInv'
  OBVIOUS
<1>1. CASE UNCHANGED vars
  BY <1>1, InitSideKeeps DEF vars, initSide
<1>2. CASE Next
  BY <1>2, ModulesSteps, ConfigSteps, CommandSteps, InitSideKeeps DEF Next
<1> QED
  BY <1>1, <1>2

(* A project that opens reads the modules and the configuration of one     *)
(* init, whatever operation failed and wherever a process was killed       *)
(* (project.go Init and openProject).                                      *)
THEOREM OpensOneInit == Spec => []OpenReadsOneInit
<1>1. Init => ProjectInv
  BY ProjectInit
<1>2. ProjectInv /\ [Next]_vars => ProjectInv'
  BY ProjectStep
<1>3. ProjectInv => OpenReadsOneInit
  BY DEF ProjectInv, MarkerInv, Agree, OpenReadsOneInit, Openable
<1> QED
  BY <1>1, <1>2, <1>3, PTL DEF Spec
--------------------------------------------------------------------------------
(* The runs beside it: what the checkpoints of a run are compatible with.  *)

ApplySteps ==
  {"none", "write plan", "plan", "choose run", "load plan", "compare", "truncate", "save", "run",
   "outputs"}

Plan == [config : Nat, modules : Nat]
State == [of : Nat, outputs : Nat]
Sources == Source \cup {CHOOSE s \in Source : TRUE}
Shapes == {ShapeOf[s] : s \in Sources}

FilesType ==
  /\ sourceOf \in [InitId -> Sources] /\ state \in State
  /\ runs \in [RunId -> [plan : Plan, torn : BOOLEAN, checkpoints : SUBSET Shapes]]
  /\ made \in 0..MaxRuns /\ newest \in 0..made
  /\ planFile \in [plan : Plan, run : 0..made]
  /\ apply \in [at : ApplySteps, run : 0..made, plan : Plan, resume : BOOLEAN, read : State]

(* The configurations there are were written by inits that have begun, so  *)
(* no later init changes what a plan was made from.                        *)
ConfigsBegan ==
  /\ inits <= MaxInits /\ config <= inits /\ init.id <= inits
  /\ init.at = "swap config" => init.backup <= inits

Known(p) == p.config \in 1..inits

(* All the checkpoints of a run fit the plan saved in it.                  *)
RunsInv ==
  /\ \A r \in RunId : runs[r].checkpoints # {} =>
       /\ r <= made /\ Known(runs[r].plan)
       /\ runs[r].checkpoints = {ShapeOfPlan(runs[r].plan)}
  /\ newest # 0 => runs[newest].checkpoints # {}

(* They fit the plan file of the run as well, which stays behind when a    *)
(* resume saves another plan in the run.                                   *)
PlanFileInv ==
  /\ planFile.run # 0 =>
       /\ Known(planFile.plan)
       /\ runs[planFile.run].checkpoints \subseteq {ShapeOfPlan(planFile.plan)}
  /\ apply.at = "load plan" => planFile.run # 0

(* And they fit the plan that an apply is about to save there, or uses.    *)
ApplyInv ==
  apply.at \in {"compare", "truncate", "save", "run", "outputs"} =>
    /\ apply.run # 0 /\ Known(apply.plan)
    /\ runs[apply.run].checkpoints \subseteq {ShapeOfPlan(apply.plan)}
    /\ apply.run = planFile.run => ShapeOfPlan(apply.plan) = ShapeOfPlan(planFile.plan)
    /\ apply.at \in {"run", "outputs"} => runs[apply.run].plan = apply.plan

FilesInv == FilesType /\ ConfigsBegan /\ RunsInv /\ PlanFileInv /\ ApplyInv

LEMMA FilesInit == Init => FilesInv
<1> SUFFICES ASSUME Init PROVE FilesInv
  OBVIOUS
<1>1. /\ inits = 0 /\ config = 0 /\ made = 0 /\ newest = 0 /\ init = NoInit
      /\ planFile = [plan |-> NoPlan, run |-> 0] /\ apply = NoApply /\ state = NoState
      /\ runs = [r \in RunId |-> [plan |-> NoPlan, torn |-> FALSE, checkpoints |-> {}]]
      /\ sourceOf = [i \in InitId |-> CHOOSE s \in Source : TRUE]
  BY DEF Init, Missing
<1>2. NoPlan \in Plan /\ NoState \in State
  BY DEF NoPlan, Plan, NoState, State, Missing
<1>3. NoApply.at = "none" /\ NoInit.at = "none" /\ NoInit.id = 0
  BY DEF NoApply, NoInit, Missing
<1>4. FilesType
  <2>1. sourceOf \in [InitId -> Sources]
    BY <1>1 DEF Sources
  <2>2. runs \in [RunId -> [plan : Plan, torn : BOOLEAN, checkpoints : SUBSET Shapes]]
    BY <1>1, <1>2
  <2>3. NoApply \in [at : ApplySteps, run : 0..made, plan : Plan, resume : BOOLEAN, read : State]
    BY <1>1, <1>2 DEF NoApply, ApplySteps
  <2>4. /\ made \in 0..MaxRuns /\ newest \in 0..made
        /\ planFile \in [plan : Plan, run : 0..made]
    BY <1>1, <1>2, ProjectAssumption
  <2> QED
    BY <1>1, <1>2, <2>1, <2>2, <2>3, <2>4 DEF FilesType
<1>5. ConfigsBegan
  BY <1>1, <1>3, ProjectAssumption DEF ConfigsBegan
<1>6. RunsInv /\ PlanFileInv /\ ApplyInv
  BY <1>1, <1>3 DEF RunsInv, PlanFileInv, ApplyInv
<1> QED
  BY <1>4, <1>5, <1>6 DEF FilesInv

(* An init may begin, but not change the source of one that has begun.     *)
LEMMA InitKeepsRuns ==
  ASSUME ProjectInv, FilesInv, UNCHANGED applyVars, state' \in State,
         sourceOf' \in [InitId -> Sources], inits' \in Nat, inits <= inits',
         \A i \in 1..inits : sourceOf'[i] = sourceOf[i]
  PROVE  FilesType' /\ RunsInv' /\ PlanFileInv' /\ ApplyInv'
<1>1. inits \in Nat
  BY DEF ProjectInv, InitType
<1>2. /\ runs' = runs /\ newest' = newest /\ planFile' = planFile /\ apply' = apply
      /\ made' = made
  BY DEF applyVars
<1>3. FilesType'
  BY <1>2 DEF FilesInv, FilesType
<1>4. ASSUME NEW p, Known(p)
      PROVE  /\ p.config \in 1..inits'
             /\ ShapeOf[sourceOf'[p.config]] = ShapeOf[sourceOf[p.config]]
  BY <1>1, <1>4 DEF Known
<1>5. RunsInv'
  <2>1. newest' # 0 => runs'[newest'].checkpoints # {}
    BY <1>2 DEF FilesInv, RunsInv
  <2>2. ASSUME NEW r \in RunId, runs'[r].checkpoints # {}
        PROVE  /\ r <= made' /\ Known(runs[r].plan)'
               /\ runs'[r].checkpoints = {ShapeOfPlan(runs[r].plan)}'
    <3>1. /\ r <= made /\ Known(runs[r].plan)
          /\ runs[r].checkpoints = {ShapeOfPlan(runs[r].plan)}
      BY <1>2, <2>2 DEF FilesInv, RunsInv
    <3> QED
      BY <1>2, <3>1, <1>4 DEF Known, ShapeOfPlan
  <2> QED
    BY <2>1, <2>2 DEF RunsInv
<1>6. PlanFileInv'
  BY <1>2, <1>4 DEF FilesInv, PlanFileInv, Known, ShapeOfPlan
<1>7. ApplyInv'
  <2> SUFFICES ASSUME apply.at \in {"compare", "truncate", "save", "run", "outputs"}
               PROVE  ApplyInv'
    BY <1>2 DEF ApplyInv
  <2>1. /\ apply.run # 0 /\ Known(apply.plan)
        /\ runs[apply.run].checkpoints \subseteq {ShapeOfPlan(apply.plan)}
        /\ apply.run = planFile.run => ShapeOfPlan(apply.plan) = ShapeOfPlan(planFile.plan)
        /\ apply.at \in {"run", "outputs"} => runs[apply.run].plan = apply.plan
    BY DEF FilesInv, ApplyInv
  <2>2. apply.run = planFile.run => Known(planFile.plan)
    BY <2>1 DEF FilesInv, PlanFileInv
  <2>3. Known(apply.plan)' /\ ShapeOfPlan(apply.plan)' = ShapeOfPlan(apply.plan)
    BY <1>2, <1>4, <2>1 DEF Known, ShapeOfPlan
  <2>4. apply.run = planFile.run => ShapeOfPlan(planFile.plan)' = ShapeOfPlan(planFile.plan)
    BY <1>2, <1>4, <2>2 DEF Known, ShapeOfPlan
  <2> QED
    BY <1>2, <2>1, <2>3, <2>4 DEF ApplyInv
<1> QED
  BY <1>3, <1>5, <1>6, <1>7

(* The configurations an init installs are its own or the backed up one.   *)
LEMMA ConfigsBeganKeeps ==
  ASSUME ProjectInv, FilesInv,
         \/ StageModules \/ BackUpModules \/ SwapModules \/ DropModulesBackup \/ ActivateModules
         \/ StageConfig \/ BackUpConfig \/ SwapConfig \/ DropConfigBackup \/ ActivateConfig
         \/ WriteInitState \/ CompleteInit \/ KillInit
  PROVE  /\ ConfigsBegan' /\ inits' = inits /\ sourceOf' = sourceOf
         /\ state' \in State /\ UNCHANGED applyVars
<1>1. /\ inits \in Nat /\ config \in Nat /\ init.id \in Nat /\ init.backup \in Nat
      /\ inits <= MaxInits /\ config <= inits /\ init.id <= inits
      /\ init.at = "swap config" => init.backup <= inits
      /\ state \in State /\ MaxInits \in Nat
  BY ProjectAssumption DEF ProjectInv, InitType, FilesInv, FilesType, ConfigsBegan
<1>0. 0 <= inits
  <2>1. inits \in Nat
    BY <1>1
  <2> QED
    BY <2>1
<1>2. inits' = inits /\ sourceOf' = sourceOf /\ UNCHANGED applyVars
  BY DEF StageModules, BackUpModules, SwapModules, DropModulesBackup, ActivateModules,
     StageConfig, BackUpConfig, SwapConfig, DropConfigBackup, ActivateConfig,
     WriteInitState, CompleteInit, KillInit
<1>3. state' \in State
  <2>1. CASE WriteInitState
    <3>1. state' = state \/ state' = [of |-> init.id, outputs |-> 0]
      BY <2>1 DEF WriteInitState, Missing
    <3>2. [of |-> init.id, outputs |-> 0] \in State
      BY <1>1 DEF State
    <3> QED
      BY <1>1, <3>1, <3>2
  <2>2. CASE ~WriteInitState
    <3>1. state' = state
      BY <2>2 DEF StageModules, BackUpModules, SwapModules, DropModulesBackup, ActivateModules,
         StageConfig, BackUpConfig, SwapConfig, DropConfigBackup, ActivateConfig, CompleteInit,
         KillInit, disk
    <3> QED
      BY <1>1, <3>1
  <2> QED
    BY <2>1, <2>2
<1>4. \/ InitEnds
      \/ \E step \in Steps \ {"swap config"} : InitGoes(step)
      \/ init' = [init EXCEPT !.at = "swap modules", !.backup = modules]
      \/ BackUpConfig /\ init' = [init EXCEPT !.at = "swap config", !.backup = config]
  BY DEF StageModules, BackUpModules, SwapModules, DropModulesBackup, ActivateModules,
     StageConfig, BackUpConfig, SwapConfig, DropConfigBackup, ActivateConfig,
     WriteInitState, CompleteInit, KillInit, ModulesFailed, Steps
<1>5. init'.id <= inits /\ (init'.at = "swap config" => init'.backup <= inits)
  <2>1. CASE InitEnds
    <3>1. init'.id = 0 /\ init'.at = "none"
      BY <2>1 DEF InitEnds, NoInit, Missing
    <3> QED
      BY <3>1, <1>0
  <2>2. CASE \E step \in Steps \ {"swap config"} : InitGoes(step)
    BY <1>1, <2>2, Goes DEF ProjectInv
  <2>3. CASE init' = [init EXCEPT !.at = "swap modules", !.backup = modules]
    <3>1. "swap modules" \in Steps /\ modules \in Nat /\ InitType
      BY DEF Steps, ProjectInv, InitType
    <3> QED
      BY <1>1, <2>3, <3>1, GoesWithBackup
  <2>4. CASE init' = [init EXCEPT !.at = "swap config", !.backup = config]
    <3>1. "swap config" \in Steps /\ InitType
      BY DEF Steps, ProjectInv
    <3> QED
      BY <1>1, <2>4, <3>1, GoesWithBackup
  <2> QED
    BY <1>4, <2>1, <2>2, <2>3, <2>4
<1>6. config' <= inits
  <2>1. \/ config' = config \/ config' = init.id \/ config' = 0
        \/ init.at = "swap config" /\ config' = init.backup
    BY DEF StageModules, BackUpModules, SwapModules, DropModulesBackup, ActivateModules,
       StageConfig, BackUpConfig, SwapConfig, DropConfigBackup, ActivateConfig,
       WriteInitState, CompleteInit, KillInit, disk, InitAt, Missing
  <2>2. CASE config' = 0
    BY <1>0, <2>2
  <2> QED
    BY <1>1, <2>1, <2>2
<1> QED
  BY <1>1, <1>2, <1>3, <1>5, <1>6 DEF ConfigsBegan

(* Every step of r42 init.                                                 *)
LEMMA InitSteps ==
  ASSUME ProjectInv, FilesInv,
         \/ \E s \in Source : BeginInit(s)
         \/ StageModules \/ BackUpModules \/ SwapModules \/ DropModulesBackup \/ ActivateModules
         \/ StageConfig \/ BackUpConfig \/ SwapConfig \/ DropConfigBackup \/ ActivateConfig
         \/ WriteInitState \/ CompleteInit \/ KillInit
  PROVE  FilesInv'
<1>1. inits \in Nat /\ sourceOf \in [InitId -> Sources] /\ state \in State /\ MaxInits \in Nat
  BY ProjectAssumption DEF ProjectInv, InitType, FilesInv, FilesType
<1>2. CASE \E s \in Source : BeginInit(s)
  <2>1. PICK s \in Source : BeginInit(s)
    BY <1>2
  <2>2. /\ inits < MaxInits /\ inits' = inits + 1 /\ UNCHANGED <<config, state, applyVars>>
        /\ sourceOf' = [sourceOf EXCEPT ![inits + 1] = s]
    BY <2>1 DEF BeginInit
  <2>3. inits + 1 \in InitId /\ 1..inits \subseteq InitId \ {inits + 1} /\ s \in Sources
    BY <1>1, <2>2 DEF InitId, Sources
  <2>4. /\ sourceOf' \in [InitId -> Sources]
        /\ \A i \in 1..inits : sourceOf'[i] = sourceOf[i]
    BY <1>1, <2>2, <2>3
  <2>5. FilesType' /\ RunsInv' /\ PlanFileInv' /\ ApplyInv'
    BY <1>1, <2>2, <2>4, InitKeepsRuns
  <2>6. init'.id = inits + 1 /\ init'.at = "modules"
    BY <2>1 DEF BeginInit, NoInit
  <2>7. config \in Nat /\ config <= inits
    BY DEF ConfigsBegan, FilesInv, ProjectInv, InitType
  <2>8. inits' <= MaxInits /\ config' <= inits' /\ init'.id <= inits'
    BY <1>1, <2>2, <2>6, <2>7
  <2>9. ConfigsBegan'
    BY <2>6, <2>8 DEF ConfigsBegan
  <2> QED
    BY <2>5, <2>9 DEF FilesInv
<1>3. CASE ~\E s \in Source : BeginInit(s)
  <2>1. /\ ConfigsBegan' /\ inits' = inits /\ sourceOf' = sourceOf
        /\ state' \in State /\ UNCHANGED applyVars
    BY <1>3, ConfigsBeganKeeps
  <2>2. FilesType' /\ RunsInv' /\ PlanFileInv' /\ ApplyInv'
    BY <1>1, <2>1, InitKeepsRuns
  <2> QED
    BY <2>1, <2>2 DEF FilesInv
<1> QED
  BY <1>2, <1>3

(* What a step of the commands leaves alone.                               *)
LEMMA CommandKeeps ==
  ASSUME FilesInv, initUnchanged
  PROVE  /\ ConfigsBegan' /\ sourceOf' \in [InitId -> Sources] /\ inits' = inits
         /\ sourceOf' = sourceOf
BY DEF FilesInv, ConfigsBegan, FilesType, initUnchanged

(* A command begins, ends, or goes on to a step without changing the runs. *)
LEMMA CommandGoes ==
  ASSUME FilesInv, initUnchanged, state' \in State, UNCHANGED <<runs, newest, planFile, made>>,
         apply' \in [at : ApplySteps, run : 0..made, plan : Plan, resume : BOOLEAN, read : State],
         apply'.at = "load plan" => planFile.run # 0,
         apply'.at \in {"compare", "truncate", "save", "run", "outputs"} =>
           /\ apply'.run # 0 /\ Known(apply'.plan)
           /\ runs[apply'.run].checkpoints \subseteq {ShapeOfPlan(apply'.plan)}
           /\ apply'.run = planFile.run => ShapeOfPlan(apply'.plan) = ShapeOfPlan(planFile.plan)
           /\ apply'.at \in {"run", "outputs"} => runs[apply'.run].plan = apply'.plan
  PROVE  FilesInv'
<1>1. /\ ConfigsBegan' /\ sourceOf' \in [InitId -> Sources] /\ inits' = inits
      /\ sourceOf' = sourceOf
  BY CommandKeeps
<1>2. FilesType'
  BY <1>1 DEF FilesInv, FilesType
<1>3. RunsInv'
  BY <1>1 DEF FilesInv, RunsInv, Known, ShapeOfPlan
<1>4. PlanFileInv'
  BY <1>1 DEF FilesInv, PlanFileInv, Known, ShapeOfPlan
<1>5. ApplyInv'
  BY <1>1 DEF FilesInv, ApplyInv, Known, ShapeOfPlan
<1> QED
  BY <1>1, <1>2, <1>3, <1>4, <1>5 DEF FilesInv

LEMMA NoApplyType ==
  ASSUME FilesInv
  PROVE  /\ NoApply \in [at : ApplySteps, run : 0..made, plan : Plan, resume : BOOLEAN,
                         read : State]
         /\ NoApply.at = "none"
<1>1. NoPlan \in Plan /\ NoState \in State /\ 0 \in 0..made
  BY ProjectAssumption DEF NoPlan, Plan, NoState, State, Missing, FilesInv, FilesType
<1> QED
  BY <1>1 DEF NoApply, ApplySteps

LEMMA OpenSteps ==
  ASSUME FilesInv,
         BeginPlan \/ BeginApply \/ BeginResume \/ (\E b \in BOOLEAN : BeginSavedApply(b))
  PROVE  FilesInv'
<1>1. PICK then \in {"write plan", "plan", "choose run", "load plan"}, resume \in BOOLEAN :
        Open(then, resume) /\ (then = "load plan" => planFile.run # 0)
  BY DEF BeginPlan, BeginApply, BeginResume, BeginSavedApply
<1>2. /\ apply' = [NoApply EXCEPT !.at = then, !.resume = resume]
      /\ UNCHANGED <<runs, newest, planFile, made, state>> /\ initUnchanged
  BY <1>1 DEF Open
<1>3. /\ apply' \in [at : ApplySteps, run : 0..made, plan : Plan, resume : BOOLEAN, read : State]
      /\ apply'.at = then
  BY <1>2, NoApplyType DEF ApplySteps
<1>4. state' \in State
  BY <1>2 DEF FilesInv, FilesType
<1> QED
  BY <1>1, <1>2, <1>3, <1>4, CommandGoes

LEMMA EndSteps ==
  ASSUME FilesInv, SaveOutputs \/ StopApply
  PROVE  FilesInv'
<1>1. UNCHANGED <<runs, newest, planFile, made>> /\ initUnchanged /\ apply' = NoApply
  BY DEF SaveOutputs, StopApply, ApplyEnds
<1>2. state' \in State
  <2>1. apply.read \in State /\ state \in State /\ apply.plan.config \in Nat
    BY DEF FilesInv, FilesType, Plan
  <2>2. state' = state \/ state' = [apply.read EXCEPT !.outputs = apply.plan.config]
    BY DEF SaveOutputs, StopApply
  <2>3. [apply.read EXCEPT !.outputs = apply.plan.config] \in State
    BY <2>1 DEF State
  <2> QED
    BY <2>1, <2>2, <2>3
<1> QED
  BY <1>1, <1>2, NoApplyType, CommandGoes

(* The configuration that is read is one an init has installed.            *)
LEMMA CurrentIsKnown ==
  ASSUME ProjectInv, FilesInv, Readable
  PROVE  Current \in Plan /\ Known(Current)
<1>1. config \in Nat /\ modules \in Nat /\ config # 0 /\ inits \in Nat /\ config <= inits
  BY DEF ProjectInv, InitType, Readable, Missing, FilesInv, ConfigsBegan
<1>2. config \in 1..inits
  BY <1>1
<1> QED
  BY <1>1, <1>2 DEF Current, Plan, Known

(* A run directory that was not reserved holds no checkpoint.              *)
LEMMA FreshRun ==
  ASSUME FilesInv, ReserveRun
  PROVE  /\ made + 1 \in RunId /\ made + 1 # 0 /\ made' \in 0..MaxRuns /\ made \in Nat
         /\ made' = made + 1
         /\ runs[made + 1].checkpoints = {}
         /\ planFile.run # made + 1 /\ apply.run # made + 1
<1>1. made \in 0..MaxRuns /\ made < MaxRuns /\ MaxRuns \in Nat /\ made' = made + 1
  BY ProjectAssumption DEF FilesInv, FilesType, ReserveRun
<1>2. made + 1 \in RunId /\ ~(made + 1 <= made)
  BY <1>1 DEF RunId
<1>3. runs[made + 1].checkpoints = {}
  BY <1>2 DEF FilesInv, RunsInv
<1>4. planFile.run \in 0..made /\ apply.run \in 0..made
  BY DEF FilesInv, FilesType
<1> QED
  BY <1>1, <1>2, <1>3, <1>4

LEMMA WritePlanStep ==
  ASSUME ProjectInv, FilesInv, WritePlan
  PROVE  FilesInv'
<1>1. /\ Readable /\ ReserveRun /\ apply' = NoApply /\ initUnchanged
      /\ UNCHANGED <<runs, newest, state>>
      /\ planFile' = [plan |-> Current, run |-> made + 1]
  BY DEF WritePlan, ApplyEnds
<1>2. /\ ConfigsBegan' /\ sourceOf' \in [InitId -> Sources] /\ inits' = inits
      /\ sourceOf' = sourceOf
  BY <1>1, CommandKeeps
<1>3. Current \in Plan /\ Known(Current)
  BY <1>1, CurrentIsKnown
<1>4. /\ made + 1 \in RunId /\ made' \in 0..MaxRuns /\ made' = made + 1 /\ made \in Nat
      /\ runs[made + 1].checkpoints = {}
  BY <1>1, FreshRun
<1>5. NoApply \in [at : ApplySteps, run : 0..made', plan : Plan, resume : BOOLEAN, read : State]
  <2>1. 0 \in 0..made' /\ NoPlan \in Plan /\ NoState \in State
    BY <1>4 DEF NoPlan, Plan, NoState, State, Missing
  <2> QED
    BY <2>1 DEF NoApply, ApplySteps
<1>6. FilesType'
  <2>1. newest' \in 0..made'
    BY <1>1, <1>4 DEF FilesInv, FilesType
  <2>2. planFile' \in [plan : Plan, run : 0..made']
    BY <1>1, <1>3, <1>4
  <2> QED
    BY <1>1, <1>2, <1>4, <1>5, <2>1, <2>2 DEF FilesInv, FilesType
<1>7. RunsInv'
  <2>1. newest' # 0 => runs'[newest'].checkpoints # {}
    BY <1>1 DEF FilesInv, RunsInv
  <2>2. ASSUME NEW r \in RunId, runs[r].checkpoints # {}
        PROVE  /\ r <= made' /\ Known(runs[r].plan)'
               /\ runs'[r].checkpoints = {ShapeOfPlan(runs[r].plan)}'
    <3>1. r <= made'
      BY <1>4, <2>2 DEF FilesInv, RunsInv, RunId
    <3> QED
      BY <1>1, <1>2, <2>2, <3>1 DEF FilesInv, RunsInv, Known, ShapeOfPlan
  <2> QED
    BY <1>1, <2>1, <2>2 DEF RunsInv
<1>8. PlanFileInv'
  BY <1>1, <1>2, <1>3, <1>4, NoApplyType DEF PlanFileInv, Known
<1>9. ApplyInv'
  BY <1>1, NoApplyType DEF ApplyInv
<1> QED
  BY <1>2, <1>6, <1>7, <1>8, <1>9 DEF FilesInv

LEMMA PlanFreshStep ==
  ASSUME ProjectInv, FilesInv, PlanFresh
  PROVE  FilesInv'
<1>1. /\ Readable /\ ReserveRun /\ initUnchanged
      /\ UNCHANGED <<runs, newest, planFile, state>>
      /\ apply' = [apply EXCEPT !.at = "truncate", !.plan = Current, !.run = made + 1]
  BY DEF PlanFresh
<1>2. /\ ConfigsBegan' /\ sourceOf' \in [InitId -> Sources] /\ inits' = inits
      /\ sourceOf' = sourceOf
  BY <1>1, CommandKeeps
<1>3. Current \in Plan /\ Known(Current)
  BY <1>1, CurrentIsKnown
<1>4. /\ made + 1 \in RunId /\ made + 1 # 0 /\ made' \in 0..MaxRuns /\ made' = made + 1
      /\ made \in Nat
      /\ runs[made + 1].checkpoints = {} /\ planFile.run # made + 1
  BY <1>1, FreshRun
<1>5. /\ apply' \in [at : ApplySteps, run : 0..made', plan : Plan, resume : BOOLEAN, read : State]
      /\ apply'.at = "truncate" /\ apply'.plan = Current /\ apply'.run = made + 1
  <2>1. made + 1 \in 0..made'
    BY <1>4
  <2> QED
    BY <1>1, <1>3, <2>1 DEF ApplySteps, FilesInv, FilesType
<1>6. FilesType'
  <2>1. newest' \in 0..made'
    BY <1>1, <1>4 DEF FilesInv, FilesType
  <2>2. planFile' \in [plan : Plan, run : 0..made']
    <3>1. planFile \in [plan : Plan, run : 0..made] /\ 0..made \subseteq 0..made'
      BY <1>4 DEF FilesInv, FilesType
    <3> QED
      BY <1>1, <3>1
  <2> QED
    BY <1>1, <1>2, <1>4, <1>5, <2>1, <2>2 DEF FilesInv, FilesType
<1>7. RunsInv'
  <2>1. newest' # 0 => runs'[newest'].checkpoints # {}
    BY <1>1 DEF FilesInv, RunsInv
  <2>2. ASSUME NEW r \in RunId, runs[r].checkpoints # {}
        PROVE  /\ r <= made' /\ Known(runs[r].plan)'
               /\ runs'[r].checkpoints = {ShapeOfPlan(runs[r].plan)}'
    <3>1. r <= made'
      BY <1>4, <2>2 DEF FilesInv, RunsInv, RunId
    <3> QED
      BY <1>1, <1>2, <2>2, <3>1 DEF FilesInv, RunsInv, Known, ShapeOfPlan
  <2> QED
    BY <1>1, <2>1, <2>2 DEF RunsInv
<1>8. PlanFileInv'
  BY <1>1, <1>2, <1>5 DEF FilesInv, PlanFileInv, Known, ShapeOfPlan
<1>9. ApplyInv'
  BY <1>1, <1>2, <1>3, <1>4, <1>5 DEF ApplyInv, Known
<1> QED
  BY <1>2, <1>6, <1>7, <1>8, <1>9 DEF FilesInv

(* A resume takes the newest run with checkpoints and the plan saved in it: *)
(* when that is the run of the plan file too, both plans fit them.          *)
LEMMA ChooseRunStep ==
  ASSUME FilesInv, ChooseRun
  PROVE  FilesInv'
<1>1. /\ newest # 0 /\ initUnchanged /\ UNCHANGED <<runs, newest, planFile, made, state>>
      /\ apply' = [apply EXCEPT !.at = "compare", !.run = newest, !.plan = runs[newest].plan]
  BY DEF ChooseRun
<1>2. newest \in RunId /\ newest \in 0..made
  BY <1>1, ProjectAssumption DEF FilesInv, FilesType, RunId
<1>3. /\ Known(runs[newest].plan)
      /\ runs[newest].checkpoints = {ShapeOfPlan(runs[newest].plan)}
  BY <1>1, <1>2 DEF FilesInv, RunsInv
<1>4. newest = planFile.run => ShapeOfPlan(runs[newest].plan) = ShapeOfPlan(planFile.plan)
  BY <1>1, <1>3 DEF FilesInv, PlanFileInv
<1>5. /\ apply' \in [at : ApplySteps, run : 0..made, plan : Plan, resume : BOOLEAN, read : State]
      /\ apply'.at = "compare" /\ apply'.run = newest /\ apply'.plan = runs[newest].plan
  BY <1>1, <1>2 DEF FilesInv, FilesType, ApplySteps
<1>6. state' \in State
  BY <1>1 DEF FilesInv, FilesType
<1> QED
  BY <1>1, <1>3, <1>4, <1>5, <1>6, CommandGoes

LEMMA PlanResumedStep ==
  ASSUME ProjectInv, FilesInv, PlanResumed
  PROVE  FilesInv'
<1>1. /\ apply.at = "compare" /\ Readable /\ initUnchanged
      /\ UNCHANGED <<runs, newest, planFile, made, state>>
      /\ ShapeOfPlan(Current) = ShapeOfPlan(apply.plan)
      /\ apply' = [apply EXCEPT !.at = "truncate", !.plan = Current]
  BY DEF PlanResumed, Compatible, ApplyAt
<1>2. Current \in Plan /\ Known(Current)
  BY <1>1, CurrentIsKnown
<1>3. /\ apply.run # 0
      /\ runs[apply.run].checkpoints \subseteq {ShapeOfPlan(apply.plan)}
      /\ apply.run = planFile.run => ShapeOfPlan(apply.plan) = ShapeOfPlan(planFile.plan)
  BY <1>1 DEF FilesInv, ApplyInv
<1>4. /\ apply' \in [at : ApplySteps, run : 0..made, plan : Plan, resume : BOOLEAN, read : State]
      /\ apply'.at = "truncate" /\ apply'.run = apply.run /\ apply'.plan = Current
  BY <1>1, <1>2 DEF FilesInv, FilesType, ApplySteps
<1>5. state' \in State
  BY <1>1 DEF FilesInv, FilesType
<1> QED
  BY <1>1, <1>2, <1>3, <1>4, <1>5, CommandGoes

LEMMA LoadSavedPlanStep ==
  ASSUME FilesInv, LoadSavedPlan
  PROVE  FilesInv'
<1>1. /\ apply.at = "load plan" /\ initUnchanged
      /\ UNCHANGED <<runs, newest, planFile, made, state>>
      /\ apply' = [apply EXCEPT !.at = "truncate", !.plan = planFile.plan, !.run = planFile.run]
  BY DEF LoadSavedPlan, ApplyAt
<1>2. /\ planFile.run # 0 /\ Known(planFile.plan)
      /\ runs[planFile.run].checkpoints \subseteq {ShapeOfPlan(planFile.plan)}
  BY <1>1 DEF FilesInv, PlanFileInv
<1>3. /\ apply' \in [at : ApplySteps, run : 0..made, plan : Plan, resume : BOOLEAN, read : State]
      /\ apply'.at = "truncate" /\ apply'.run = planFile.run /\ apply'.plan = planFile.plan
  BY <1>1 DEF FilesInv, FilesType, ApplySteps
<1>4. state' \in State
  BY <1>1 DEF FilesInv, FilesType
<1> QED
  BY <1>1, <1>2, <1>3, <1>4, CommandGoes

LEMMA ReadStateStep ==
  ASSUME FilesInv, ReadState
  PROVE  FilesInv'
<1>1. /\ apply.at = "run" /\ initUnchanged
      /\ UNCHANGED <<runs, newest, planFile, made, state>>
      /\ apply' = [apply EXCEPT !.at = "outputs", !.read = state]
  BY DEF ReadState, ApplyAt
<1>2. /\ apply.run # 0 /\ Known(apply.plan)
      /\ runs[apply.run].checkpoints \subseteq {ShapeOfPlan(apply.plan)}
      /\ apply.run = planFile.run => ShapeOfPlan(apply.plan) = ShapeOfPlan(planFile.plan)
      /\ runs[apply.run].plan = apply.plan
  BY <1>1 DEF FilesInv, ApplyInv
<1>3. /\ apply' \in [at : ApplySteps, run : 0..made, plan : Plan, resume : BOOLEAN, read : State]
      /\ apply'.at = "outputs" /\ apply'.run = apply.run /\ apply'.plan = apply.plan
  BY <1>1 DEF FilesInv, FilesType, ApplySteps
<1>4. state' \in State
  BY <1>1 DEF FilesInv, FilesType
<1> QED
  BY <1>1, <1>2, <1>3, <1>4, CommandGoes

(* The run an apply works in, and the plan it works from.                  *)
LEMMA ApplyRun ==
  ASSUME FilesInv, apply.at \in {"truncate", "save", "run"}
  PROVE  /\ apply.run \in RunId /\ apply.run <= made /\ apply.run \in 0..made
         /\ Known(apply.plan) /\ apply.plan \in Plan
         /\ runs[apply.run].checkpoints \subseteq {ShapeOfPlan(apply.plan)}
         /\ apply.run = planFile.run => ShapeOfPlan(apply.plan) = ShapeOfPlan(planFile.plan)
         /\ apply.at = "run" => runs[apply.run].plan = apply.plan
         /\ runs \in [RunId -> [plan : Plan, torn : BOOLEAN, checkpoints : SUBSET Shapes]]
<1>1. /\ apply.run # 0 /\ Known(apply.plan)
      /\ runs[apply.run].checkpoints \subseteq {ShapeOfPlan(apply.plan)}
      /\ apply.run = planFile.run => ShapeOfPlan(apply.plan) = ShapeOfPlan(planFile.plan)
      /\ apply.at = "run" => runs[apply.run].plan = apply.plan
  BY DEF FilesInv, ApplyInv
<1>2. /\ apply.run \in 0..made /\ apply.plan \in Plan /\ made \in 0..MaxRuns
      /\ runs \in [RunId -> [plan : Plan, torn : BOOLEAN, checkpoints : SUBSET Shapes]]
  BY DEF FilesInv, FilesType
<1>3. apply.run \in RunId /\ apply.run <= made
  BY <1>1, <1>2, ProjectAssumption DEF RunId
<1> QED
  BY <1>1, <1>2, <1>3

LEMMA GoesOn ==
  ASSUME FilesInv, NEW step \in ApplySteps, ApplyGoes(step)
  PROVE  /\ apply' \in [at : ApplySteps, run : 0..made, plan : Plan, resume : BOOLEAN,
                        read : State]
         /\ apply'.at = step /\ apply'.run = apply.run /\ apply'.plan = apply.plan
BY DEF FilesInv, FilesType, ApplyGoes

LEMMA TruncatePlanStep ==
  ASSUME FilesInv, TruncatePlan
  PROVE  FilesInv'
<1>1. /\ apply.at = "truncate" /\ initUnchanged /\ ApplyGoes("save")
      /\ UNCHANGED <<newest, planFile, made, state>>
      /\ runs' = [runs EXCEPT ![apply.run].torn = TRUE]
  BY DEF TruncatePlan, ApplyAt
<1>2. /\ ConfigsBegan' /\ sourceOf' \in [InitId -> Sources] /\ inits' = inits
      /\ sourceOf' = sourceOf
  BY <1>1, CommandKeeps
<1>3. /\ apply.run \in RunId /\ apply.run \in 0..made
      /\ Known(apply.plan) /\ apply.plan \in Plan
      /\ runs[apply.run].checkpoints \subseteq {ShapeOfPlan(apply.plan)}
      /\ apply.run = planFile.run => ShapeOfPlan(apply.plan) = ShapeOfPlan(planFile.plan)
      /\ runs \in [RunId -> [plan : Plan, torn : BOOLEAN, checkpoints : SUBSET Shapes]]
  BY <1>1, ApplyRun
<1>4. /\ apply' \in [at : ApplySteps, run : 0..made, plan : Plan, resume : BOOLEAN, read : State]
      /\ apply'.at = "save" /\ apply'.run = apply.run /\ apply'.plan = apply.plan
  BY <1>1, GoesOn, "save" \in ApplySteps DEF ApplySteps
<1>5. /\ runs' \in [RunId -> [plan : Plan, torn : BOOLEAN, checkpoints : SUBSET Shapes]]
      /\ \A r \in RunId : /\ runs'[r].checkpoints = runs[r].checkpoints
                          /\ runs'[r].plan = runs[r].plan
  BY <1>1, <1>3
<1>6. newest # 0 => newest \in RunId
  BY ProjectAssumption DEF FilesInv, FilesType, RunId
<1>7. planFile.run # 0 => planFile.run \in RunId
  BY ProjectAssumption DEF FilesInv, FilesType, RunId
<1>8. FilesType'
  BY <1>1, <1>2, <1>4, <1>5 DEF FilesInv, FilesType
<1>9. RunsInv'
  BY <1>1, <1>2, <1>5, <1>6 DEF FilesInv, RunsInv, Known, ShapeOfPlan
<1>10. PlanFileInv'
  BY <1>1, <1>2, <1>4, <1>5, <1>7 DEF FilesInv, PlanFileInv, Known, ShapeOfPlan
<1>11. ApplyInv'
  BY <1>1, <1>2, <1>3, <1>4, <1>5 DEF FilesInv, ApplyInv, Known, ShapeOfPlan
<1> QED
  BY <1>2, <1>8, <1>9, <1>10, <1>11 DEF FilesInv

LEMMA SavePlanStep ==
  ASSUME FilesInv, SavePlan
  PROVE  FilesInv'
<1>1. /\ apply.at = "save" /\ initUnchanged /\ ApplyGoes("run")
      /\ UNCHANGED <<newest, planFile, made, state>>
      /\ runs' = [runs EXCEPT ![apply.run].torn = FALSE, ![apply.run].plan = apply.plan]
  BY DEF SavePlan, ApplyAt
<1>2. /\ ConfigsBegan' /\ sourceOf' \in [InitId -> Sources] /\ inits' = inits
      /\ sourceOf' = sourceOf
  BY <1>1, CommandKeeps
<1>3. /\ apply.run \in RunId /\ apply.run <= made
      /\ Known(apply.plan) /\ apply.plan \in Plan
      /\ runs[apply.run].checkpoints \subseteq {ShapeOfPlan(apply.plan)}
      /\ apply.run = planFile.run => ShapeOfPlan(apply.plan) = ShapeOfPlan(planFile.plan)
      /\ runs \in [RunId -> [plan : Plan, torn : BOOLEAN, checkpoints : SUBSET Shapes]]
  BY <1>1, ApplyRun
<1>4. /\ apply' \in [at : ApplySteps, run : 0..made, plan : Plan, resume : BOOLEAN, read : State]
      /\ apply'.at = "run" /\ apply'.run = apply.run /\ apply'.plan = apply.plan
  BY <1>1, GoesOn, "run" \in ApplySteps DEF ApplySteps
<1>5. /\ runs' \in [RunId -> [plan : Plan, torn : BOOLEAN, checkpoints : SUBSET Shapes]]
      /\ \A r \in RunId :
           /\ runs'[r].checkpoints = runs[r].checkpoints
           /\ runs'[r].plan = IF r = apply.run THEN apply.plan ELSE runs[r].plan
  BY <1>1, <1>3
<1>6. newest # 0 => newest \in RunId
  BY ProjectAssumption DEF FilesInv, FilesType, RunId
<1>7. planFile.run # 0 => planFile.run \in RunId
  BY ProjectAssumption DEF FilesInv, FilesType, RunId
<1>8. FilesType'
  BY <1>1, <1>2, <1>4, <1>5 DEF FilesInv, FilesType
<1>9. RunsInv'
  <2>1. newest' # 0 => runs'[newest'].checkpoints # {}
    BY <1>1, <1>5, <1>6 DEF FilesInv, RunsInv
  <2>2. ASSUME NEW r \in RunId, runs'[r].checkpoints # {}
        PROVE  /\ r <= made' /\ Known(runs[r].plan)'
               /\ runs'[r].checkpoints = {ShapeOfPlan(runs[r].plan)}'
    <3>1. CASE r = apply.run
      BY <1>1, <1>2, <1>3, <1>5, <2>2, <3>1 DEF Known, ShapeOfPlan
    <3>2. CASE r # apply.run
      BY <1>1, <1>2, <1>5, <2>2, <3>2 DEF FilesInv, RunsInv, Known, ShapeOfPlan
    <3> QED
      BY <3>1, <3>2
  <2> QED
    BY <2>1, <2>2 DEF RunsInv
<1>10. PlanFileInv'
  BY <1>1, <1>2, <1>4, <1>5, <1>7 DEF FilesInv, PlanFileInv, Known, ShapeOfPlan
<1>11. ApplyInv'
  <2>1. apply'.run # 0
    BY <1>3, <1>4 DEF RunId
  <2> QED
    BY <1>1, <1>2, <1>3, <1>4, <1>5, <2>1 DEF ApplyInv, Known, ShapeOfPlan
<1> QED
  BY <1>2, <1>8, <1>9, <1>10, <1>11 DEF FilesInv

LEMMA CommitCheckpointStep ==
  ASSUME ProjectInv, FilesInv, CommitCheckpoint
  PROVE  FilesInv'
<1>1. /\ apply.at = "run" /\ initUnchanged /\ newest' = apply.run
      /\ UNCHANGED <<planFile, apply, made, state>>
      /\ runs' = [runs EXCEPT ![apply.run].checkpoints = @ \cup {ShapeOfPlan(apply.plan)}]
  BY DEF CommitCheckpoint, ApplyAt
<1>2. /\ ConfigsBegan' /\ sourceOf' \in [InitId -> Sources] /\ inits' = inits
      /\ sourceOf' = sourceOf
  BY <1>1, CommandKeeps
<1>3. /\ apply.run \in RunId /\ apply.run <= made /\ apply.run \in 0..made
      /\ Known(apply.plan) /\ apply.plan \in Plan
      /\ runs[apply.run].checkpoints \subseteq {ShapeOfPlan(apply.plan)}
      /\ apply.run = planFile.run => ShapeOfPlan(apply.plan) = ShapeOfPlan(planFile.plan)
      /\ runs[apply.run].plan = apply.plan
      /\ runs \in [RunId -> [plan : Plan, torn : BOOLEAN, checkpoints : SUBSET Shapes]]
  BY <1>1, ApplyRun
<1>4. ShapeOfPlan(apply.plan) \in Shapes
  <2>1. apply.plan.config \in InitId
    <3>1. apply.plan.config \in 1..inits
      BY <1>3 DEF Known
    <3>2. inits \in Nat /\ MaxInits \in Nat /\ inits <= MaxInits
      BY ProjectAssumption DEF FilesInv, ConfigsBegan, ProjectInv, InitType
    <3> QED
      BY <3>1, <3>2 DEF InitId
  <2>2. sourceOf[apply.plan.config] \in Sources
    BY <2>1 DEF FilesInv, FilesType
  <2> QED
    BY <2>2 DEF Shapes, ShapeOfPlan
<1>5. /\ runs' \in [RunId -> [plan : Plan, torn : BOOLEAN, checkpoints : SUBSET Shapes]]
      /\ \A r \in RunId :
           /\ runs'[r].checkpoints = IF r = apply.run THEN {ShapeOfPlan(apply.plan)}
                                                      ELSE runs[r].checkpoints
           /\ runs'[r].plan = runs[r].plan
  <2>1. runs[apply.run].checkpoints \cup {ShapeOfPlan(apply.plan)} = {ShapeOfPlan(apply.plan)}
    BY <1>3
  <2> QED
    BY <1>1, <1>3, <1>4, <2>1
<1>6. planFile.run # 0 => planFile.run \in RunId
  BY ProjectAssumption DEF FilesInv, FilesType, RunId
<1>7. FilesType'
  BY <1>1, <1>2, <1>3, <1>5 DEF FilesInv, FilesType
<1>8. RunsInv'
  <2>1. runs'[newest'].checkpoints # {}
    BY <1>1, <1>3, <1>5
  <2>2. ASSUME NEW r \in RunId, runs'[r].checkpoints # {}
        PROVE  /\ r <= made' /\ Known(runs[r].plan)'
               /\ runs'[r].checkpoints = {ShapeOfPlan(runs[r].plan)}'
    <3>1. CASE r = apply.run
      BY <1>1, <1>2, <1>3, <1>5, <2>2, <3>1 DEF Known, ShapeOfPlan
    <3>2. CASE r # apply.run
      BY <1>1, <1>2, <1>5, <2>2, <3>2 DEF FilesInv, RunsInv, Known, ShapeOfPlan
    <3> QED
      BY <3>1, <3>2
  <2> QED
    BY <2>1, <2>2 DEF RunsInv
<1>9. PlanFileInv'
  BY <1>1, <1>2, <1>3, <1>5, <1>6 DEF FilesInv, PlanFileInv, Known, ShapeOfPlan
<1>10. ApplyInv'
  <2>1. apply.run # 0
    BY <1>3 DEF RunId
  <2> QED
    BY <1>1, <1>2, <1>3, <1>5, <2>1 DEF ApplyInv, Known, ShapeOfPlan
<1> QED
  BY <1>2, <1>7, <1>8, <1>9, <1>10 DEF FilesInv

LEMMA FilesStep == ProjectInv /\ FilesInv /\ [Next]_vars => FilesInv'
<1> SUFFICES ASSUME ProjectInv, FilesInv, [Next]_vars PROVE FilesInv'
  OBVIOUS
<1>1. CASE UNCHANGED vars
  <2>1. /\ initUnchanged /\ UNCHANGED <<runs, newest, planFile, made, apply, state>>
        /\ state' \in State
    BY <1>1 DEF vars, initUnchanged, FilesInv, FilesType
  <2> QED
    BY <2>1, CommandGoes DEF FilesInv, FilesType, PlanFileInv, ApplyInv
<1>2. CASE Next
  BY <1>2, InitSteps, OpenSteps, WritePlanStep, PlanFreshStep, ChooseRunStep, PlanResumedStep,
     LoadSavedPlanStep, TruncatePlanStep, SavePlanStep, CommitCheckpointStep, ReadStateStep,
     EndSteps DEF Next
<1> QED
  BY <1>1, <1>2

(* Whatever is initialised, planned, applied, resumed, failed or killed in *)
(* between, the checkpoints of a run were all made by plans compatible     *)
(* with the one that a resume of the run loads (command.go                 *)
(* validateResumeCompatibility, runtime.go Engine.apply).                  *)
THEOREM ResumesFindFittingCheckpoints == Spec => []CheckpointsFitThePlan
<1>1. Init => ProjectInv /\ FilesInv
  BY ProjectInit, FilesInit
<1>2. ProjectInv /\ FilesInv /\ [Next]_vars => (ProjectInv /\ FilesInv)'
  BY ProjectStep, FilesStep
<1>3. FilesInv => CheckpointsFitThePlan
  BY DEF FilesInv, RunsInv, CheckpointsFitThePlan
<1> QED
  BY <1>1, <1>2, <1>3, PTL DEF Spec
================================================================================
