---------------------------- MODULE ApplyPlanProofs ----------------------------
(***************************************************************************)
(* What holds of the apply of any plan, whatever its nodes, dependencies,  *)
(* nesting, limits and task lists, and however often it is resumed.        *)
(*                                                                         *)
(* The inductive invariant has a part for each property: where a worker    *)
(* has its permits (PermitInv), what a cancelled error is due to           *)
(* (CauseInv), what a success stands for (DoneInv), and which task a       *)
(* result belongs to, also after a restart (MatchInv).                     *)
(***************************************************************************)
EXTENDS ApplyPlan, FiniteSetTheorems, TLAPS

Steps  == {Idle, "permit", "building", "applying", "cleaning", "ok", "failed"}
Errors == {None, "own", "canceled"}
Lists  == Seq(TaskSpec)

TypeOK ==
  /\ step \in [Unit -> Steps]
  /\ err \in [Unit -> Errors]
  /\ held \in [Worker -> SUBSET Exec]
  /\ failure \in [Exec -> Errors]
  /\ tasks \in [Dynamic -> Lists \cup {None}]
  /\ saved \in [Dynamic -> Lists \cup {None}]
  /\ result \in [Unit -> {None} \cup Node \cup TaskSpec \cup Lists]
  /\ unit \in [Worker -> {None, "started"} \cup Node \cup TaskSpec]
  /\ interrupted \in BOOLEAN /\ expired \subseteq Module
  /\ returned \in Errors \cup {"ok"}
  /\ restarts \in Nat

(* A worker at work has every permit of its scope, one that is not there   *)
(* has none, and no semaphore has given out more than it has.              *)
PermitInv ==
  /\ \A w \in Worker :
       /\ held[w] \subseteq Semaphores(HomeOf(w))
       /\ step[w] \in {"building", "applying", "cleaning"} => held[w] = Semaphores(HomeOf(w))
       /\ step[w] \in {Idle, "ok", "failed"} => held[w] = {}
  /\ \A y \in Exec : Width[y] > 0 => Cardinality(Holders(y)) <= Width[y]

(* While no context has ended, whatever is cancelled was cancelled by the  *)
(* failure of an executor around it, or of a task of its own block.        *)
Quiet == ~interrupted /\ expired = {}
Failing(x) == \E y \in Within[x] : failure[y] # None

CauseInv ==
  Quiet =>
    /\ failure[Root] # "canceled" /\ returned # "canceled"
    /\ \A m \in Module : failure[m] = "canceled" => Failing(Home[m])
    /\ \A n \in Node : err[n] = "canceled" => Failing(Home[n])
    /\ \A t \in Task : err[t] = "canceled" => Failing(Home[Owner(t)]) \/ err[Owner(t)] # None

(* What has succeeded, or will unless its cleanup fails.                   *)
Succeeded(u) == step[u] = "ok" \/ (step[u] = "cleaning" /\ err[u] = None)
Waiting(u) == step[u] \in {Idle, "permit", "building", "applying"}

DoneInv ==
  /\ \A u \in Unit : Succeeded(u) => result[u] # None
  /\ \A m \in Module : Succeeded(m) => \A n \in Node : Home[n] = m => step[n] = "ok"
  /\ \A d \in Dynamic : Succeeded(d) => \A t \in TasksOf(d) : step[t] = "ok"
  /\ \A t \in Task : step[t] = "failed" => err[Owner(t)] # None
  /\ returned = "ok" => \A n \in Node : Home[n] = Root => step[n] = "ok"

(* The list a block works on is the durable one, it does not change while  *)
(* there is anything of it, and the unit of a task that was ever completed *)
(* holds the task its index has in that list.                              *)
MatchInv ==
  /\ \A u \in Unit : Waiting(u) => result[u] = None
  /\ \A w \in Worker : step[w] = "applying" => unit[w] # None
  /\ \A d \in Dynamic :
       /\ tasks[d] # None => saved[d] = tasks[d]
       /\ step[d] \in {Idle, "permit", "building"} => tasks[d] = None
       /\ step[d] \in {"applying", "cleaning", "ok"} => tasks[d] # None
       /\ ~ResumedRun /\ saved[d] # None => tasks[d] # None
       /\ saved[d] # None => Len(saved[d]) <= MaxTasks
       /\ result[d] # None => result[d] = tasks[d]
  /\ \A t \in Task :
       /\ step[t] # Idle => tasks[Owner(t)] # None /\ t \in TasksOf(Owner(t))
       /\ result[t] # None => result[t] = tasks[Owner(t)][Index(t)]
       /\ unit[t] \notin {None, "started"} =>
            /\ saved[Owner(t)] # None /\ Index(t) <= Len(saved[Owner(t)])
            /\ unit[t] = saved[Owner(t)][Index(t)]

IInv == TypeOK /\ PermitInv /\ CauseInv /\ DoneInv /\ MatchInv

--------------------------------------------------------------------------------
(* The nesting of the plans, and the finite sets they are made of.         *)

LEMMA WithinType ==
  ASSUME NEW x \in Exec
  PROVE  Within[x] \subseteq Exec /\ x \in Within[x]
BY DEF Within

(* The root is nested in nothing.                                          *)
LEMMA WithinRoot == Within[Root] = {Root}
<1>1. Root \in Exec /\ Root \notin Module
  BY PlanAssumption DEF Exec, Module
<1>2. {Root} \in SUBSET Exec /\ Nested({Root})
  BY <1>1 DEF Nested
<1>3. Within[Root] \subseteq {Root}
  BY <1>1, <1>2 DEF Within
<1>4. QED
  BY <1>1, <1>3, WithinType

LEMMA HomeType ==
  /\ \A n \in Node : Home[n] \in Exec
  /\ \A m \in Module : m \in Node /\ m \in Exec
  /\ Root \in Exec
BY PlanAssumption DEF Module, Exec

(* A module is nested in itself and in what its plan is nested in.         *)
LEMMA WithinModule ==
  ASSUME NEW m \in Module
  PROVE  Within[m] = Within[Home[m]] \cup {m}
<1>0. m \in Exec /\ Home[m] \in Exec
  BY HomeType
<1> DEFINE Least(x, y) == \A S \in SUBSET Exec : x \in S /\ Nested(S) => y \in S
<1>1. \A x \in Exec : Within[x] = {y \in Exec : Least(x, y)}
  BY DEF Within
<1>2. ASSUME NEW y \in Exec, Least(Home[m], y) PROVE Least(m, y)
  <2>1. \A S \in SUBSET Exec : m \in S /\ Nested(S) => Home[m] \in S
    BY DEF Nested
  <2>2. QED
    BY <1>2, <2>1
<1>3. ASSUME NEW y \in Exec, Least(m, y), y # m PROVE Least(Home[m], y)
  <2> SUFFICES ASSUME NEW S \in SUBSET Exec, Home[m] \in S, Nested(S)
               PROVE  y \in S
    OBVIOUS
  <2>1. S \cup {m} \in SUBSET Exec /\ Nested(S \cup {m})
    BY <1>0 DEF Nested
  <2>2. QED
    BY <1>3, <2>1
<1>4. Least(m, m)
  OBVIOUS
<1> HIDE DEF Least
<1>5. QED
  BY <1>0, <1>1, <1>2, <1>3, <1>4

(* What holds of the root, and of a module once it holds of the executor   *)
(* the module is in, holds of all.                                         *)
LEMMA NestInduction ==
  ASSUME NEW S \in SUBSET Exec, Root \in S, \A m \in Module : Home[m] \in S => m \in S
  PROVE  S = Exec
<1> SUFFICES ASSUME NEW x \in Exec, x \notin S PROVE FALSE
  OBVIOUS
<1>1. Nested(Exec \ S) /\ Exec \ S \in SUBSET Exec
  BY HomeType DEF Nested
<1>2. Root \in Within[x]
  BY PlanAssumption
<1>3. Root \in Exec \ S
  BY <1>1, <1>2 DEF Within
<1>4. QED
  BY <1>3

LEMMA TaskType ==
  /\ \A t \in Task : /\ Owner(t) \in Dynamic /\ Index(t) \in 1..MaxTasks
                     /\ t = <<Owner(t), Index(t)>> /\ t \in Unit /\ t \in Worker /\ t \notin Node
                     /\ t \notin Module /\ t \notin Research
  /\ \A d \in Dynamic : \A i \in 1..MaxTasks :
       <<d, i>> \in Task /\ Owner(<<d, i>>) = d /\ Index(<<d, i>>) = i
BY NamesAssumption DEF Task, Owner, Index, Unit, Worker, Module, Research

LEMMA KindType ==
  /\ \A d \in Dynamic : d \in Node /\ d \notin Worker /\ d \notin Module
  /\ \A m \in Module : m \in Node /\ m \notin Worker
  /\ \A r \in Research : r \in Node /\ r \notin Task /\ r \in Worker /\ r \notin Module
  /\ \A n \in Node : n \in Unit /\ n \notin Task
  /\ Worker \subseteq Unit
BY NamesAssumption DEF Dynamic, Module, Research, Worker, Unit

LEMMA HomeOfType ==
  ASSUME NEW u \in Unit
  PROVE  HomeOf(u) \in Exec
BY HomeType, TaskType, KindType DEF HomeOf, Unit, Dynamic

LEMMA WorkersAreFinite == IsFiniteSet(Worker)
<1>1. IsFiniteSet(Research) /\ IsFiniteSet(Dynamic)
  BY PlanAssumption, FS_Subset DEF Research, Dynamic
<1>2. IsFiniteSet(1..MaxTasks)
  BY TaskAssumption, FS_Interval
<1>3. IsFiniteSet(Task)
  BY <1>1, <1>2, FS_Product DEF Task
<1>4. QED
  BY <1>1, <1>3, FS_Union DEF Worker

--------------------------------------------------------------------------------
(* What the shared pieces of the actions do.                               *)

(* A failure is recorded once and for all.                                 *)
LEMMA RecordEffect ==
  ASSUME TypeOK, NEW u \in Unit, NEW e \in Errors, Record(u, e)
  PROVE  /\ failure' \in [Exec -> Errors]
         /\ \A x \in Exec : failure[x] # None => failure'[x] = failure[x]
         /\ \A x \in Exec : failure'[x] # failure[x] => u \in Node /\ x = Home[u] /\ failure'[x] = e
         /\ u \in Node /\ e # None => failure'[Home[u]] # None
BY HomeType DEF TypeOK, Record, FirstFailure

LEMMA ReturnEffect ==
  ASSUME TypeOK, NEW u \in Unit, NEW e \in Errors, Return(u, e)
  PROVE  /\ step' \in [Unit -> Steps] /\ err' \in [Unit -> Errors]
         /\ held' \in [Worker -> SUBSET Exec]
         /\ step' = [step EXCEPT ![u] = IF e = None THEN "ok" ELSE "failed"]
         /\ err'[u] = e
         /\ \A v \in Unit : v # u => \/ err'[v] = err[v]
                                     \/ u \in Task /\ v = Owner(u) /\ err[v] = None /\ err'[v] = e
         /\ u \in Task /\ e # None => err'[Owner(u)] # None
         /\ u \in Worker => held'[u] = {}
         /\ \A w \in Worker : w # u => held'[w] = held[w]
<1>1. u \in Task => Owner(u) \in Unit /\ Owner(u) # u
  BY TaskType, KindType
<1>2. step' \in [Unit -> Steps] /\ step' = [step EXCEPT ![u] = IF e = None THEN "ok" ELSE "failed"]
  BY DEF TypeOK, Return, GoTo, Steps
<1>3. held' \in [Worker -> SUBSET Exec] /\ (u \in Worker => held'[u] = {})
      /\ \A w \in Worker : w # u => held'[w] = held[w]
  BY DEF TypeOK, Return
<1> DEFINE Others == \A v \in Unit : v # u => \/ err'[v] = err[v]
                                              \/ u \in Task /\ v = Owner(u) /\ err[v] = None /\ err'[v] = e
           Goal == /\ err' \in [Unit -> Errors] /\ err'[u] = e /\ Others
                   /\ u \in Task /\ e # None => err'[Owner(u)] # None
<1>4. ASSUME u \in Task, e # None PROVE Goal
  <2> DEFINE o == Owner(u)
  <2>1. err' = [err EXCEPT ![u] = e, ![o] = IF @ = None THEN e ELSE @]
    BY <1>4 DEF Return
  <2>2. o \in Unit /\ o # u /\ err \in [Unit -> Errors]
    BY <1>1, <1>4 DEF TypeOK
  <2>3. o = Owner(u)
    OBVIOUS
  <2> HIDE DEF o
  <2>4. /\ err' \in [Unit -> Errors] /\ err'[u] = e
        /\ err'[o] = IF err[o] = None THEN e ELSE err[o]
        /\ \A v \in Unit : v # u /\ v # o => err'[v] = err[v]
    BY <2>1, <2>2
  <2>5. err'[o] # None
    BY <1>4, <2>4
  <2>6. Others
    BY <1>4, <2>3, <2>4
  <2>7. QED
    BY <1>4, <2>3, <2>4, <2>5, <2>6
<1>5. ASSUME ~(u \in Task /\ e # None) PROVE Goal
  <2>1. err' = [err EXCEPT ![u] = e]
    BY <1>5 DEF Return
  <2>2. err \in [Unit -> Errors]
    BY DEF TypeOK
  <2>3. QED
    BY <1>5, <2>1, <2>2
<1>6. Goal
  BY <1>4, <1>5
<1>7. QED
  BY <1>2, <1>3, <1>6

LEMMA AppliedEffect ==
  ASSUME TypeOK, NEW u \in Unit, NEW e \in Errors, Applied(u, e)
  PROVE  \E f \in Errors :
           /\ f = IF e = None /\ Stopped(u) THEN "canceled" ELSE e
           /\ step' = [step EXCEPT ![u] = "cleaning"] /\ step' \in [Unit -> Steps]
           /\ err' = [err EXCEPT ![u] = f] /\ err' \in [Unit -> Errors]
           /\ Record(u, f)
           /\ UNCHANGED <<held, tasks, interrupted, expired, returned>>
<1> DEFINE f == IF e = None /\ Stopped(u) THEN "canceled" ELSE e
<1>1. f \in Errors
  BY DEF Errors
<1>2. QED
  BY <1>1 DEF Applied, TypeOK, GoTo, Steps

(* A block without a failed task has a result for each, in the list's order. *)
LEMMA JoinedList ==
  ASSUME IInv, NEW d \in Dynamic, JoinTasks(d), err[d] = None
  PROVE  /\ \A t \in TasksOf(d) : step[t] = "ok"
         /\ tasks[d] \in Lists
         /\ [i \in 1..Len(tasks[d]) |-> result[<<d, i>>]] = tasks[d]
<1>1. \A t \in TasksOf(d) : t \in Task /\ Owner(t) = d /\ step[t] \in Settled
  BY DEF JoinTasks, TasksOf
<1>2. \A t \in TasksOf(d) : step[t] = "ok"
  BY <1>1 DEF Settled, IInv, DoneInv
<1>3. step[d] = "applying" /\ tasks[d] # None /\ tasks[d] \in Lists /\ saved[d] = tasks[d]
  BY DEF JoinTasks, IInv, TypeOK, MatchInv
<1>4. Len(tasks[d]) \in Nat /\ Len(tasks[d]) <= MaxTasks
  BY <1>3 DEF Lists, IInv, MatchInv
<1>5. ASSUME NEW i \in 1..Len(tasks[d]) PROVE result[<<d, i>>] = tasks[d][i]
  <2>1. i \in 1..MaxTasks
    BY <1>4, TaskAssumption
  <2>2. <<d, i>> \in Task /\ Owner(<<d, i>>) = d /\ Index(<<d, i>>) = i
    BY <2>1, TaskType
  <2>3. <<d, i>> \in TasksOf(d) /\ <<d, i>> \in Unit
    BY <1>4, <2>2, TaskType DEF TasksOf
  <2>4. result[<<d, i>>] # None
    BY <1>2, <2>3 DEF IInv, DoneInv, Succeeded
  <2>5. QED
    BY <2>2, <2>4 DEF IInv, MatchInv
<1>6. tasks[d] = [i \in 1..Len(tasks[d]) |-> tasks[d][i]]
  BY <1>3 DEF Lists
<1>7. QED
  BY <1>2, <1>3, <1>5, <1>6

(* A worker that has begun is a research block, or a task of its list.     *)
LEMMA SubjectType ==
  ASSUME IInv, NEW w \in Worker, step[w] # Idle
  PROVE  /\ Subject(w) \in Node \cup TaskSpec
         /\ Subject(w) \notin {None, "started"}
<1>1. CASE w \in Task
  <2>1. tasks[Owner(w)] # None /\ w \in TasksOf(Owner(w)) /\ Owner(w) \in Dynamic
    BY <1>1, TaskType DEF IInv, MatchInv
  <2>2. tasks[Owner(w)] \in Seq(TaskSpec) /\ Index(w) \in 1..Len(tasks[Owner(w)])
    BY <1>1, <2>1, TaskType DEF IInv, TypeOK, Lists, TasksOf
  <2>3. QED
    BY <1>1, <2>2, NamesAssumption DEF Subject
<1>2. CASE w \notin Task
  BY <1>2, KindType, NamesAssumption DEF Subject, Worker
<1>3. QED
  BY <1>1, <1>2

--------------------------------------------------------------------------------
LEMMA TypeInit == Init => TypeOK
<1> SUFFICES ASSUME Init PROVE TypeOK
  OBVIOUS
<1>1. /\ step \in [Unit -> Steps] /\ err \in [Unit -> Errors]
      /\ held \in [Worker -> SUBSET Exec] /\ failure \in [Exec -> Errors]
  BY DEF Init, FreshRun, Steps, Errors, Idle
<1>2. /\ tasks \in [Dynamic -> Lists \cup {None}] /\ saved \in [Dynamic -> Lists \cup {None}]
      /\ result \in [Unit -> {None} \cup Node \cup TaskSpec \cup Lists]
      /\ unit \in [Worker -> {None, "started"} \cup Node \cup TaskSpec]
  BY DEF Init, FreshRun
<1>3. /\ interrupted \in BOOLEAN /\ expired \subseteq Module
      /\ returned \in Errors \cup {"ok"} /\ restarts \in Nat
  BY DEF Init, FreshRun, Errors
<1>4. QED
  BY <1>1, <1>2, <1>3 DEF TypeOK

LEMMA TypeStep == IInv /\ [Next]_vars => TypeOK'
<1> SUFFICES ASSUME IInv, [Next]_vars PROVE TypeOK'
  OBVIOUS
<1> USE DEF Idle
<1>0. TypeOK
  BY DEF IInv
<1>1. "own" \in Errors /\ "canceled" \in Errors /\ None \in Errors
  BY DEF Errors
<1>2. ASSUME NEW u \in Unit, NEW e \in Errors, Return(u, e), Record(u, e),
             UNCHANGED <<tasks, result, interrupted, expired, returned, durable, restarts>>
      PROVE  TypeOK'
  BY <1>0, <1>2, ReturnEffect, RecordEffect DEF TypeOK, durable
<1>3. ASSUME NEW u \in Unit, NEW e \in Errors, Applied(u, e),
             result' \in [Unit -> {None} \cup Node \cup TaskSpec \cup Lists],
             UNCHANGED <<durable, restarts>>
      PROVE  TypeOK'
  <2>1. PICK f \in Errors : /\ step' \in [Unit -> Steps] /\ err' \in [Unit -> Errors]
                            /\ Record(u, f)
                            /\ UNCHANGED <<held, tasks, interrupted, expired, returned>>
    BY <1>0, <1>3, AppliedEffect
  <2>2. failure' \in [Exec -> Errors]
    BY <1>0, <2>1, RecordEffect
  <2>3. QED
    BY <1>0, <1>3, <2>1, <2>2 DEF TypeOK, durable
<1>4. ASSUME NEW n \in Node, Execute(n) PROVE TypeOK'
  <2>1. n \in Unit
    BY KindType
  <2>2. CASE Canceled(Home[n])
    BY <1>1, <1>2, <1>4, <2>1, <2>2 DEF Execute
  <2>3. CASE ~Canceled(Home[n])
    BY <1>0, <1>4, <2>1, <2>3 DEF Execute, GoTo, TypeOK, Steps, durable
  <2>4. QED
    BY <2>2, <2>3
<1>5. ASSUME NEW w \in Worker, Acquire(w) PROVE TypeOK'
  <2>1. PICK y \in Missing(w) : /\ held' = [held EXCEPT ![w] = @ \cup {y}]
                                /\ IF Missing(w) = {y} THEN GoTo(w, "building") ELSE UNCHANGED step
    BY <1>5 DEF Acquire
  <2>2. y \in Exec /\ w \in Unit
    BY <1>5, KindType, HomeOfType, WithinType DEF Missing, Semaphores
  <2>3. held' \in [Worker -> SUBSET Exec]
    BY <1>0, <2>1, <2>2 DEF TypeOK
  <2>4. step' \in [Unit -> Steps]
    BY <1>0, <2>1, <2>2 DEF TypeOK, GoTo, Steps
  <2>5. QED
    BY <1>0, <1>5, <2>3, <2>4 DEF Acquire, TypeOK, durable
<1>6. ASSUME NEW w \in Worker, Refuse(w) PROVE TypeOK'
  BY <1>1, <1>2, <1>6, KindType DEF Refuse
<1>7. ASSUME NEW u \in Unit, BuildFails(u) PROVE TypeOK'
  BY <1>1, <1>2, <1>7 DEF BuildFails
<1>8. ASSUME NEW w \in Worker, BuildWorker(w) PROVE TypeOK'
  BY <1>0, <1>8, KindType DEF BuildWorker, GoTo, TypeOK, Steps
<1>9. ASSUME NEW d \in Dynamic, MaterializeTasks(d) PROVE TypeOK'
  <2>1. d \in Unit
    BY KindType
  <2>2. \A l \in TaskLists[d] : l \in Lists
    BY TaskAssumption DEF Lists
  <2>3. tasks' \in [Dynamic -> Lists \cup {None}] /\ saved' \in [Dynamic -> Lists \cup {None}]
    <3>1. CASE ResumedRun /\ saved[d] # None
      BY <1>0, <1>9, <3>1 DEF MaterializeTasks, TypeOK
    <3>2. CASE ~(ResumedRun /\ saved[d] # None)
      <4>1. PICK l \in TaskLists[d] : tasks' = [tasks EXCEPT ![d] = l] /\ saved' = [saved EXCEPT ![d] = l]
        BY <1>9, <3>2 DEF MaterializeTasks
      <4>2. QED
        BY <1>0, <2>2, <4>1 DEF TypeOK
    <3>3. QED
      BY <3>1, <3>2
  <2>4. QED
    BY <1>0, <1>9, <2>1, <2>3 DEF MaterializeTasks, GoTo, TypeOK, Steps
<1>10. ASSUME NEW m \in Module, BuildModule(m) PROVE TypeOK'
  BY <1>0, <1>10, KindType, HomeType DEF BuildModule, FirstFailure, GoTo, TypeOK, Steps, Errors, durable
<1>11. ASSUME NEW n \in Node, BuildFolder(n) PROVE TypeOK'
  BY <1>0, <1>11, KindType DEF BuildFolder, GoTo, TypeOK, Steps, durable
<1>12. ASSUME NEW w \in Worker, CompleteUnit(w) PROVE TypeOK'
  <2>1. Subject(w) \in Node \cup TaskSpec
    BY <1>12, SubjectType DEF CompleteUnit
  <2>2. QED
    BY <1>0, <1>12, <2>1 DEF CompleteUnit, TypeOK, run
<1>13. ASSUME NEW w \in Worker, PublishUnit(w) PROVE TypeOK'
  <2>1. unit[w] \in {None} \cup Node \cup TaskSpec \cup Lists /\ w \in Unit
    BY <1>0, <1>13, KindType DEF PublishUnit, TypeOK
  <2>2. result' \in [Unit -> {None} \cup Node \cup TaskSpec \cup Lists]
    BY <1>0, <1>13, <2>1 DEF PublishUnit, TypeOK
  <2>3. QED
    BY <1>1, <1>3, <1>13, <2>1, <2>2 DEF PublishUnit
<1>14. ASSUME NEW w \in Worker, WorkFails(w) PROVE TypeOK'
  <2>1. w \in Unit /\ UNCHANGED <<result, durable, restarts>>
    BY <1>14, KindType DEF WorkFails
  <2>2. PICK e \in {"own", "canceled"} : Applied(w, e)
    BY <1>14 DEF WorkFails
  <2>3. QED
    BY <1>0, <1>1, <1>3, <2>1, <2>2 DEF TypeOK
<1>15. ASSUME NEW n \in Node, ApplyFolder(n) PROVE TypeOK'
  <2>1. n \in Unit
    BY KindType
  <2>2. result' \in [Unit -> {None} \cup Node \cup TaskSpec \cup Lists]
    BY <1>0, <1>15, <2>1 DEF ApplyFolder, TypeOK
  <2>3. QED
    BY <1>1, <1>3, <1>15, <2>1, <2>2 DEF ApplyFolder
<1>16. ASSUME NEW t \in Task, StartTask(t) PROVE TypeOK'
  BY <1>0, <1>16, TaskType DEF StartTask, GoTo, TypeOK, Steps, durable
<1>17. ASSUME NEW d \in Dynamic, JoinTasks(d) PROVE TypeOK'
  <2>1. d \in Unit
    BY KindType
  <2>2. CASE err[d] # None
    BY <1>0, <1>3, <1>17, <2>1, <2>2 DEF JoinTasks, TypeOK
  <2>3. CASE err[d] = None
    <3>1. [i \in 1..Len(tasks[d]) |-> result[<<d, i>>]] \in Lists
      BY <1>17, <2>3, JoinedList
    <3>2. result' = [result EXCEPT ![d] = [i \in 1..Len(tasks[d]) |-> result[<<d, i>>]]]
      BY <1>17, <2>3 DEF JoinTasks
    <3>3. result' \in [Unit -> {None} \cup Node \cup TaskSpec \cup Lists]
      BY <1>0, <2>1, <3>1, <3>2 DEF TypeOK
    <3>4. QED
      BY <1>1, <1>3, <1>17, <2>1, <2>3, <3>3 DEF JoinTasks
  <2>4. QED
    BY <2>2, <2>3
<1>18. ASSUME NEW m \in Module, FinishModule(m) PROVE TypeOK'
  <2>1. m \in Unit /\ m \in Node /\ failure[m] \in Errors
    BY <1>0, KindType, HomeType DEF TypeOK
  <2>2. result' \in [Unit -> {None} \cup Node \cup TaskSpec \cup Lists]
    BY <1>0, <1>18, <2>1 DEF FinishModule, TypeOK
  <2>3. QED
    BY <1>1, <1>3, <1>18, <2>1, <2>2 DEF FinishModule
<1>19. ASSUME NEW u \in Unit, Cleanup(u) PROVE TypeOK'
  <2> DEFINE e == IF err[u] = None /\ u \in Node /\ Stopped(u) THEN "canceled" ELSE err[u]
  <2>1. e \in Errors
    BY <1>0, <1>1 DEF TypeOK
  <2>2. Return(u, e) /\ Record(u, e)
        /\ UNCHANGED <<tasks, result, interrupted, expired, returned, durable, restarts>>
    BY <1>19 DEF Cleanup
  <2> HIDE DEF e
  <2>3. QED
    BY <1>2, <2>1, <2>2
<1>20. ASSUME Finish PROVE TypeOK'
  <2>1. failure[Root] \in Errors
    BY <1>0, HomeType DEF TypeOK
  <2>2. QED
    BY <1>0, <1>1, <1>20, <2>1 DEF Finish, TypeOK, durable
<1>21. ASSUME Interrupt PROVE TypeOK'
  BY <1>0, <1>21 DEF Interrupt, TypeOK, durable
<1>22. ASSUME NEW m \in Module, Expire(m) PROVE TypeOK'
  BY <1>0, <1>22 DEF Expire, TypeOK, durable
<1>23. ASSUME Restart PROVE TypeOK'
  <2>1. /\ step' \in [Unit -> Steps] /\ err' \in [Unit -> Errors]
        /\ held' \in [Worker -> SUBSET Exec] /\ failure' \in [Exec -> Errors]
    BY <1>23 DEF Restart, Steps, Errors
  <2>2. /\ tasks' \in [Dynamic -> Lists \cup {None}] /\ saved' = saved /\ unit' = unit
        /\ result' \in [Unit -> {None} \cup Node \cup TaskSpec \cup Lists]
    BY <1>23 DEF Restart, durable
  <2>3. /\ interrupted' \in BOOLEAN /\ expired' \subseteq Module
        /\ returned' \in Errors \cup {"ok"}
    BY <1>23 DEF Restart, Errors
  <2>4. restarts \in Nat /\ restarts' = restarts + 1
    BY <1>0, <1>23 DEF TypeOK, Restart
  <2>5. QED
    BY <1>0, <2>1, <2>2, <2>3, <2>4 DEF TypeOK
<1>24. ASSUME UNCHANGED vars PROVE TypeOK'
  BY <1>0, <1>24 DEF TypeOK, vars, run, durable
<1>25. QED
  BY <1>4, <1>5, <1>6, <1>7, <1>8, <1>9, <1>10, <1>11, <1>12, <1>13, <1>14, <1>15, <1>16,
     <1>17, <1>18, <1>19, <1>20, <1>21, <1>22, <1>23, <1>24
     DEF Next, Progress, WorkerStep

--------------------------------------------------------------------------------
(* Permits.                                                                *)

LEMMA FewerHolders ==
  ASSUME PermitInv, held \in [Worker -> SUBSET Exec], \A w \in Worker : held'[w] \subseteq held[w]
  PROVE  \A y \in Exec : Width[y] > 0 => Cardinality(Holders(y)') <= Width[y]
<1> SUFFICES ASSUME NEW y \in Exec, Width[y] > 0
             PROVE  Cardinality(Holders(y)') <= Width[y]
  OBVIOUS
<1>1. Holders(y)' \subseteq Holders(y) /\ Holders(y) \subseteq Worker
  BY DEF Holders
<1>2. IsFiniteSet(Holders(y)) /\ IsFiniteSet(Holders(y)')
  BY <1>1, WorkersAreFinite, FS_Subset
<1>3. /\ Cardinality(Holders(y)') \in Nat /\ Cardinality(Holders(y)) \in Nat
      /\ Cardinality(Holders(y)') <= Cardinality(Holders(y))
  BY <1>1, <1>2, FS_CardinalityType, FS_Subset
<1>4. Cardinality(Holders(y)) <= Width[y] /\ Width[y] \in Nat
  BY PlanAssumption DEF PermitInv
<1>5. QED
  BY <1>3, <1>4

(* A worker that moves on while at work, or queues up, has what it had.    *)
LEMMA PermitMove ==
  ASSUME IInv, UNCHANGED held,
         \A w \in Worker : \/ step'[w] = step[w]
                           \/ step'[w] = "permit"
                           \/ step[w] \in {"building", "applying"} /\ step'[w] \in {"applying", "cleaning"}
  PROVE  PermitInv'
<1>1. PermitInv /\ held \in [Worker -> SUBSET Exec]
  BY DEF IInv, TypeOK
<1>2. \A y \in Exec : Width[y] > 0 => Cardinality(Holders(y)') <= Width[y]
  BY <1>1, FewerHolders
<1>3. ASSUME NEW w \in Worker
      PROVE  /\ held'[w] \subseteq Semaphores(HomeOf(w))
             /\ step'[w] \in {"building", "applying", "cleaning"} => held'[w] = Semaphores(HomeOf(w))
             /\ step'[w] \in {Idle, "ok", "failed"} => held'[w] = {}
  BY <1>1 DEF PermitInv, Idle
<1>4. QED
  BY <1>2, <1>3 DEF PermitInv

LEMMA PermitReturn ==
  ASSUME IInv, NEW u \in Unit, NEW e \in Errors, Return(u, e)
  PROVE  PermitInv'
<1>1. PermitInv /\ TypeOK
  BY DEF IInv
<1>2. /\ step' = [step EXCEPT ![u] = IF e = None THEN "ok" ELSE "failed"]
      /\ u \in Worker => held'[u] = {}
      /\ \A w \in Worker : w # u => held'[w] = held[w]
  BY <1>1, ReturnEffect
<1>3. \A y \in Exec : Width[y] > 0 => Cardinality(Holders(y)') <= Width[y]
  BY <1>1, <1>2, FewerHolders DEF TypeOK
<1>4. ASSUME NEW w \in Worker
      PROVE  /\ held'[w] \subseteq Semaphores(HomeOf(w))
             /\ step'[w] \in {"building", "applying", "cleaning"} => held'[w] = Semaphores(HomeOf(w))
             /\ step'[w] \in {Idle, "ok", "failed"} => held'[w] = {}
  <2>1. w \in Unit /\ step \in [Unit -> Steps]
    BY <1>1, KindType DEF TypeOK
  <2>2. CASE w = u
    BY <1>2, <2>1, <2>2
  <2>3. CASE w # u
    BY <1>1, <1>2, <2>1, <2>3 DEF PermitInv
  <2>4. QED
    BY <2>2, <2>3
<1>5. QED
  BY <1>3, <1>4 DEF PermitInv

(* One more permit of one semaphore that has one to give.                  *)
LEMMA PermitAcquire ==
  ASSUME IInv, NEW w \in Worker, Acquire(w)
  PROVE  PermitInv'
<1>1. PermitInv /\ TypeOK /\ w \in Unit /\ step[w] = "permit"
  BY KindType DEF IInv, Acquire
<1>2. PICK y \in Missing(w) : /\ Cardinality(Holders(y)) < Width[y]
                              /\ held' = [held EXCEPT ![w] = @ \cup {y}]
                              /\ IF Missing(w) = {y} THEN GoTo(w, "building") ELSE UNCHANGED step
  BY DEF Acquire
<1>3. y \in Semaphores(HomeOf(w)) /\ y \notin held[w] /\ y \in Exec
  BY <1>1, <1>2, HomeOfType, WithinType DEF Missing, Semaphores
<1>4. /\ held'[w] = held[w] \cup {y}
      /\ \A v \in Worker : v # w => held'[v] = held[v]
  BY <1>1, <1>2 DEF TypeOK
<1>5. /\ step'[w] = IF Missing(w) = {y} THEN "building" ELSE "permit"
      /\ \A v \in Worker : v # w => step'[v] = step[v]
  BY <1>1, <1>2, KindType DEF TypeOK, GoTo
<1>6. ASSUME NEW v \in Worker
      PROVE  /\ held'[v] \subseteq Semaphores(HomeOf(v))
             /\ step'[v] \in {"building", "applying", "cleaning"} => held'[v] = Semaphores(HomeOf(v))
             /\ step'[v] \in {Idle, "ok", "failed"} => held'[v] = {}
  <2>1. CASE v # w
    BY <1>1, <1>4, <1>5, <2>1 DEF PermitInv
  <2>2. CASE v = w
    <3>1. held[w] \subseteq Semaphores(HomeOf(w))
      BY <1>1 DEF PermitInv
    <3>2. Missing(w) = {y} => held'[w] = Semaphores(HomeOf(w))
      BY <1>3, <1>4, <3>1 DEF Missing
    <3>3. QED
      BY <1>3, <1>4, <1>5, <2>2, <3>1, <3>2 DEF Idle
  <2>3. QED
    BY <2>1, <2>2
<1>7. ASSUME NEW x \in Exec, Width[x] > 0 PROVE Cardinality(Holders(x)') <= Width[x]
  <2>1. IsFiniteSet(Holders(x)) /\ Width[x] \in Nat /\ Cardinality(Holders(x)) <= Width[x]
    BY <1>1, <1>7, WorkersAreFinite, FS_Subset, PlanAssumption DEF Holders, PermitInv
  <2>2. CASE x # y
    <3>1. Holders(x)' = Holders(x)
      BY <1>4, <2>2 DEF Holders
    <3>2. QED
      BY <2>1, <3>1
  <2>3. CASE x = y
    <3>1. Holders(x)' = Holders(x) \cup {w} /\ w \notin Holders(x)
      BY <1>3, <1>4, <2>3 DEF Holders
    <3>2. Cardinality(Holders(x)) \in Nat /\ Cardinality(Holders(x)') = Cardinality(Holders(x)) + 1
      BY <2>1, <3>1, FS_AddElement, FS_CardinalityType
    <3>3. QED
      BY <1>2, <2>1, <2>3, <3>2
  <2>4. QED
    BY <2>2, <2>3
<1>8. QED
  BY <1>6, <1>7 DEF PermitInv

LEMMA PermitStep == IInv /\ [Next]_vars => PermitInv'
<1> SUFFICES ASSUME IInv, [Next]_vars PROVE PermitInv'
  OBVIOUS
<1>0. TypeOK /\ step \in [Unit -> Steps] /\ Worker \subseteq Unit
  BY KindType DEF IInv, TypeOK
<1>a. "own" \in Errors /\ "canceled" \in Errors /\ None \in Errors
  BY DEF Errors
<1>b. ASSUME NEW u \in Unit, step[u] = "applying", NEW e \in Errors, Applied(u, e) PROVE PermitInv'
  BY <1>0, <1>b, PermitMove DEF Applied, GoTo
<1>1. ASSUME NEW n \in Node, Execute(n) PROVE PermitInv'
  <2>1. CASE Canceled(Home[n])
    BY <1>1, <1>a, <2>1, PermitReturn, KindType DEF Execute
  <2>2. CASE ~Canceled(Home[n])
    <3>1. UNCHANGED held /\ GoTo(n, IF n \in Research THEN "permit" ELSE "building")
      BY <1>1, <2>2 DEF Execute
    <3>2. n \notin Research => n \notin Worker
      BY KindType DEF Worker
    <3>3. QED
      BY <1>0, <3>1, <3>2, PermitMove DEF GoTo
  <2>3. QED
    BY <2>1, <2>2
<1>2. ASSUME NEW w \in Worker, Acquire(w) PROVE PermitInv'
  BY <1>2, PermitAcquire
<1>3. ASSUME NEW w \in Worker, Refuse(w) PROVE PermitInv'
  BY <1>0, <1>3, <1>a, PermitReturn DEF Refuse
<1>4. ASSUME NEW u \in Unit, BuildFails(u) PROVE PermitInv'
  BY <1>4, <1>a, PermitReturn DEF BuildFails
<1>5. ASSUME NEW w \in Worker, BuildWorker(w) PROVE PermitInv'
  BY <1>0, <1>5, PermitMove DEF BuildWorker, GoTo
<1>6. ASSUME NEW d \in Dynamic, MaterializeTasks(d) PROVE PermitInv'
  BY <1>0, <1>6, PermitMove DEF MaterializeTasks, GoTo
<1>7. ASSUME NEW m \in Module, BuildModule(m) PROVE PermitInv'
  BY <1>0, <1>7, PermitMove DEF BuildModule, GoTo
<1>8. ASSUME NEW n \in Node, BuildFolder(n) PROVE PermitInv'
  BY <1>0, <1>8, PermitMove DEF BuildFolder, GoTo
<1>9. ASSUME NEW w \in Worker, CompleteUnit(w) PROVE PermitInv'
  BY <1>9, PermitMove DEF CompleteUnit, run
<1>10. ASSUME NEW w \in Worker, PublishUnit(w) PROVE PermitInv'
  BY <1>0, <1>10, <1>a, <1>b DEF PublishUnit
<1>11. ASSUME NEW w \in Worker, WorkFails(w) PROVE PermitInv'
  <2>1. PICK e \in {"own", "canceled"} : Applied(w, e)
    BY <1>11 DEF WorkFails
  <2>2. QED
    BY <1>0, <1>11, <1>a, <1>b, <2>1 DEF WorkFails
<1>12. ASSUME NEW n \in Node, ApplyFolder(n) PROVE PermitInv'
  BY <1>12, <1>a, <1>b, KindType DEF ApplyFolder
<1>13. ASSUME NEW t \in Task, StartTask(t) PROVE PermitInv'
  BY <1>0, <1>13, PermitMove DEF StartTask, GoTo
<1>14. ASSUME NEW d \in Dynamic, JoinTasks(d) PROVE PermitInv'
  <2>1. d \in Unit /\ err[d] \in Errors
    BY <1>0, KindType DEF TypeOK
  <2>2. QED
    BY <1>14, <1>a, <1>b, <2>1 DEF JoinTasks
<1>15. ASSUME NEW m \in Module, FinishModule(m) PROVE PermitInv'
  <2>1. m \in Unit /\ failure[m] \in Errors
    BY <1>0, KindType, HomeType DEF TypeOK
  <2>2. QED
    BY <1>15, <1>a, <1>b, <2>1 DEF FinishModule
<1>16. ASSUME NEW u \in Unit, Cleanup(u) PROVE PermitInv'
  <2>1. PICK e \in Errors : Return(u, e)
    BY <1>0, <1>16, <1>a DEF Cleanup, TypeOK
  <2>2. QED
    BY <2>1, PermitReturn
<1>17. ASSUME Finish PROVE PermitInv'
  BY <1>17, PermitMove DEF Finish
<1>18. ASSUME Interrupt PROVE PermitInv'
  BY <1>18, PermitMove DEF Interrupt
<1>19. ASSUME NEW m \in Module, Expire(m) PROVE PermitInv'
  BY <1>19, PermitMove DEF Expire
<1>20. ASSUME Restart PROVE PermitInv'
  <2>1. /\ \A w \in Worker : held'[w] = {} /\ step'[w] = Idle
        /\ \A w \in Worker : held'[w] \subseteq held[w]
    BY <1>0, <1>20 DEF Restart
  <2>2. \A y \in Exec : Width[y] > 0 => Cardinality(Holders(y)') <= Width[y]
    BY <2>1, FewerHolders DEF IInv, TypeOK
  <2>3. QED
    BY <2>1, <2>2 DEF PermitInv, Idle
<1>21. ASSUME UNCHANGED vars PROVE PermitInv'
  BY <1>21, PermitMove DEF vars, run
<1>22. QED
  BY <1>1, <1>2, <1>3, <1>4, <1>5, <1>6, <1>7, <1>8, <1>9, <1>10, <1>11, <1>12, <1>13,
     <1>14, <1>15, <1>16, <1>17, <1>18, <1>19, <1>20, <1>21
     DEF Next, Progress, WorkerStep

--------------------------------------------------------------------------------
(* Causes.                                                                 *)

LEMMA StoppedCause ==
  ASSUME Quiet, NEW u \in Unit, Stopped(u)
  PROVE  Failing(HomeOf(u)) \/ (u \in Task /\ err[Owner(u)] # None)
BY DEF Quiet, Stopped, Canceled, Failing

LEMMA FailingStays ==
  ASSUME NEW x \in Exec, Failing(x),
         \A y \in Exec : failure[y] # None => failure'[y] = failure[y]
  PROVE  Failing(x)'
BY WithinType DEF Failing

(* What an error may be: its own, or what something around it failed of.   *)
Explained(u, e) ==
  /\ e = "canceled" => Failing(HomeOf(u)) \/ (u \in Task /\ err[Owner(u)] # None)
  /\ u \in Dynamic /\ err[u] # None => e # None

(* The executor that records a cancellation is itself nested in another    *)
(* that failed, or had failed before.                                      *)
LEMMA RecordCause ==
  ASSUME IInv, Quiet, NEW u \in Unit, NEW e \in Errors, Record(u, e), Explained(u, e)
  PROVE  /\ failure'[Root] # "canceled"
         /\ \A m \in Module : failure'[m] = "canceled" => Failing(Home[m])'
<1>1. /\ \A x \in Exec : failure[x] # None => failure'[x] = failure[x]
      /\ \A x \in Exec : failure'[x] # failure[x] => u \in Node /\ x = Home[u] /\ failure'[x] = e
  BY RecordEffect DEF IInv
<1>2. /\ failure[Root] # "canceled"
      /\ \A m \in Module : failure[m] = "canceled" => Failing(Home[m])
  BY DEF IInv, CauseInv
<1>3. ASSUME NEW x \in Exec, failure'[x] # failure[x], failure'[x] = "canceled"
      PROVE  \E y \in Within[x] : y # x /\ failure[y] # None
  <2>1. u \in Node /\ x = Home[u] /\ e = "canceled"
    BY <1>1, <1>3
  <2>2. Failing(x)
    BY <2>1, KindType DEF Explained, HomeOf
  <2>3. failure[x] = None
    BY <1>1, <1>3
  <2>4. QED
    BY <2>2, <2>3 DEF Failing
<1>4. failure'[Root] # "canceled"
  BY <1>2, <1>3, WithinRoot, HomeType
<1>5. ASSUME NEW m \in Module, failure'[m] = "canceled" PROVE Failing(Home[m])'
  <2>1. Home[m] \in Exec /\ m \in Exec
    BY HomeType
  <2>2. Failing(Home[m])
    <3>1. CASE failure'[m] = failure[m]
      BY <1>2, <1>5, <3>1
    <3>2. CASE failure'[m] # failure[m]
      <4>1. PICK y \in Within[m] : y # m /\ failure[y] # None
        BY <1>3, <1>5, <2>1, <3>2
      <4>2. y \in Within[Home[m]]
        BY <4>1, WithinModule
      <4>3. QED
        BY <4>1, <4>2 DEF Failing
    <3>3. QED
      BY <3>1, <3>2
  <2>3. QED
    BY <1>1, <2>1, <2>2, FailingStays
<1>6. QED
  BY <1>4, <1>5

LEMMA CauseOfError ==
  ASSUME IInv, NEW u \in Unit, NEW e \in Errors, Record(u, e), Quiet => Explained(u, e),
         err'[u] = e,
         \A v \in Unit : v # u => \/ err'[v] = err[v]
                                  \/ u \in Task /\ v = Owner(u) /\ err[v] = None /\ err'[v] = e,
         UNCHANGED <<interrupted, expired, returned>>
  PROVE  CauseInv'
<1> SUFFICES ASSUME Quiet' PROVE CauseInv'
  BY DEF CauseInv
<1>1. Quiet /\ Explained(u, e)
  BY DEF Quiet
<1>2. /\ failure'[Root] # "canceled"
      /\ \A m \in Module : failure'[m] = "canceled" => Failing(Home[m])'
  BY <1>1, RecordCause
<1>3. returned' # "canceled"
  BY <1>1 DEF IInv, CauseInv
<1>4. \A x \in Exec : failure[x] # None => failure'[x] = failure[x]
  BY RecordEffect DEF IInv
<1>5. ASSUME NEW n \in Node, err'[n] = "canceled" PROVE Failing(Home[n])'
  <2>1. Home[n] \in Exec /\ n \in Unit
    BY HomeType, KindType
  <2>2. CASE n = u
    <3>1. Failing(Home[n])
      BY <1>1, <1>5, <2>2, KindType DEF Explained, HomeOf
    <3>2. QED
      BY <1>4, <2>1, <3>1, FailingStays
  <2>3. CASE n # u /\ err'[n] = err[n]
    <3>1. Failing(Home[n])
      BY <1>1, <1>5, <2>3 DEF IInv, CauseInv
    <3>2. QED
      BY <1>4, <2>1, <3>1, FailingStays
  <2>4. CASE u \in Task /\ n = Owner(u) /\ err[n] = None /\ err'[n] = e
    <3>1. Failing(Home[n])
      BY <1>1, <1>5, <2>4 DEF Explained, HomeOf
    <3>2. QED
      BY <1>4, <2>1, <3>1, FailingStays
  <2>5. QED
    BY <2>1, <2>2, <2>3, <2>4
<1>6. ASSUME NEW t \in Task, err'[t] = "canceled"
      PROVE  Failing(Home[Owner(t)])' \/ err'[Owner(t)] # None
  <2>1. Home[Owner(t)] \in Exec /\ Owner(t) \in Unit /\ Owner(t) \in Dynamic /\ t \in Unit
        /\ Owner(t) \notin Task
    BY HomeType, TaskType, KindType
  <2>2. err[Owner(t)] # None => err'[Owner(t)] # None
    BY <1>1, <2>1 DEF Explained
  <2>3. Failing(Home[Owner(t)]) \/ err[Owner(t)] # None
    <3>1. CASE t = u
      BY <1>1, <1>6, <3>1 DEF Explained, HomeOf
    <3>2. CASE t # u
      <4>1. err'[t] = err[t]
        BY <2>1, <3>2, TaskType, KindType
      <4>2. QED
        BY <1>1, <1>6, <4>1 DEF IInv, CauseInv
    <3>3. QED
      BY <3>1, <3>2
  <2>4. QED
    BY <1>4, <2>1, <2>2, <2>3, FailingStays
<1>7. QED
  BY <1>2, <1>3, <1>5, <1>6 DEF CauseInv

LEMMA CauseStep == IInv /\ [Next]_vars => CauseInv'
<1> SUFFICES ASSUME IInv, [Next]_vars PROVE CauseInv'
  OBVIOUS
<1>0. TypeOK /\ CauseInv
  BY DEF IInv
<1>a. "own" \in Errors /\ "canceled" \in Errors /\ None \in Errors
      /\ "own" # None /\ "canceled" # None
  BY NamesAssumption DEF Errors
<1>b. ASSUME NEW u \in Unit, NEW e \in Errors, Return(u, e), Record(u, e), Quiet => Explained(u, e),
             UNCHANGED <<interrupted, expired, returned>>
      PROVE  CauseInv'
  <2>1. /\ err'[u] = e
        /\ \A v \in Unit : v # u => \/ err'[v] = err[v]
                                    \/ u \in Task /\ v = Owner(u) /\ err[v] = None /\ err'[v] = e
    BY <1>0, <1>b, ReturnEffect
  <2>2. QED
    BY <1>b, <2>1, CauseOfError
<1>c. ASSUME NEW u \in Unit, NEW e \in Errors, Applied(u, e),
             Quiet => Explained(u, e)
      PROVE  CauseInv'
  <2>1. PICK f \in Errors : /\ f = IF e = None /\ Stopped(u) THEN "canceled" ELSE e
                            /\ err' = [err EXCEPT ![u] = f] /\ Record(u, f)
                            /\ UNCHANGED <<interrupted, expired, returned>>
    BY <1>0, <1>c, AppliedEffect
  <2>2. Quiet => Explained(u, f)
    BY <1>a, <1>c, <2>1, StoppedCause DEF Explained
  <2>3. err'[u] = f /\ \A v \in Unit : v # u => err'[v] = err[v]
    BY <1>0, <2>1 DEF TypeOK
  <2>4. QED
    BY <2>1, <2>2, <2>3, CauseOfError
<1>d. ASSUME UNCHANGED <<err, failure, interrupted, expired, returned>> PROVE CauseInv'
  <2>1. \A x \in Exec : Failing(x)' = Failing(x)
    BY <1>d DEF Failing
  <2>2. Quiet' = Quiet
    BY <1>d DEF Quiet
  <2>3. QED
    BY <1>0, <1>d, <2>1, <2>2, HomeType, TaskType, KindType DEF CauseInv
<1>1. ASSUME NEW n \in Node, Execute(n) PROVE CauseInv'
  <2>1. n \in Unit
    BY KindType
  <2>2. CASE Canceled(Home[n])
    <3>1. Quiet => Explained(n, "canceled")
      BY <1>a, <2>2, KindType DEF Canceled, Quiet, Failing, Explained, HomeOf
    <3>2. QED
      BY <1>1, <1>a, <1>b, <2>1, <2>2, <3>1 DEF Execute
  <2>3. CASE ~Canceled(Home[n])
    BY <1>1, <1>d, <2>3 DEF Execute
  <2>4. QED
    BY <2>2, <2>3
<1>2. ASSUME NEW w \in Worker, Acquire(w) PROVE CauseInv'
  BY <1>2, <1>d DEF Acquire
<1>3. ASSUME NEW w \in Worker, Refuse(w) PROVE CauseInv'
  <2>1. w \in Unit /\ (Quiet => Explained(w, "canceled"))
    BY <1>3, <1>a, KindType, StoppedCause DEF Refuse, Explained
  <2>2. QED
    BY <1>3, <1>a, <1>b, <2>1 DEF Refuse
<1>4. ASSUME NEW u \in Unit, BuildFails(u) PROVE CauseInv'
  <2>1. Explained(u, "own")
    BY <1>a DEF Explained
  <2>2. QED
    BY <1>4, <1>a, <1>b, <2>1 DEF BuildFails
<1>5. ASSUME NEW w \in Worker, BuildWorker(w) PROVE CauseInv'
  BY <1>5, <1>d DEF BuildWorker
<1>6. ASSUME NEW d \in Dynamic, MaterializeTasks(d) PROVE CauseInv'
  BY <1>6, <1>d DEF MaterializeTasks
<1>7. ASSUME NEW m \in Module, BuildModule(m) PROVE CauseInv'
  <2>1. UNCHANGED <<err, interrupted, expired, returned>>
    BY <1>7 DEF BuildModule
  <2>2. /\ \A x \in Exec : failure[x] # None => failure'[x] = failure[x]
        /\ \A x \in Exec : x # m => failure'[x] = failure[x]
        /\ Quiet /\ failure'[m] # failure[m] => Failing(Home[m])
    BY <1>0, <1>7, HomeType DEF BuildModule, FirstFailure, TypeOK, Canceled, Quiet, Failing
  <2>3. m # Root /\ m \in Exec /\ Root \in Exec
    BY PlanAssumption, HomeType
  <2> SUFFICES ASSUME Quiet PROVE CauseInv'
    BY <2>1 DEF CauseInv, Quiet
  <2>4. failure'[Root] # "canceled" /\ returned' # "canceled"
    BY <1>0, <2>1, <2>2, <2>3 DEF CauseInv
  <2>5. \A x \in Exec : Failing(x) => Failing(x)'
    BY <2>2, FailingStays
  <2>6. \A k \in Module : failure'[k] = "canceled" => Failing(Home[k])'
    BY <1>0, <2>2, <2>5, HomeType DEF CauseInv
  <2>7. \A n \in Node : err'[n] = "canceled" => Failing(Home[n])'
    BY <1>0, <2>1, <2>5, HomeType DEF CauseInv
  <2>8. \A t \in Task : err'[t] = "canceled" => Failing(Home[Owner(t)])' \/ err'[Owner(t)] # None
    BY <1>0, <2>1, <2>5, HomeType, TaskType, KindType DEF CauseInv
  <2>9. QED
    BY <2>4, <2>6, <2>7, <2>8 DEF CauseInv
<1>8. ASSUME NEW n \in Node, BuildFolder(n) PROVE CauseInv'
  BY <1>8, <1>d DEF BuildFolder
<1>9. ASSUME NEW w \in Worker, CompleteUnit(w) PROVE CauseInv'
  BY <1>9, <1>d DEF CompleteUnit, run
<1>10. ASSUME NEW w \in Worker, PublishUnit(w) PROVE CauseInv'
  <2>1. w \in Unit /\ Explained(w, None)
    BY <1>a, KindType DEF Explained
  <2>2. QED
    BY <1>10, <1>a, <1>c, <2>1 DEF PublishUnit
<1>11. ASSUME NEW w \in Worker, WorkFails(w) PROVE CauseInv'
  <2>1. PICK e \in {"own"} \cup (IF Stopped(w) THEN {"canceled"} ELSE {}) : Applied(w, e)
    BY <1>11 DEF WorkFails
  <2>2. w \in Unit /\ e \in Errors /\ (Quiet => Explained(w, e))
    BY <1>a, <2>1, KindType, StoppedCause DEF Explained
  <2>3. QED
    BY <1>c, <2>1, <2>2
<1>12. ASSUME NEW n \in Node, ApplyFolder(n) PROVE CauseInv'
  <2>1. n \in Unit /\ n \notin Dynamic
    BY <1>12, KindType DEF ApplyFolder, Dynamic
  <2>2. Explained(n, None) /\ Explained(n, "own")
    BY <1>a, <2>1 DEF Explained
  <2>3. QED
    BY <1>12, <1>a, <1>c, <2>1, <2>2 DEF ApplyFolder
<1>13. ASSUME NEW t \in Task, StartTask(t) PROVE CauseInv'
  BY <1>13, <1>d DEF StartTask
<1>14. ASSUME NEW d \in Dynamic, JoinTasks(d) PROVE CauseInv'
  <2>1. d \in Unit /\ err[d] \in Errors /\ d \in Node
    BY <1>0, KindType DEF TypeOK
  <2>2. Quiet => Explained(d, err[d])
    BY <1>0, <2>1, KindType DEF Explained, CauseInv, HomeOf
  <2>3. err[d] = None => Explained(d, None)
    BY <1>a DEF Explained
  <2>4. QED
    BY <1>14, <1>a, <1>c, <2>1, <2>2, <2>3 DEF JoinTasks
<1>15. ASSUME NEW m \in Module, FinishModule(m) PROVE CauseInv'
  <2>1. m \in Unit /\ failure[m] \in Errors /\ m \in Node /\ m \notin Dynamic
    BY <1>0, KindType, HomeType DEF TypeOK
  <2>2. Explained(m, None) /\ Explained(m, "own")
    BY <1>a, <2>1 DEF Explained
  <2>3. Quiet => Explained(m, failure[m])
    BY <1>0, <2>1, KindType DEF Explained, CauseInv, HomeOf
  <2>4. QED
    BY <1>15, <1>a, <1>c, <2>1, <2>2, <2>3 DEF FinishModule
<1>16. ASSUME NEW u \in Unit, Cleanup(u) PROVE CauseInv'
  <2> DEFINE e == IF err[u] = None /\ u \in Node /\ Stopped(u) THEN "canceled" ELSE err[u]
  <2>1. e \in Errors
    BY <1>0, <1>a DEF TypeOK
  <2>2. Return(u, e) /\ Record(u, e) /\ UNCHANGED <<interrupted, expired, returned>>
    BY <1>16 DEF Cleanup
  <2>3. err[u] # None => e # None
    BY <1>a
  <2>4. ASSUME Quiet, e = "canceled" PROVE Failing(HomeOf(u)) \/ (u \in Task /\ err[Owner(u)] # None)
    <3>1. CASE err[u] = "canceled"
      BY <1>0, <2>4, <3>1, KindType, TaskType DEF CauseInv, HomeOf, Unit
    <3>2. CASE err[u] # "canceled"
      BY <1>a, <2>4, <3>2, StoppedCause
    <3>3. QED
      BY <3>1, <3>2
  <2> HIDE DEF e
  <2>5. Quiet => Explained(u, e)
    BY <2>3, <2>4 DEF Explained
  <2>6. QED
    BY <1>b, <2>1, <2>2, <2>5
<1>17. ASSUME Finish PROVE CauseInv'
  <2>1. Quiet => returned' # "canceled"
    BY <1>0, <1>17, <1>a DEF Finish, CauseInv
  <2>2. UNCHANGED <<err, failure, interrupted, expired>>
    BY <1>17 DEF Finish
  <2>3. QED
    BY <1>0, <2>1, <2>2 DEF CauseInv, Quiet, Failing
<1>18. ASSUME Interrupt PROVE CauseInv'
  BY <1>18 DEF Interrupt, CauseInv, Quiet
<1>19. ASSUME NEW m \in Module, Expire(m) PROVE CauseInv'
  BY <1>19 DEF Expire, CauseInv, Quiet
<1>20. ASSUME Restart PROVE CauseInv'
  <2>1. /\ \A u \in Unit : err'[u] = None
        /\ \A x \in Exec : failure'[x] = None
        /\ returned' = None
    BY <1>20 DEF Restart
  <2>2. \A t \in Task : err'[t] = None
    BY <2>1, TaskType
  <2>3. QED
    BY <1>a, <2>1, <2>2, KindType, HomeType DEF CauseInv
<1>21. ASSUME UNCHANGED vars PROVE CauseInv'
  BY <1>21, <1>d DEF vars, run
<1>22. QED
  BY <1>1, <1>2, <1>3, <1>4, <1>5, <1>6, <1>7, <1>8, <1>9, <1>10, <1>11, <1>12, <1>13,
     <1>14, <1>15, <1>16, <1>17, <1>18, <1>19, <1>20, <1>21
     DEF Next, Progress, WorkerStep

--------------------------------------------------------------------------------
(* What has been done.                                                     *)

(* The nodes of a module's plan, and the tasks of a block, have succeeded. *)
Complete(u) ==
  /\ u \in Module => \A n \in Node : Home[n] = u => step[n] = "ok"
  /\ u \in Dynamic => \A t \in TasksOf(u) : step[t] = "ok"

LEMMA CompleteOnes == DoneInv => \A u \in Unit : Succeeded(u) => Complete(u)
BY DEF DoneInv, Complete

(* Success is final, so whatever was complete stays so.                    *)
LEMMA CompleteStays ==
  ASSUME NEW u \in Unit, Complete(u), u \in Dynamic => tasks'[u] = tasks[u],
         \A v \in Unit : step[v] = "ok" => step'[v] = "ok"
  PROVE  Complete(u)'
<1>1. u \in Module => \A n \in Node : Home[n] = u => step'[n] = "ok"
  BY KindType DEF Complete
<1>2. u \in Dynamic => \A t \in TasksOf(u)' : step'[t] = "ok"
  BY TaskType DEF Complete, TasksOf
<1>3. QED
  BY <1>1, <1>2 DEF Complete

LEMMA DoneFrom ==
  ASSUME IInv, UNCHANGED returned,
         \A u \in Unit : step[u] = "ok" => step'[u] = "ok",
         \A u \in Unit : Succeeded(u)' => result'[u] # None /\ Complete(u)',
         \A t \in Task : step'[t] = "failed" => err'[Owner(t)] # None
  PROVE  DoneInv'
<1>1. \A n \in Node : n \in Unit
  BY KindType
<1>2. returned' = "ok" => \A n \in Node : Home[n] = Root => step'[n] = "ok"
  BY <1>1 DEF IInv, DoneInv
<1>3. \A m \in Module : Succeeded(m)' => \A n \in Node : Home[n] = m => step'[n] = "ok"
  BY KindType DEF Complete
<1>4. \A d \in Dynamic : Succeeded(d)' => \A t \in TasksOf(d)' : step'[t] = "ok"
  BY KindType DEF Complete
<1>5. QED
  BY <1>2, <1>3, <1>4 DEF DoneInv

LEMMA DoneMove ==
  ASSUME IInv, UNCHANGED <<err, result, returned>>,
         \A u \in Unit : \/ step'[u] = step[u]
                         \/ step[u] # "ok" /\ step'[u] \in {"permit", "building", "applying"},
         \A d \in Dynamic : tasks'[d] = tasks[d] \/ step'[d] = "applying"
  PROVE  DoneInv'
<1>1. ASSUME NEW u \in Unit, Succeeded(u)' PROVE result'[u] # None /\ Complete(u)'
  <2>1. step'[u] = step[u] /\ Succeeded(u)
    BY <1>1 DEF Succeeded
  <2>2. result[u] # None /\ Complete(u)
    BY <2>1, CompleteOnes DEF IInv, DoneInv
  <2>3. u \in Dynamic => tasks'[u] = tasks[u]
    BY <2>1, <1>1 DEF Succeeded
  <2>4. QED
    BY <2>2, <2>3, CompleteStays
<1>2. \A t \in Task : step'[t] = "failed" => err'[Owner(t)] # None
  BY TaskType DEF IInv, DoneInv
<1>3. QED
  BY <1>1, <1>2, DoneFrom

LEMMA DoneReturn ==
  ASSUME IInv, NEW u \in Unit, NEW e \in Errors, Return(u, e), step[u] # "ok",
         e = None => Succeeded(u), err[u] # None => e # None,
         UNCHANGED <<tasks, result, returned>>
  PROVE  DoneInv'
<1>1. TypeOK /\ DoneInv
  BY DEF IInv
<1>2. /\ step' = [step EXCEPT ![u] = IF e = None THEN "ok" ELSE "failed"]
      /\ err'[u] = e
      /\ \A v \in Unit : v # u => \/ err'[v] = err[v]
                                  \/ u \in Task /\ v = Owner(u) /\ err[v] = None /\ err'[v] = e
      /\ u \in Task /\ e # None => err'[Owner(u)] # None
  BY <1>1, ReturnEffect
<1>3. /\ step'[u] = IF e = None THEN "ok" ELSE "failed"
      /\ \A v \in Unit : v # u => step'[v] = step[v]
  BY <1>1, <1>2 DEF TypeOK
<1>4. ASSUME NEW v \in Unit, err[v] # None PROVE err'[v] # None
  BY <1>2, <1>4
<1>5. ASSUME NEW v \in Unit, Succeeded(v)' PROVE Succeeded(v)
  <2>1. CASE v = u
    BY <1>3, <1>5, <2>1 DEF Succeeded
  <2>2. CASE v # u
    BY <1>3, <1>4, <1>5, <2>2 DEF Succeeded
  <2>3. QED
    BY <2>1, <2>2
<1>6. \A v \in Unit : step[v] = "ok" => step'[v] = "ok"
  BY <1>3
<1>7. ASSUME NEW v \in Unit, Succeeded(v)' PROVE result'[v] # None /\ Complete(v)'
  <2>1. result[v] # None /\ Complete(v)
    BY <1>1, <1>5, <1>7, CompleteOnes DEF DoneInv
  <2>2. QED
    BY <1>6, <2>1, CompleteStays
<1>8. ASSUME NEW t \in Task, step'[t] = "failed" PROVE err'[Owner(t)] # None
  <2>1. CASE t = u
    BY <1>2, <1>3, <1>8, <2>1
  <2>2. CASE t # u
    BY <1>1, <1>3, <1>4, <1>8, <2>2, TaskType, KindType DEF DoneInv
  <2>3. QED
    BY <2>1, <2>2
<1>9. QED
  BY <1>6, <1>7, <1>8, DoneFrom

LEMMA DoneApplied ==
  ASSUME IInv, NEW u \in Unit, NEW e \in Errors, Applied(u, e), step[u] = "applying",
         \A v \in Unit : v # u => result'[v] = result[v],
         e = None => result'[u] # None /\ Complete(u),
         u \in Dynamic /\ err[u] # None => e # None
  PROVE  DoneInv'
<1>1. TypeOK /\ DoneInv
  BY DEF IInv
<1>2. PICK f \in Errors : /\ f = IF e = None /\ Stopped(u) THEN "canceled" ELSE e
                          /\ step' = [step EXCEPT ![u] = "cleaning"]
                          /\ err' = [err EXCEPT ![u] = f]
                          /\ UNCHANGED <<tasks, returned>>
  BY <1>1, AppliedEffect
<1>3. /\ step'[u] = "cleaning" /\ err'[u] = f
      /\ \A v \in Unit : v # u => step'[v] = step[v] /\ err'[v] = err[v]
  BY <1>1, <1>2 DEF TypeOK
<1>4. f = None => e = None
  BY <1>2, NamesAssumption
<1>5. \A v \in Unit : step[v] = "ok" => step'[v] = "ok"
  BY <1>3
<1>6. ASSUME NEW v \in Unit, Succeeded(v)' PROVE result'[v] # None /\ Complete(v)'
  <2>1. result'[v] # None /\ Complete(v)
    <3>1. CASE v = u
      BY <1>3, <1>4, <1>6, <3>1 DEF Succeeded
    <3>2. CASE v # u
      BY <1>1, <1>3, <1>6, <3>2, CompleteOnes DEF Succeeded, DoneInv
    <3>3. QED
      BY <3>1, <3>2
  <2>2. QED
    BY <1>2, <1>5, <2>1, CompleteStays
<1>7. ASSUME NEW t \in Task, step'[t] = "failed" PROVE err'[Owner(t)] # None
  <2>1. step[t] = "failed" /\ err[Owner(t)] # None /\ Owner(t) \in Unit /\ Owner(t) \in Dynamic
    BY <1>1, <1>3, <1>7, TaskType, KindType DEF DoneInv
  <2>2. QED
    BY <1>3, <1>4, <2>1
<1>8. QED
  BY <1>2, <1>5, <1>6, <1>7, DoneFrom

LEMMA DoneStep == IInv /\ [Next]_vars => DoneInv'
<1> SUFFICES ASSUME IInv, [Next]_vars PROVE DoneInv'
  OBVIOUS
<1> USE DEF Idle
<1>0. TypeOK /\ DoneInv /\ step \in [Unit -> Steps] /\ Worker \subseteq Unit
  BY KindType DEF IInv, TypeOK
<1>a. "own" \in Errors /\ "canceled" \in Errors /\ None \in Errors
      /\ "own" # None /\ "canceled" # None
  BY NamesAssumption DEF Errors
<1>1. ASSUME NEW n \in Node, Execute(n) PROVE DoneInv'
  <2>1. n \in Unit /\ step[n] = Idle
    BY <1>1, KindType DEF Execute
  <2>2. CASE Canceled(Home[n])
    BY <1>1, <1>a, <2>1, <2>2, DoneReturn DEF Execute
  <2>3. CASE ~Canceled(Home[n])
    BY <1>0, <1>1, <2>1, <2>3, DoneMove DEF Execute, GoTo
  <2>4. QED
    BY <2>2, <2>3
<1>2. ASSUME NEW w \in Worker, Acquire(w) PROVE DoneInv'
  <2>1. step[w] = "permit" /\ UNCHANGED <<err, result, returned, tasks>>
        /\ (GoTo(w, "building") \/ UNCHANGED step)
    BY <1>2 DEF Acquire
  <2>2. QED
    BY <1>0, <2>1, DoneMove DEF GoTo
<1>3. ASSUME NEW w \in Worker, Refuse(w) PROVE DoneInv'
  BY <1>0, <1>3, <1>a, DoneReturn DEF Refuse
<1>4. ASSUME NEW u \in Unit, BuildFails(u) PROVE DoneInv'
  BY <1>4, <1>a, DoneReturn DEF BuildFails
<1>5. ASSUME NEW w \in Worker, BuildWorker(w) PROVE DoneInv'
  BY <1>0, <1>5, DoneMove DEF BuildWorker, GoTo
<1>6. ASSUME NEW d \in Dynamic, MaterializeTasks(d) PROVE DoneInv'
  <2>1. /\ step[d] = "building" /\ GoTo(d, "applying") /\ UNCHANGED <<err, result, returned>>
        /\ d \in Unit
    BY <1>6, KindType DEF MaterializeTasks
  <2>2. \A c \in Dynamic : c # d => tasks'[c] = tasks[c]
    BY <1>0, <1>6 DEF MaterializeTasks, TypeOK
  <2>3. QED
    BY <1>0, <2>1, <2>2, DoneMove DEF GoTo
<1>7. ASSUME NEW m \in Module, BuildModule(m) PROVE DoneInv'
  BY <1>0, <1>7, DoneMove DEF BuildModule, GoTo
<1>8. ASSUME NEW n \in Node, BuildFolder(n) PROVE DoneInv'
  BY <1>0, <1>8, DoneMove DEF BuildFolder, GoTo
<1>9. ASSUME NEW w \in Worker, CompleteUnit(w) PROVE DoneInv'
  BY <1>9, DoneMove DEF CompleteUnit, run
<1>10. ASSUME NEW w \in Worker, PublishUnit(w) PROVE DoneInv'
  <2>1. w \in Unit /\ w \notin Module /\ w \notin Dynamic
    BY KindType
  <2>2. Complete(w) /\ unit[w] # None
    BY <1>10, <2>1 DEF Complete, PublishUnit, IInv, MatchInv
  <2>3. result'[w] # None /\ \A v \in Unit : v # w => result'[v] = result[v]
    BY <1>0, <1>10, <2>1, <2>2 DEF PublishUnit, TypeOK
  <2>4. QED
    BY <1>10, <1>a, <2>1, <2>2, <2>3, DoneApplied DEF PublishUnit
<1>11. ASSUME NEW w \in Worker, WorkFails(w) PROVE DoneInv'
  <2>1. PICK e \in {"own", "canceled"} : Applied(w, e)
    BY <1>11 DEF WorkFails
  <2>2. w \in Unit /\ step[w] = "applying" /\ UNCHANGED result
    BY <1>0, <1>11 DEF WorkFails
  <2>3. QED
    BY <1>a, <2>1, <2>2, DoneApplied
<1>12. ASSUME NEW n \in Node, ApplyFolder(n) PROVE DoneInv'
  <2>1. n \in Unit /\ n \notin Module /\ n \notin Dynamic /\ n # None
    BY <1>12, KindType, NamesAssumption DEF ApplyFolder, Module, Dynamic
  <2>2. Complete(n)
    BY <2>1 DEF Complete
  <2>3. CASE Applied(n, None) /\ result' = [result EXCEPT ![n] = n]
    <3>1. result'[n] # None /\ \A v \in Unit : v # n => result'[v] = result[v]
      BY <1>0, <2>1, <2>3 DEF TypeOK
    <3>2. QED
      BY <1>12, <1>a, <2>1, <2>2, <2>3, <3>1, DoneApplied DEF ApplyFolder
  <2>4. CASE Applied(n, "own") /\ UNCHANGED result
    BY <1>12, <1>a, <2>1, <2>4, DoneApplied DEF ApplyFolder
  <2>5. QED
    BY <1>12, <2>3, <2>4 DEF ApplyFolder
<1>13. ASSUME NEW t \in Task, StartTask(t) PROVE DoneInv'
  BY <1>0, <1>13, DoneMove DEF StartTask, GoTo
<1>14. ASSUME NEW d \in Dynamic, JoinTasks(d) PROVE DoneInv'
  <2>1. d \in Unit /\ err[d] \in Errors /\ d \notin Module /\ step[d] = "applying"
    BY <1>0, <1>14, KindType DEF TypeOK, JoinTasks
  <2>2. CASE err[d] # None
    BY <1>14, <2>1, <2>2, DoneApplied DEF JoinTasks
  <2>3. CASE err[d] = None
    <3>1. Complete(d) /\ tasks[d] \in Lists
          /\ [i \in 1..Len(tasks[d]) |-> result[<<d, i>>]] = tasks[d]
      BY <1>14, <2>1, <2>3, JoinedList DEF Complete
    <3>2. result' = [result EXCEPT ![d] = tasks[d]] /\ Applied(d, None)
      BY <1>14, <2>3, <3>1 DEF JoinTasks
    <3>3. tasks[d] # None
      BY <1>14, <2>1 DEF IInv, MatchInv
    <3>4. result'[d] # None /\ \A v \in Unit : v # d => result'[v] = result[v]
      BY <1>0, <2>1, <3>2, <3>3 DEF TypeOK
    <3>5. QED
      BY <1>a, <2>1, <2>3, <3>1, <3>2, <3>4, DoneApplied
  <2>4. QED
    BY <2>2, <2>3
<1>15. ASSUME NEW m \in Module, FinishModule(m) PROVE DoneInv'
  <2>1. m \in Unit /\ failure[m] \in Errors /\ m \notin Dynamic /\ step[m] = "applying" /\ m # None
    BY <1>0, <1>15, KindType, HomeType, NamesAssumption DEF TypeOK, FinishModule
  <2>2. CASE failure[m] # None /\ Applied(m, failure[m]) /\ UNCHANGED result
    BY <2>1, <2>2, DoneApplied
  <2>3. CASE failure[m] = None /\ Applied(m, None) /\ result' = [result EXCEPT ![m] = m]
    <3>1. Complete(m)
      BY <1>15, <2>1, <2>3 DEF FinishModule, Over, Complete
    <3>2. result'[m] # None /\ \A v \in Unit : v # m => result'[v] = result[v]
      BY <1>0, <2>1, <2>3 DEF TypeOK
    <3>3. QED
      BY <1>a, <2>1, <2>3, <3>1, <3>2, DoneApplied
  <2>4. CASE failure[m] = None /\ Applied(m, "own") /\ UNCHANGED result
    BY <1>a, <2>1, <2>4, DoneApplied
  <2>5. QED
    BY <1>15, <2>2, <2>3, <2>4 DEF FinishModule
<1>16. ASSUME NEW u \in Unit, Cleanup(u) PROVE DoneInv'
  <2> DEFINE e == IF err[u] = None /\ u \in Node /\ Stopped(u) THEN "canceled" ELSE err[u]
  <2>1. e \in Errors
    BY <1>0, <1>a DEF TypeOK
  <2>2. Return(u, e) /\ UNCHANGED <<tasks, result, returned>> /\ step[u] = "cleaning"
    BY <1>16 DEF Cleanup
  <2>3. (err[u] # None => e # None) /\ (e = None => err[u] = None)
    BY <1>a
  <2> HIDE DEF e
  <2>4. e = None => Succeeded(u)
    BY <2>2, <2>3 DEF Succeeded
  <2>5. QED
    BY <2>1, <2>2, <2>3, <2>4, DoneReturn
<1>17. ASSUME Finish PROVE DoneInv'
  <2>1. UNCHANGED <<step, err, result, tasks>>
    BY <1>17 DEF Finish
  <2>2. failure[Root] \in Errors /\ "ok" \notin Errors
    BY <1>0, HomeType, NamesAssumption DEF TypeOK, Errors
  <2>3. returned' = "ok" => \A n \in Node : Home[n] = Root => step[n] = "ok"
    BY <1>17, <2>2 DEF Finish, Over
  <2>4. QED
    BY <1>0, <2>1, <2>3 DEF DoneInv, Succeeded, TasksOf
<1>18. ASSUME Interrupt PROVE DoneInv'
  BY <1>18, DoneMove DEF Interrupt
<1>19. ASSUME NEW m \in Module, Expire(m) PROVE DoneInv'
  BY <1>19, DoneMove DEF Expire
<1>20. ASSUME Restart PROVE DoneInv'
  <2>1. (\A u \in Unit : step'[u] = Idle) /\ returned' = None
    BY <1>20 DEF Restart
  <2>2. \A u \in Unit : ~Succeeded(u)'
    BY <2>1 DEF Succeeded
  <2>3. QED
    BY <2>1, <2>2, TaskType, KindType, NamesAssumption DEF DoneInv
<1>21. ASSUME UNCHANGED vars PROVE DoneInv'
  BY <1>21, DoneMove DEF vars, run
<1>22. QED
  BY <1>1, <1>2, <1>3, <1>4, <1>5, <1>6, <1>7, <1>8, <1>9, <1>10, <1>11, <1>12, <1>13,
     <1>14, <1>15, <1>16, <1>17, <1>18, <1>19, <1>20, <1>21
     DEF Next, Progress, WorkerStep

--------------------------------------------------------------------------------
(* Lists, units and results.                                               *)

Early(d) == step[d] \in {Idle, "permit", "building"}
Late(d)  == step[d] \in {"applying", "cleaning", "ok"}

(* What a node or a task may publish under the list of its block.          *)
Fitting(u, r) ==
  /\ u \in Dynamic => r = tasks[u]
  /\ u \in Task => r = tasks[Owner(u)][Index(u)]

LEMMA MatchMove ==
  ASSUME IInv, UNCHANGED <<tasks, saved, unit, restarts>>,
         \A u \in Unit : Waiting(u)' => Waiting(u),
         \A u \in Unit : result'[u] = result[u] \/ (~Waiting(u)' /\ Fitting(u, result'[u])),
         \A w \in Worker : step'[w] = "applying" => step[w] = "applying",
         \A d \in Dynamic : (Early(d)' => Early(d)) /\ (Late(d)' => Late(d)),
         \A t \in Task : step'[t] # Idle =>
            step[t] # Idle \/ (tasks[Owner(t)] # None /\ t \in TasksOf(Owner(t)))
  PROVE  MatchInv'
<1>0. MatchInv
  BY DEF IInv
<1>1. \A u \in Unit : Waiting(u)' => result'[u] = None
  BY <1>0 DEF MatchInv
<1>2. \A w \in Worker : step'[w] = "applying" => unit'[w] # None
  BY <1>0 DEF MatchInv
<1>3. ASSUME NEW d \in Dynamic
      PROVE  /\ tasks'[d] # None => saved'[d] = tasks'[d]
             /\ step'[d] \in {Idle, "permit", "building"} => tasks'[d] = None
             /\ step'[d] \in {"applying", "cleaning", "ok"} => tasks'[d] # None
             /\ ~ResumedRun' /\ saved'[d] # None => tasks'[d] # None
             /\ saved'[d] # None => Len(saved'[d]) <= MaxTasks
             /\ result'[d] # None => result'[d] = tasks'[d]
  <2>1. d \in Unit
    BY KindType
  <2>2. result'[d] # None => result'[d] = tasks'[d]
    BY <1>0, <2>1 DEF MatchInv, Fitting
  <2>3. QED
    BY <1>0, <2>2 DEF MatchInv, Early, Late, ResumedRun
<1>4. ASSUME NEW t \in Task
      PROVE  /\ step'[t] # Idle => tasks'[Owner(t)] # None /\ t \in TasksOf(Owner(t))'
             /\ result'[t] # None => result'[t] = tasks'[Owner(t)][Index(t)]
             /\ unit'[t] \notin {None, "started"} =>
                  /\ saved'[Owner(t)] # None /\ Index(t) <= Len(saved'[Owner(t)])
                  /\ unit'[t] = saved'[Owner(t)][Index(t)]
  <2>1. TasksOf(Owner(t))' = TasksOf(Owner(t)) /\ t \in Unit
    BY TaskType DEF TasksOf
  <2>2. result'[t] # None => result'[t] = tasks'[Owner(t)][Index(t)]
    BY <1>0, <2>1 DEF MatchInv, Fitting
  <2>3. QED
    BY <1>0, <2>1, <2>2 DEF MatchInv
<1>5. QED
  BY <1>1, <1>2, <1>3, <1>4 DEF MatchInv

LEMMA MatchReturn ==
  ASSUME IInv, NEW u \in Unit, NEW e \in Errors, Return(u, e), e = None => step[u] = "cleaning",
         u \in Task => step[u] # Idle,
         UNCHANGED <<tasks, result, saved, unit, restarts>>
  PROVE  MatchInv'
<1>1. /\ step'[u] = IF e = None THEN "ok" ELSE "failed"
      /\ \A v \in Unit : v # u => step'[v] = step[v]
  BY ReturnEffect DEF IInv, TypeOK
<1>2. QED
  BY <1>1, MatchMove, TaskType, KindType DEF Waiting, Early, Late, Idle

LEMMA MatchApplied ==
  ASSUME IInv, NEW u \in Unit, NEW e \in Errors, Applied(u, e), step[u] = "applying",
         \A v \in Unit : v # u => result'[v] = result[v],
         result'[u] = result[u] \/ Fitting(u, result'[u]),
         UNCHANGED <<durable, restarts>>
  PROVE  MatchInv'
<1>1. /\ step'[u] = "cleaning" /\ UNCHANGED <<tasks, saved, unit, restarts>>
      /\ \A v \in Unit : v # u => step'[v] = step[v]
  BY AppliedEffect DEF IInv, TypeOK, durable
<1>2. QED
  BY <1>1, MatchMove, TaskType, KindType DEF Waiting, Early, Late, Idle

(* A list is made, or found again, while nothing of the block exists; only *)
(* a run that is not resumed, or has no list, makes one, and then no unit  *)
(* of the block was ever completed.                                        *)
LEMMA MatchMaterialize ==
  ASSUME IInv, NEW d \in Dynamic, MaterializeTasks(d)
  PROVE  MatchInv'
<1>0. MatchInv /\ TypeOK /\ d \in Unit
  BY KindType DEF IInv
<1>1. /\ step[d] = "building" /\ step' = [step EXCEPT ![d] = "applying"]
      /\ UNCHANGED <<result, unit, restarts>>
  BY DEF MaterializeTasks, GoTo
<1>2. tasks[d] = None /\ (saved[d] # None => ResumedRun)
  BY <1>0, <1>1 DEF MatchInv
<1>3. PICK l : /\ tasks' = [tasks EXCEPT ![d] = l] /\ saved' = [saved EXCEPT ![d] = l]
               /\ l # None /\ Len(l) <= MaxTasks
               /\ saved[d] # None => l = saved[d]
  <2>1. CASE saved[d] # None
    <3>1. tasks' = [tasks EXCEPT ![d] = saved[d]] /\ saved' = saved
      BY <1>2, <2>1 DEF MaterializeTasks
    <3>2. saved' = [saved EXCEPT ![d] = saved[d]]
      BY <1>0, <3>1 DEF TypeOK
    <3>3. Len(saved[d]) <= MaxTasks
      BY <1>0, <2>1 DEF MatchInv
    <3>4. QED
      BY <2>1, <3>1, <3>2, <3>3
  <2>2. CASE saved[d] = None
    BY <2>2, TaskAssumption, NamesAssumption DEF MaterializeTasks
  <2>3. QED
    BY <2>1, <2>2
<1>4. /\ tasks'[d] = l /\ saved'[d] = l
      /\ \A c \in Dynamic : c # d => tasks'[c] = tasks[c] /\ saved'[c] = saved[c]
      /\ step'[d] = "applying" /\ \A u \in Unit : u # d => step'[u] = step[u]
  BY <1>0, <1>1, <1>3 DEF TypeOK
<1>5. ASSUME NEW c \in Dynamic
      PROVE  /\ tasks'[c] # None => saved'[c] = tasks'[c]
             /\ step'[c] \in {Idle, "permit", "building"} => tasks'[c] = None
             /\ step'[c] \in {"applying", "cleaning", "ok"} => tasks'[c] # None
             /\ ~ResumedRun' /\ saved'[c] # None => tasks'[c] # None
             /\ saved'[c] # None => Len(saved'[c]) <= MaxTasks
             /\ result'[c] # None => result'[c] = tasks'[c]
  <2>1. CASE c = d
    <3>1. result'[d] = None
      BY <1>0, <1>1 DEF MatchInv, Waiting
    <3>2. QED
      BY <1>3, <1>4, <2>1, <3>1 DEF Idle
  <2>2. CASE c # d
    BY <1>0, <1>1, <1>4, <2>2, KindType DEF MatchInv, ResumedRun
  <2>3. QED
    BY <2>1, <2>2
<1>6. ASSUME NEW t \in Task
      PROVE  /\ step'[t] # Idle => tasks'[Owner(t)] # None /\ t \in TasksOf(Owner(t))'
             /\ result'[t] # None => result'[t] = tasks'[Owner(t)][Index(t)]
             /\ unit'[t] \notin {None, "started"} =>
                  /\ saved'[Owner(t)] # None /\ Index(t) <= Len(saved'[Owner(t)])
                  /\ unit'[t] = saved'[Owner(t)][Index(t)]
  <2>1. t \in Unit /\ t # d /\ Owner(t) \in Dynamic
    BY TaskType, KindType
  <2>2. CASE Owner(t) = d
    <3>1. step[t] = Idle /\ step'[t] = Idle
      BY <1>0, <1>2, <1>4, <2>1, <2>2 DEF MatchInv
    <3>2. result'[t] = None
      BY <1>0, <1>1, <2>1, <3>1 DEF MatchInv, Waiting
    <3>3. unit[t] \notin {None, "started"} => saved[d] = l
      BY <1>0, <1>3, <2>2 DEF MatchInv
    <3>4. QED
      BY <1>0, <1>1, <1>3, <1>4, <2>2, <3>1, <3>2, <3>3 DEF MatchInv
  <2>3. CASE Owner(t) # d
    <3>1. tasks'[Owner(t)] = tasks[Owner(t)] /\ saved'[Owner(t)] = saved[Owner(t)] /\ step'[t] = step[t]
      BY <1>4, <2>1, <2>3
    <3>2. TasksOf(Owner(t))' = TasksOf(Owner(t))
      BY <3>1 DEF TasksOf
    <3>3. QED
      BY <1>0, <1>1, <3>1, <3>2 DEF MatchInv
  <2>4. QED
    BY <2>2, <2>3
<1>7. \A u \in Unit : Waiting(u)' => result'[u] = None
  BY <1>0, <1>1, <1>4 DEF MatchInv, Waiting
<1>8. \A w \in Worker : step'[w] = "applying" => unit'[w] # None
  BY <1>0, <1>1, <1>4, KindType DEF MatchInv
<1>9. QED
  BY <1>5, <1>6, <1>7, <1>8 DEF MatchInv

(* A worker that is built, or completes its unit, leaves the rest alone.   *)
LEMMA MatchUnit ==
  ASSUME IInv, NEW w \in Worker,
         UNCHANGED <<tasks, saved, result, restarts>>,
         unit' = unit \/ \E x : unit' = [unit EXCEPT ![w] = x] /\ x # None
                                /\ (x = "started" \/ (step[w] = "applying" /\ x = Subject(w))),
         unit'[w] # None,
         step' = step \/ (step[w] = "building" /\ step' = [step EXCEPT ![w] = "applying"])
  PROVE  MatchInv'
<1>0. MatchInv /\ TypeOK /\ w \in Unit /\ w \notin Dynamic
  BY KindType DEF IInv
<1>1. /\ \A v \in Unit : v # w => step'[v] = step[v]
      /\ step'[w] = step[w] \/ (step[w] = "building" /\ step'[w] = "applying")
  BY <1>0 DEF TypeOK
<1>2. \A v \in Worker : v # w => unit'[v] = unit[v]
  BY <1>0 DEF TypeOK
<1>3. unit'[w] = unit[w] \/ unit'[w] = "started" \/ (step[w] = "applying" /\ unit'[w] = Subject(w))
  BY <1>0 DEF TypeOK
<1>4. \A u \in Unit : Waiting(u)' => result'[u] = None
  BY <1>0, <1>1 DEF MatchInv, Waiting
<1>5. \A v \in Worker : step'[v] = "applying" => unit'[v] # None
  BY <1>0, <1>1, <1>2, KindType DEF MatchInv
<1>6. ASSUME NEW d \in Dynamic
      PROVE  /\ tasks'[d] # None => saved'[d] = tasks'[d]
             /\ step'[d] \in {Idle, "permit", "building"} => tasks'[d] = None
             /\ step'[d] \in {"applying", "cleaning", "ok"} => tasks'[d] # None
             /\ ~ResumedRun' /\ saved'[d] # None => tasks'[d] # None
             /\ saved'[d] # None => Len(saved'[d]) <= MaxTasks
             /\ result'[d] # None => result'[d] = tasks'[d]
  BY <1>0, <1>1, KindType DEF MatchInv, ResumedRun
<1>7. ASSUME NEW t \in Task
      PROVE  /\ step'[t] # Idle => tasks'[Owner(t)] # None /\ t \in TasksOf(Owner(t))'
             /\ result'[t] # None => result'[t] = tasks'[Owner(t)][Index(t)]
             /\ unit'[t] \notin {None, "started"} =>
                  /\ saved'[Owner(t)] # None /\ Index(t) <= Len(saved'[Owner(t)])
                  /\ unit'[t] = saved'[Owner(t)][Index(t)]
  <2>1. t \in Unit /\ t \in Worker /\ Owner(t) \in Dynamic /\ TasksOf(Owner(t))' = TasksOf(Owner(t))
    BY TaskType DEF TasksOf
  <2>2. step'[t] # Idle => step[t] # Idle
    BY <1>1, <2>1 DEF Idle
  <2>3. CASE unit'[t] = unit[t]
    BY <1>0, <2>1, <2>2, <2>3 DEF MatchInv
  <2>4. CASE unit'[t] = "started"
    BY <1>0, <2>1, <2>2, <2>4 DEF MatchInv
  <2>5. CASE t = w /\ step[w] = "applying" /\ unit'[w] = Subject(w)
    <3>1. /\ tasks[Owner(t)] # None /\ t \in TasksOf(Owner(t))
          /\ saved[Owner(t)] = tasks[Owner(t)]
      BY <1>0, <2>1, <2>5 DEF MatchInv, Idle
    <3>2. Index(t) <= Len(saved[Owner(t)])
      BY <3>1 DEF TasksOf
    <3>3. unit'[t] = saved[Owner(t)][Index(t)]
      BY <2>5, <3>1 DEF Subject
    <3>4. QED
      BY <1>0, <2>1, <2>2, <3>1, <3>2, <3>3 DEF MatchInv
  <2>6. QED
    BY <1>2, <1>3, <2>1, <2>3, <2>4, <2>5
<1>8. QED
  BY <1>4, <1>5, <1>6, <1>7 DEF MatchInv

LEMMA MatchStep == IInv /\ [Next]_vars => MatchInv'
<1> SUFFICES ASSUME IInv, [Next]_vars PROVE MatchInv'
  OBVIOUS
<1>0. TypeOK /\ step \in [Unit -> Steps] /\ Worker \subseteq Unit
  BY KindType DEF IInv, TypeOK
<1>a. "own" \in Errors /\ "canceled" \in Errors /\ None \in Errors
      /\ "own" # None /\ "canceled" # None /\ "started" # None
  BY NamesAssumption DEF Errors
<1>b. ASSUME UNCHANGED <<step, tasks, saved, unit, result, restarts>> PROVE MatchInv'
  BY <1>b, MatchMove DEF Waiting, Early, Late
<1>1. ASSUME NEW n \in Node, Execute(n) PROVE MatchInv'
  <2>1. n \in Unit /\ n \notin Task /\ step[n] = Idle /\ UNCHANGED <<tasks, result, saved, unit, restarts>>
    BY <1>1, KindType DEF Execute, durable
  <2>2. CASE Canceled(Home[n])
    BY <1>1, <1>a, <2>1, <2>2, MatchReturn DEF Execute
  <2>3. CASE ~Canceled(Home[n])
    <3>1. /\ step'[n] \in {"permit", "building"}
          /\ \A v \in Unit : v # n => step'[v] = step[v]
      BY <1>0, <1>1, <2>1, <2>3 DEF Execute, GoTo
    <3>2. QED
      BY <2>1, <3>1, MatchMove, TaskType, KindType DEF Waiting, Early, Late, Idle
  <2>4. QED
    BY <2>2, <2>3
<1>2. ASSUME NEW w \in Worker, Acquire(w) PROVE MatchInv'
  <2>1. step[w] = "permit" /\ UNCHANGED <<tasks, result, saved, unit, restarts>>
        /\ (GoTo(w, "building") \/ UNCHANGED step)
    BY <1>2 DEF Acquire, durable
  <2>2. /\ step'[w] \in {"permit", "building"}
        /\ \A v \in Unit : v # w => step'[v] = step[v]
    BY <1>0, <2>1 DEF GoTo
  <2>3. QED
    BY <1>0, <2>1, <2>2, MatchMove, TaskType, KindType DEF Waiting, Early, Late, Idle
<1>3. ASSUME NEW w \in Worker, Refuse(w) PROVE MatchInv'
  BY <1>0, <1>3, <1>a, MatchReturn DEF Refuse, durable, Idle
<1>4. ASSUME NEW u \in Unit, BuildFails(u) PROVE MatchInv'
  BY <1>4, <1>a, MatchReturn DEF BuildFails, durable, Idle
<1>5. ASSUME NEW w \in Worker, BuildWorker(w) PROVE MatchInv'
  <2>1. /\ UNCHANGED <<tasks, saved, result, restarts>>
        /\ step[w] = "building" /\ step' = [step EXCEPT ![w] = "applying"]
    BY <1>5 DEF BuildWorker, GoTo
  <2>2. (unit' = unit /\ unit[w] # None) \/ unit' = [unit EXCEPT ![w] = "started"]
    BY <1>5 DEF BuildWorker
  <2>3. unit'[w] # None
    BY <1>0, <1>a, <2>2 DEF TypeOK
  <2>4. QED
    BY <1>a, <2>1, <2>2, <2>3, MatchUnit
<1>6. ASSUME NEW d \in Dynamic, MaterializeTasks(d) PROVE MatchInv'
  BY <1>6, MatchMaterialize
<1>7. ASSUME NEW m \in Module, BuildModule(m) PROVE MatchInv'
  <2>1. /\ step[m] = "building" /\ step'[m] = "applying" /\ m \in Unit
        /\ \A v \in Unit : v # m => step'[v] = step[v]
    BY <1>0, <1>7, KindType DEF BuildModule, GoTo
  <2>2. UNCHANGED <<tasks, result, saved, unit, restarts>>
    BY <1>7 DEF BuildModule, durable
  <2>3. QED
    BY <2>1, <2>2, MatchMove, TaskType, KindType DEF Waiting, Early, Late, Idle
<1>8. ASSUME NEW n \in Node, BuildFolder(n) PROVE MatchInv'
  <2>1. /\ step[n] = "building" /\ step'[n] = "applying" /\ n \in Unit
        /\ \A v \in Unit : v # n => step'[v] = step[v]
    BY <1>0, <1>8, KindType DEF BuildFolder, GoTo
  <2>2. n \notin Dynamic /\ n \notin Worker
    BY <1>8, KindType DEF BuildFolder, Dynamic, Worker, Research
  <2>3. UNCHANGED <<tasks, result, saved, unit, restarts>>
    BY <1>8 DEF BuildFolder, durable
  <2>4. QED
    BY <2>1, <2>2, <2>3, MatchMove, TaskType, KindType DEF Waiting, Early, Late, Idle
<1>9. ASSUME NEW w \in Worker, CompleteUnit(w) PROVE MatchInv'
  <2>1. /\ UNCHANGED <<tasks, saved, result, restarts, step>> /\ step[w] = "applying"
        /\ unit' = [unit EXCEPT ![w] = Subject(w)]
    BY <1>9 DEF CompleteUnit, run
  <2>2. Subject(w) # None
    BY <2>1, SubjectType DEF Idle
  <2>3. unit'[w] # None
    BY <1>0, <2>1, <2>2 DEF TypeOK
  <2>4. QED
    BY <2>1, <2>2, <2>3, MatchUnit
<1>10. ASSUME NEW w \in Worker, PublishUnit(w) PROVE MatchInv'
  <2>1. w \in Unit /\ w \notin Dynamic /\ step[w] = "applying" /\ unit[w] # "started"
    BY <1>10, KindType DEF PublishUnit
  <2>2. result'[w] = unit[w] /\ \A v \in Unit : v # w => result'[v] = result[v]
    BY <1>0, <1>10, <2>1 DEF PublishUnit, TypeOK
  <2>3. w \in Task => unit[w] = tasks[Owner(w)][Index(w)]
    <3>1. unit[w] # None
      BY <2>1 DEF IInv, MatchInv
    <3>2. QED
      BY <2>1, <3>1, TaskType DEF IInv, MatchInv, Idle
  <2>4. Fitting(w, result'[w])
    BY <2>1, <2>2, <2>3 DEF Fitting
  <2>5. QED
    BY <1>10, <1>a, <2>1, <2>2, <2>4, MatchApplied DEF PublishUnit
<1>11. ASSUME NEW w \in Worker, WorkFails(w) PROVE MatchInv'
  <2>1. PICK e \in {"own", "canceled"} : Applied(w, e)
    BY <1>11 DEF WorkFails
  <2>2. w \in Unit /\ step[w] = "applying" /\ UNCHANGED <<result, durable, restarts>>
    BY <1>0, <1>11 DEF WorkFails
  <2>3. QED
    BY <1>a, <2>1, <2>2, MatchApplied
<1>12. ASSUME NEW n \in Node, ApplyFolder(n) PROVE MatchInv'
  <2>1. n \in Unit /\ n \notin Task /\ n \notin Dynamic
        /\ step[n] = "applying" /\ UNCHANGED <<durable, restarts>>
    BY <1>12, KindType DEF ApplyFolder, Dynamic
  <2>2. Fitting(n, result'[n]) /\ \A v \in Unit : v # n => result'[v] = result[v]
    BY <1>0, <1>12, <2>1 DEF ApplyFolder, Fitting, TypeOK
  <2>3. PICK e \in {None, "own"} : Applied(n, e)
    BY <1>12 DEF ApplyFolder
  <2>4. QED
    BY <1>a, <2>1, <2>2, <2>3, MatchApplied
<1>13. ASSUME NEW t \in Task, StartTask(t) PROVE MatchInv'
  <2>1. /\ t \in Unit /\ step[t] = Idle /\ step'[t] = "permit"
        /\ \A v \in Unit : v # t => step'[v] = step[v]
        /\ UNCHANGED <<tasks, result, saved, unit, restarts>>
    BY <1>0, <1>13, TaskType DEF StartTask, GoTo, durable
  <2>2. tasks[Owner(t)] # None /\ t \in TasksOf(Owner(t))
    BY <1>13, TaskType DEF StartTask, IInv, MatchInv
  <2>3. QED
    BY <2>1, <2>2, MatchMove, TaskType, KindType DEF Waiting, Early, Late, Idle
<1>14. ASSUME NEW d \in Dynamic, JoinTasks(d) PROVE MatchInv'
  <2>1. d \in Unit /\ d \notin Task /\ err[d] \in Errors /\ step[d] = "applying"
        /\ UNCHANGED <<durable, restarts>>
    BY <1>0, <1>14, KindType DEF TypeOK, JoinTasks
  <2>2. CASE err[d] # None
    BY <1>14, <2>1, <2>2, MatchApplied DEF JoinTasks
  <2>3. CASE err[d] = None
    <3>1. [i \in 1..Len(tasks[d]) |-> result[<<d, i>>]] = tasks[d]
      BY <1>14, <2>3, JoinedList
    <3>2. result' = [result EXCEPT ![d] = tasks[d]] /\ Applied(d, None)
      BY <1>14, <2>3, <3>1 DEF JoinTasks
    <3>3. Fitting(d, result'[d]) /\ \A v \in Unit : v # d => result'[v] = result[v]
      BY <1>0, <2>1, <3>2 DEF TypeOK, Fitting
    <3>4. QED
      BY <1>a, <2>1, <3>2, <3>3, MatchApplied
  <2>4. QED
    BY <2>2, <2>3
<1>15. ASSUME NEW m \in Module, FinishModule(m) PROVE MatchInv'
  <2>1. m \in Unit /\ m \notin Task /\ m \notin Dynamic /\ step[m] = "applying"
        /\ UNCHANGED <<durable, restarts>>
    BY <1>15, KindType DEF FinishModule
  <2>2. Fitting(m, result'[m]) /\ \A v \in Unit : v # m => result'[v] = result[v]
    BY <1>0, <1>15, <2>1 DEF FinishModule, Fitting, TypeOK
  <2>3. PICK e \in {None, "own", failure[m]} : Applied(m, e)
    BY <1>15 DEF FinishModule
  <2>4. e \in Errors
    BY <1>0, <1>a, <2>3, HomeType DEF TypeOK
  <2>5. QED
    BY <2>1, <2>2, <2>3, <2>4, MatchApplied
<1>16. ASSUME NEW u \in Unit, Cleanup(u) PROVE MatchInv'
  <2>1. PICK e \in Errors : Return(u, e)
    BY <1>0, <1>16, <1>a DEF Cleanup, TypeOK
  <2>2. step[u] = "cleaning" /\ UNCHANGED <<tasks, result, saved, unit, restarts>>
    BY <1>16 DEF Cleanup, durable
  <2>3. QED
    BY <2>1, <2>2, MatchReturn DEF Idle
<1>17. ASSUME Finish PROVE MatchInv'
  BY <1>17, <1>b DEF Finish, durable
<1>18. ASSUME Interrupt PROVE MatchInv'
  BY <1>18, <1>b DEF Interrupt, durable
<1>19. ASSUME NEW m \in Module, Expire(m) PROVE MatchInv'
  BY <1>19, <1>b DEF Expire, durable
<1>20. ASSUME Restart PROVE MatchInv'
  <2>1. /\ \A u \in Unit : step'[u] = Idle /\ result'[u] = None
        /\ \A d \in Dynamic : tasks'[d] = None
        /\ UNCHANGED <<saved, unit>>
    BY <1>20 DEF Restart, durable
  <2>2. ResumedRun'
    <3>1. restarts \in Nat /\ restarts' = restarts + 1
      BY <1>0, <1>20 DEF TypeOK, Restart
    <3>2. QED
      BY <3>1 DEF ResumedRun
  <2>3. ASSUME NEW d \in Dynamic
        PROVE  /\ tasks'[d] # None => saved'[d] = tasks'[d]
               /\ step'[d] \in {Idle, "permit", "building"} => tasks'[d] = None
               /\ step'[d] \in {"applying", "cleaning", "ok"} => tasks'[d] # None
               /\ ~ResumedRun' /\ saved'[d] # None => tasks'[d] # None
               /\ saved'[d] # None => Len(saved'[d]) <= MaxTasks
               /\ result'[d] # None => result'[d] = tasks'[d]
    <3>1. d \in Unit
      BY KindType
    <3>2. saved[d] # None => Len(saved[d]) <= MaxTasks
      BY DEF IInv, MatchInv
    <3>3. QED
      BY <2>1, <2>2, <3>1, <3>2 DEF Idle
  <2>4. \A t \in Task :
          /\ step'[t] = Idle /\ result'[t] = None
          /\ unit'[t] \notin {None, "started"} =>
               /\ saved'[Owner(t)] # None /\ Index(t) <= Len(saved'[Owner(t)])
               /\ unit'[t] = saved'[Owner(t)][Index(t)]
    BY <2>1, TaskType DEF IInv, MatchInv
  <2>5. \A w \in Worker : step'[w] # "applying"
    BY <1>0, <2>1 DEF Idle
  <2>6. QED
    BY <2>1, <2>3, <2>4, <2>5 DEF MatchInv
<1>21. ASSUME UNCHANGED vars PROVE MatchInv'
  BY <1>21, <1>b DEF vars, run, durable
<1>22. QED
  BY <1>1, <1>2, <1>3, <1>4, <1>5, <1>6, <1>7, <1>8, <1>9, <1>10, <1>11, <1>12, <1>13,
     <1>14, <1>15, <1>16, <1>17, <1>18, <1>19, <1>20, <1>21
     DEF Next, Progress, WorkerStep

--------------------------------------------------------------------------------
LEMMA InvInit == Init => IInv
<1> SUFFICES ASSUME Init PROVE IInv
  OBVIOUS
<1>1. /\ \A u \in Unit : step[u] = Idle /\ err[u] = None /\ result[u] = None
      /\ \A w \in Worker : held[w] = {} /\ unit[w] = None
      /\ \A x \in Exec : failure[x] = None
      /\ \A d \in Dynamic : tasks[d] = None /\ saved[d] = None
      /\ returned = None
  BY DEF Init, FreshRun
<1>2. PermitInv
  <2>1. \A y \in Exec : Holders(y) = {}
    BY <1>1 DEF Holders
  <2>2. \A y \in Exec : Width[y] > 0 => Cardinality(Holders(y)) <= Width[y]
    <3>1. \A y \in Exec : Cardinality(Holders(y)) = 0
      BY <2>1, FS_EmptySet
    <3>2. QED
      BY <3>1, PlanAssumption
  <2>3. QED
    BY <1>1, <2>2, KindType DEF PermitInv, Idle
<1>3. CauseInv
  BY <1>1, KindType, TaskType, HomeType, NamesAssumption DEF CauseInv
<1>4. DoneInv
  BY <1>1, KindType, TaskType, NamesAssumption DEF DoneInv, Succeeded, Idle
<1>5. MatchInv
  BY <1>1, KindType, TaskType DEF MatchInv, Idle
<1>6. QED
  BY <1>2, <1>3, <1>4, <1>5, TypeInit DEF IInv

(* The invariant is inductive.                                             *)
THEOREM ApplyInvariant == Spec => []IInv
<1>1. IInv /\ [Next]_vars => IInv'
  BY TypeStep, PermitStep, CauseStep, DoneStep, MatchStep DEF IInv
<1>2. QED
  BY <1>1, InvInit, PTL DEF Spec

(* However the plans nest, and whichever workers hold which permits, the   *)
(* research at work under an executor stays within its parallelism.        *)
THEOREM LimitsAreKept == Spec => []ResearchWithinLimits
<1>1. IInv => ResearchWithinLimits
  <2> SUFFICES ASSUME IInv, NEW x \in Exec, Width[x] > 0
               PROVE  Cardinality(Working(x)) <= Width[x]
    BY DEF ResearchWithinLimits
  <2>1. Working(x) \subseteq Holders(x) /\ Holders(x) \subseteq Worker
    BY DEF IInv, PermitInv, Working, Holders, Semaphores
  <2>2. IsFiniteSet(Holders(x)) /\ IsFiniteSet(Working(x))
    BY <2>1, WorkersAreFinite, FS_Subset
  <2>3. /\ Cardinality(Working(x)) \in Nat /\ Cardinality(Holders(x)) \in Nat
        /\ Cardinality(Working(x)) <= Cardinality(Holders(x))
    BY <2>1, <2>2, FS_CardinalityType, FS_Subset
  <2>4. Cardinality(Holders(x)) <= Width[x] /\ Width[x] \in Nat
    BY PlanAssumption DEF IInv, PermitInv
  <2>5. QED
    BY <2>3, <2>4
<1>2. QED
  BY <1>1, ApplyInvariant, PTL

(* Apply reports a cancelled context only when the caller's context or a   *)
(* module's timeout ended, at any depth of nesting.                        *)
THEOREM RootCauseIsReported == Spec => []RootCauseReported
<1>1. IInv => RootCauseReported
  BY DEF IInv, CauseInv, Quiet, RootCauseReported
<1>2. QED
  BY <1>1, ApplyInvariant, PTL

(* Success of the root covers every node of every nested plan, every task  *)
(* of every list, and leaves no permit behind.                             *)
THEOREM SuccessCoversThePlan == Spec => []SuccessIsComplete
<1>1. IInv => SuccessIsComplete
  <2> SUFFICES ASSUME IInv, returned = "ok"
               PROVE  /\ \A n \in Node : step[n] = "ok" /\ result[n] # None
                      /\ \A d \in Dynamic : \A t \in TasksOf(d) : step[t] = "ok"
                      /\ \A w \in Worker : held[w] = {}
    BY DEF SuccessIsComplete
  <2> DEFINE Covered == {x \in Exec : \A n \in Node : Home[n] = x => step[n] = "ok"}
  <2>1. Root \in Covered
    BY HomeType DEF IInv, DoneInv
  <2>2. \A m \in Module : Home[m] \in Covered => m \in Covered
    BY HomeType DEF IInv, DoneInv, Succeeded
  <2>3. Covered \in SUBSET Exec
    OBVIOUS
  <2> HIDE DEF Covered
  <2>4. Covered = Exec
    BY <2>1, <2>2, <2>3, NestInduction
  <2>5. \A n \in Node : step[n] = "ok"
    BY <2>4, HomeType DEF Covered
  <2>6. \A n \in Node : result[n] # None
    BY <2>5, KindType DEF IInv, DoneInv, Succeeded
  <2>7. \A d \in Dynamic : \A t \in TasksOf(d) : step[t] = "ok"
    BY <2>5, KindType DEF IInv, DoneInv, Succeeded
  <2>8. ASSUME NEW w \in Worker PROVE held[w] = {}
    <3>1. CASE w \in Research
      BY <2>5, <3>1, KindType DEF IInv, PermitInv
    <3>2. CASE w \in Task
      <4>1. Owner(w) \in Dynamic /\ (step[w] # Idle => w \in TasksOf(Owner(w)))
        BY <3>2, TaskType DEF IInv, MatchInv
      <4>2. step[w] \in {Idle, "ok"}
        BY <2>7, <4>1
      <4>3. QED
        BY <4>2 DEF IInv, PermitInv
    <3>3. QED
      BY <3>1, <3>2 DEF Worker
  <2>9. QED
    BY <2>5, <2>6, <2>7, <2>8
<1>2. QED
  BY <1>1, ApplyInvariant, PTL

(* The results of a dynamic block are those of its list, task by task,     *)
(* whatever the expression evaluates to when the run is resumed.           *)
THEOREM ResultsFitTheTasks == Spec => []ResultsMatchTasks
<1>1. IInv => ResultsMatchTasks
  BY DEF IInv, MatchInv, ResultsMatchTasks
<1>2. QED
  BY <1>1, ApplyInvariant, PTL

(* Type correctness.                                                       *)
THEOREM ApplyTypeCorrect == Spec => []TypeOK
<1>1. IInv => TypeOK
  BY DEF IInv
<1>2. QED
  BY <1>1, ApplyInvariant, PTL
================================================================================
