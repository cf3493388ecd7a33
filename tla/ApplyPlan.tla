------------------------------- MODULE ApplyPlan -------------------------------
(***************************************************************************)
(* The apply of a saved plan: executor.Executor runs the plan's nodes in   *)
(* dependency order, a research block works under the permits of its       *)
(* concurrency.Scope, a dynamic block materialises a task list and runs    *)
(* its tasks, and a module runs a nested plan with an executor of its own. *)
(* The first failure cancels the plan it happens in. A run that stopped is *)
(* applied again with --resume on the units and task lists it left.        *)
(*                                                                         *)
(* The scheduler itself is golden's, a library: it calls the block of a    *)
(* node once the node's dependencies have returned success, at most        *)
(* Parallelism() at a time, and returns when no call is left.              *)
(***************************************************************************)
EXTENDS ApplyPlanConstants, FiniteSetsExt

Owner(t) == t[1]
Index(t) == t[2]
HomeOf(u) == IF u \in Task THEN Home[Owner(u)] ELSE Home[u]

(* Mutant: the semaphores of the parent are not cloned. *)
OwnSemaphore(x) == {y \in {x} : Width[y] > 0}

(* A module without parallelism adds no semaphore to those of its parent. *)
Semaphores(x) == {y \in Within[x] : Width[y] > 0}
Limit(x) == Min({Width[y] : y \in Semaphores(x)})

(* The reconstructed plan knows dependencies between base addresses only:  *)
(* every instance waits for every instance of what any of them refers to.  *)
Waits(n) == LET refs == UNION {Dependencies[m] : m \in {k \in Node : Base[k] = Base[n]}}
            IN {m \in Node : \E r \in refs : Base[m] = Base[r] /\ Home[m] = Home[n]}

VARIABLES
  step,          (* where each node and task is                                *)
  err,           (* the error it ends with: None, "own" or "canceled"; while a *)
                 (* dynamic block applies, the first error of its tasks        *)
  held,          (* the semaphores of its scope a worker has a permit of       *)
  failure,       (* the first error recorded by each executor                  *)
  tasks,         (* the materialised list of each dynamic block                *)
  result,        (* what each node or task has published                       *)
  interrupted,   (* the caller's context has ended                             *)
  expired,       (* modules whose timeout has passed                           *)
  returned,      (* what Apply of the root returned: None, "ok" or its error   *)
  saved,         (* durable: the task list checkpoints                         *)
  unit,          (* durable: None, "started", or the result of a unit          *)
  restarts

run     == <<step, err, held, failure, tasks, result, interrupted, expired, returned>>
durable == <<saved, unit>>
vars    == <<run, durable, restarts>>

Idle    == "idle"
Settled == {"ok", "failed"}
Running(u) == step[u] \notin Settled \cup {Idle}
ResumedRun == restarts > 0

Canceled(x) ==
  \/ interrupted
  \/ \E y \in Within[x] : failure[y] # None \/ y \in expired

(* The tasks of a parallel block share the context of their errgroup.      *)
Stopped(u) ==
  \/ Canceled(HomeOf(u))
  \/ u \in Task /\ Owner(u) \notin Serial /\ err[Owner(u)] # None

Active(x) == IF x = Root THEN returned = None ELSE step[x] = "applying"

FreshRun ==
  /\ step = [u \in Unit |-> Idle] /\ err = [u \in Unit |-> None]
  /\ held = [w \in Worker |-> {}] /\ failure = [x \in Exec |-> None]
  /\ tasks = [d \in Dynamic |-> None] /\ result = [u \in Unit |-> None]
  /\ interrupted = FALSE /\ expired = {} /\ returned = None

Init ==
  /\ FreshRun /\ restarts = 0
  /\ saved = [d \in Dynamic |-> None] /\ unit = [w \in Worker |-> None]

--------------------------------------------------------------------------------
(* Mutant: a later error replaces the one recorded first. *)
LastFailure(x, e) == [failure EXCEPT ![x] = e]

(* planExecution.fail *)
FirstFailure(x, e) == [failure EXCEPT ![x] = IF @ = None THEN e ELSE @]

(* The error of a node goes to its executor when it happens, that of a     *)
(* task to its block when the task returns.                                *)
Record(u, e) ==
  failure' = IF u \in Node /\ e # None THEN FirstFailure(Home[u], e) ELSE failure

GoTo(u, s) == step' = [step EXCEPT ![u] = s]

(* Mutant: a worker that returns keeps its permits. *)
ReturnHolding(u, e) ==
  /\ GoTo(u, IF e = None THEN "ok" ELSE "failed")
  /\ err' = IF u \in Task /\ e # None
            THEN [err EXCEPT ![u] = e, ![Owner(u)] = IF @ = None THEN e ELSE @]
            ELSE [err EXCEPT ![u] = e]
  /\ UNCHANGED held

Return(u, e) ==
  /\ GoTo(u, IF e = None THEN "ok" ELSE "failed")
  /\ err' = IF u \in Task /\ e # None
            THEN [err EXCEPT ![u] = e, ![Owner(u)] = IF @ = None THEN e ELSE @]
            ELSE [err EXCEPT ![u] = e]
  /\ held' = IF u \in Worker THEN [held EXCEPT ![u] = {}] ELSE held

(* golden calls the block; planExecution.execute looks at the context. *)
Execute(n) ==
  LET x == Home[n] IN
  /\ Active(x) /\ step[n] = Idle
  /\ \A k \in Waits(n) : step[k] = "ok"
  /\ Cardinality({k \in Node : Home[k] = x /\ Running(k)}) < Limit(x)
  /\ IF Canceled(x)
     THEN Return(n, "canceled") /\ Record(n, "canceled")
     ELSE /\ GoTo(n, IF n \in Research THEN "permit" ELSE "building")
          /\ UNCHANGED <<err, held, failure>>
  /\ UNCHANGED <<tasks, result, interrupted, expired, returned, durable, restarts>>

--------------------------------------------------------------------------------
(* concurrency.Scope.WithResearch *)
Holders(y) == {w \in Worker : y \in held[w]}
Missing(w) == Semaphores(HomeOf(w)) \ held[w]

(* Outermost first; the context is looked at before each and after the last. *)
Acquire(w) ==
  /\ step[w] = "permit" /\ ~Stopped(w)
  /\ \E y \in Missing(w) :
       /\ Within[y] \cap Missing(w) = {y}
       /\ Cardinality(Holders(y)) < Width[y]
       /\ held' = [held EXCEPT ![w] = @ \cup {y}]
       /\ IF Missing(w) = {y} THEN GoTo(w, "building") ELSE UNCHANGED step
  /\ UNCHANGED <<err, failure, tasks, result, interrupted, expired, returned,
                 durable, restarts>>

Refuse(w) ==
  /\ step[w] = "permit" /\ Stopped(w)
  /\ Return(w, "canceled") /\ Record(w, "canceled")
  /\ UNCHANGED <<tasks, result, interrupted, expired, returned, durable, restarts>>

--------------------------------------------------------------------------------
(* runtimeFactory.New, newResearchBlock *)
BuildFails(u) ==
  /\ step[u] = "building"
  /\ Return(u, "own") /\ Record(u, "own")
  /\ UNCHANGED <<tasks, result, interrupted, expired, returned, durable, restarts>>

(* A completed unit is restored, any other begins anew. *)
BuildWorker(w) ==
  /\ step[w] = "building"
  /\ GoTo(w, "applying")
  /\ unit' = IF ResumedRun /\ unit[w] \notin {None, "started"}
             THEN unit ELSE [unit EXCEPT ![w] = "started"]
  /\ UNCHANGED <<err, held, failure, tasks, result, interrupted, expired, returned,
                 saved, restarts>>

(* Mutant: the list is evaluated again whenever the block is built. *)
ReevaluatedTasks(d) ==
  /\ step[d] = "building"
  /\ \E l \in TaskLists[d] : tasks' = [tasks EXCEPT ![d] = l] /\ saved' = [saved EXCEPT ![d] = l]
  /\ GoTo(d, "applying")
  /\ UNCHANGED <<err, held, failure, result, interrupted, expired, returned, unit, restarts>>

(* loadOrEvaluateDynamicTasks: the list is committed before it is used. *)
MaterializeTasks(d) ==
  /\ step[d] = "building"
  /\ IF ResumedRun /\ saved[d] # None
     THEN tasks' = [tasks EXCEPT ![d] = saved[d]] /\ UNCHANGED saved
     ELSE \E l \in TaskLists[d] : /\ tasks' = [tasks EXCEPT ![d] = l]
                               /\ saved' = [saved EXCEPT ![d] = l]
  /\ GoTo(d, "applying")
  /\ UNCHANGED <<err, held, failure, result, interrupted, expired, returned, unit, restarts>>

(* A module's executor starts with the error of a context already ended.   *)
BuildModule(m) ==
  /\ step[m] = "building"
  /\ GoTo(m, "applying")
  /\ failure' = IF Canceled(Home[m]) THEN FirstFailure(m, "canceled") ELSE failure
  /\ UNCHANGED <<err, held, tasks, result, interrupted, expired, returned, durable, restarts>>

BuildFolder(n) ==
  /\ step[n] = "building" /\ Kind[n] = "s3_folder"
  /\ GoTo(n, "applying")
  /\ UNCHANGED <<err, held, failure, tasks, result, interrupted, expired, returned,
                 durable, restarts>>

--------------------------------------------------------------------------------
(* Apply returns: its error, or that of the context, is recorded before    *)
(* the block is cleaned up.                                                *)
Applied(u, e) ==
  LET final == IF e = None /\ Stopped(u) THEN "canceled" ELSE e IN
  /\ GoTo(u, "cleaning")
  /\ err' = [err EXCEPT ![u] = final]
  /\ Record(u, final)
  /\ UNCHANGED <<held, tasks, interrupted, expired, returned>>

(* What the work of u is done for. *)
Subject(u) == IF u \in Task THEN tasks[Owner(u)][Index(u)] ELSE u

CompleteUnit(w) ==
  /\ step[w] = "applying" /\ unit[w] = "started"
  /\ unit' = [unit EXCEPT ![w] = Subject(w)]
  /\ UNCHANGED <<run, saved, restarts>>

PublishUnit(w) ==
  /\ step[w] = "applying" /\ unit[w] # "started"
  /\ result' = [result EXCEPT ![w] = unit[w]]
  /\ Applied(w, None)
  /\ UNCHANGED <<durable, restarts>>

WorkFails(w) ==
  /\ step[w] = "applying" /\ unit[w] = "started"
  /\ \E e \in {"own"} \cup (IF Stopped(w) THEN {"canceled"} ELSE {}) : Applied(w, e)
  /\ UNCHANGED <<result, durable, restarts>>

ApplyFolder(n) ==
  /\ step[n] = "applying" /\ Kind[n] = "s3_folder"
  /\ \/ Applied(n, None) /\ result' = [result EXCEPT ![n] = n]
     \/ Applied(n, "own") /\ UNCHANGED result
  /\ UNCHANGED <<durable, restarts>>

(* dynamicResearchApplyBlock.Apply *)
TasksOf(d) == {t \in Task : Owner(t) = d /\ Index(t) <= Len(tasks[d])}

StartTask(t) ==
  LET d == Owner(t) IN
  /\ step[d] = "applying" /\ step[t] = Idle /\ t \in TasksOf(d)
  /\ IF d \in Serial
     THEN err[d] = None /\ \A s \in TasksOf(d) : Index(s) < Index(t) => step[s] = "ok"
     ELSE Cardinality({s \in TasksOf(d) : Running(s)}) < Limit(Home[d])
  /\ GoTo(t, "permit")
  /\ UNCHANGED <<err, held, failure, tasks, result, interrupted, expired, returned,
                 durable, restarts>>

JoinTasks(d) ==
  /\ step[d] = "applying"
  /\ \A t \in TasksOf(d) : step[t] \in Settled \/ (d \in Serial /\ err[d] # None /\ step[t] = Idle)
  /\ IF err[d] # None
     THEN Applied(d, err[d]) /\ UNCHANGED result
     ELSE /\ result' = [result EXCEPT ![d] = [i \in 1..Len(tasks[d]) |-> result[<<d, i>>]]]
          /\ Applied(d, None)
  /\ UNCHANGED <<durable, restarts>>

(* The error of an executor whose nodes have all returned.                 *)
Over(x) ==
  /\ \A n \in Node : Home[n] = x => ~Running(n)
  /\ \/ failure[x] # None
     \/ \A n \in Node : Home[n] = x => step[n] = "ok"

(* moduleApplyBlock.Apply; resolving the outputs may fail too. *)
FinishModule(m) ==
  /\ step[m] = "applying" /\ Over(m)
  /\ \/ failure[m] # None /\ Applied(m, failure[m]) /\ UNCHANGED result
     \/ failure[m] = None /\ Applied(m, None) /\ result' = [result EXCEPT ![m] = m]
     \/ failure[m] = None /\ Applied(m, "own") /\ UNCHANGED result
  /\ UNCHANGED <<durable, restarts>>

Cleanup(u) ==
  /\ step[u] = "cleaning"
  /\ LET e == IF err[u] = None /\ u \in Node /\ Stopped(u) THEN "canceled" ELSE err[u]
     IN Return(u, e) /\ Record(u, e)
  /\ UNCHANGED <<tasks, result, interrupted, expired, returned, durable, restarts>>

(* Mutant: a failure that golden's traversal does not return is lost. *)
FinishIgnoringFailure ==
  /\ returned = None /\ \A n \in Node : Home[n] = Root => ~Running(n)
  /\ \E n \in Node : Home[n] = Root /\ step[n] \in Settled
  /\ returned' = "ok"
  /\ UNCHANGED <<step, err, held, failure, tasks, result, interrupted, expired, durable, restarts>>

Finish ==
  /\ returned = None /\ Over(Root)
  /\ IF failure[Root] # None THEN returned' = failure[Root]
                             ELSE returned' \in {"ok", "own"}
  /\ UNCHANGED <<step, err, held, failure, tasks, result, interrupted, expired, durable, restarts>>

--------------------------------------------------------------------------------
(* One of the contexts the plan is given ends, at most once in a run.      *)
Interrupt ==
  /\ returned = None /\ ~interrupted /\ expired = {}
  /\ interrupted' = TRUE
  /\ UNCHANGED <<step, err, held, failure, tasks, result, expired, returned, durable, restarts>>

Expire(m) ==
  /\ step[m] = "applying" /\ expired = {} /\ ~interrupted
  /\ expired' = expired \cup {m}
  /\ UNCHANGED <<step, err, held, failure, tasks, result, interrupted, returned, durable, restarts>>

(* The process ends, by itself or not, and r42 apply --resume follows. *)
Restart ==
  /\ restarts < MaxRestarts /\ returned # "ok"
  /\ restarts' = restarts + 1
  /\ step' = [u \in Unit |-> Idle] /\ err' = [u \in Unit |-> None]
  /\ held' = [w \in Worker |-> {}] /\ failure' = [x \in Exec |-> None]
  /\ tasks' = [d \in Dynamic |-> None] /\ result' = [u \in Unit |-> None]
  /\ interrupted' = FALSE /\ expired' = {} /\ returned' = None
  /\ UNCHANGED durable

WorkerStep(w) ==
  \/ Acquire(w) \/ Refuse(w)
  \/ BuildWorker(w) \/ CompleteUnit(w) \/ PublishUnit(w) \/ WorkFails(w)

Progress ==
  \/ \E n \in Node : Execute(n) \/ BuildFolder(n) \/ ApplyFolder(n)
  \/ \E w \in Worker : WorkerStep(w)
  \/ \E u \in Unit : BuildFails(u) \/ Cleanup(u)
  \/ \E d \in Dynamic : MaterializeTasks(d) \/ JoinTasks(d)
  \/ \E t \in Task : StartTask(t)
  \/ \E m \in Module : BuildModule(m) \/ FinishModule(m)
  \/ Finish

Next == Progress \/ Interrupt \/ Restart \/ \E m \in Module : Expire(m)

Spec == Init /\ [][Next]_vars

FairSpec == Spec /\ WF_vars(Progress)
--------------------------------------------------------------------------------
(* The research at work anywhere under an executor never exceeds its       *)
(* parallelism, the caller's or a module's, however the plans nest.        *)
Working(x) == {w \in Worker : /\ x \in Within[HomeOf(w)]
                              /\ step[w] \in {"building", "applying", "cleaning"}}
ResearchWithinLimits ==
  \A x \in Exec : Width[x] > 0 => Cardinality(Working(x)) <= Width[x]

(* The original error stays primary: Apply reports a cancelled context     *)
(* only when the caller or a timeout ended one, never because a sibling    *)
(* that failed for a reason of its own cancelled the block it reports.     *)
RootCauseReported ==
  returned = "canceled" => interrupted \/ expired # {}

(* An apply that reports success has applied every node and every task of  *)
(* every list, in every nested plan, and each has published its result.    *)
SuccessIsComplete ==
  returned = "ok" =>
    /\ \A n \in Node : step[n] = "ok" /\ result[n] # None
    /\ \A d \in Dynamic : \A t \in TasksOf(d) : step[t] = "ok"
    /\ \A w \in Worker : held[w] = {}

(* Whatever the expression evaluates to after a restart, the i-th result   *)
(* of a dynamic block is the result of the i-th task of its list: the      *)
(* units of the tasks are found again by their index only.                 *)
ResultsMatchTasks ==
  \A d \in Dynamic : result[d] # None => result[d] = tasks[d]

(* No plan waits for permits forever: Apply returns. *)
ApplyEnds == (returned = None) ~> (returned # None)
================================================================================
