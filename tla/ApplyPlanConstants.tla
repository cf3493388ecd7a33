-------------------------- MODULE ApplyPlanConstants ---------------------------
(* The plan ApplyPlan applies.                                             *)
EXTENDS Naturals, Sequences, FiniteSets

CONSTANTS
  Root,           (* the executor of the top-level plan                        *)
  Node,           (* the nodes of the plan and of its modules' plans           *)
  Home,           (* node -> the executor of its plan: Root or a module node   *)
  Kind,           (* node -> "research", "dynamic", "module" or "s3_folder"    *)
  Dependencies,   (* node -> the nodes it refers to                            *)
  Base,           (* node -> its address without the for_each key              *)
  Width,          (* executor -> parallelism, 0 for a module that sets none    *)
  TaskSpec,       (* what a task may be                                        *)
  MaxTasks,       (* how many tasks a list may have                            *)
  TaskLists,      (* dynamic block -> the lists its tasks may evaluate to      *)
  Serial,         (* the dynamic blocks that run one task at a time            *)
  MaxRestarts,    (* bound: how often the process is stopped and resumed       *)
  None

Module   == {n \in Node : Kind[n] = "module"}
Dynamic  == {n \in Node : Kind[n] = "dynamic"}
Research == {n \in Node : Kind[n] = "research"}
Exec     == {Root} \cup Module

Task     == Dynamic \X (1..MaxTasks)
Worker   == Research \cup Task       (* what works under permits and has a unit *)
Unit     == Node \cup Task

(* The executors x is nested in, itself included: the least set with x and *)
(* the home of every module it has.                                        *)
Nested(S) == \A m \in S \cap Module : Home[m] \in S
Within == [x \in Exec |-> {y \in Exec : \A S \in SUBSET Exec : x \in S /\ Nested(S) => y \in S}]

ASSUME PlanAssumption ==
  /\ IsFiniteSet(Node) /\ Root \notin Node
  /\ Kind \in [Node -> {"research", "dynamic", "module", "s3_folder"}]
  /\ Home \in [Node -> Exec] /\ Dependencies \in [Node -> SUBSET Node]
  /\ \A x \in Exec : Root \in Within[x]
  /\ Width \in [Exec -> Nat] /\ Width[Root] > 0
  /\ Serial \subseteq Dynamic /\ MaxRestarts \in Nat

ASSUME TaskAssumption ==
  /\ MaxTasks \in Nat
  /\ \A d \in Dynamic : \A l \in TaskLists[d] : l \in Seq(TaskSpec) /\ Len(l) <= MaxTasks

(* A node, a task or a list is not taken for something else.               *)
ASSUME NamesAssumption ==
  /\ Node \cap Task = {}
  /\ None \notin Node \cup TaskSpec \cup Seq(TaskSpec) \cup {"started", "ok", "own", "canceled"}
  /\ "started" \notin Node \cup TaskSpec
================================================================================
