----------------------------- MODULE ProgressState -----------------------------
(***************************************************************************)
(* The parameters and the state of Progress, and what its consumer can     *)
(* rely on.                                                                *)
(***************************************************************************)
EXTENDS Naturals

CONSTANTS
  Block,       (* blocks of the expanded plan                               *)
  Dynamic,     (* the one of them that materializes tasks                   *)
  Task,        (* its tasks                                                 *)
  ModelCall,   (* model API calls, for usage                                *)
  Capacity,    (* publisher capacity                                        *)
  MaxEvents    (* bound: events published                                   *)

ASSUME ProgressAssumption ==
  /\ Dynamic \in Block /\ Block \cap Task = {}
  /\ Capacity \in Nat \ {0} /\ MaxEvents \in Nat

VARIABLES
  nodes,        \* Projector.nodes: the projection of each known block
  announced,    \* Projector.dynamicChildren of the dynamic block
  log,          \* events written to events.jsonl
  recorderOpen, \* the debug recorder accepts events
  derived,      \* records of the event being dispatched, not queued yet
  priority, upserts, timelines,     \* the publisher's queue
  writing,      \* the record the worker is writing
  started, closed, finished, stopped,   \* the publisher's flags
  subscribed,   \* the publisher observes the bus
  command,      \* the apply command: "begin", "apply", "finish", "close", "over"
  view,         \* the consumer's last state of each block
  dropped,      \* blocks whose latest state the publisher dropped
  ended         \* terminal records: "none", "queued", "dropped", "written"

Projected == DOMAIN nodes
Empty == <<>>
NoRecord == [type |-> "none"]

(* When the publisher has nothing left to write, the consumer knows the    *)
(* latest state of every block, unless the writer failed or the publisher  *)
(* had to drop that very state (publisher.go enqueue, nextPending, emit).  *)
ConsumerIsCurrent ==
  /\ started /\ ~stopped /\ derived = <<>> /\ writing = NoRecord
  /\ priority = <<>> /\ upserts = Empty /\ timelines = <<>>
  => \A a \in Projected \ dropped : a \in DOMAIN view /\ view[a] = nodes[a]
================================================================================
