------------------------------- MODULE Progress -------------------------------
(***************************************************************************)
(* The event stream of an Apply: the event bus and debug recorder          *)
(* (internal/debuglog), the JSONL projector and publisher                  *)
(* (internal/progress) and the command that starts and ends them.          *)
(*                                                                         *)
(* The bus dispatches one event at a time, so recording it and updating    *)
(* the projector are one step; the records derived from it are queued in   *)
(* a second one, between which the publisher's worker may run.  The        *)
(* worker takes a record off the queue, then writes it.  The consumer      *)
(* keeps the last state it was sent of every block.                        *)
(***************************************************************************)
EXTENDS ProgressState, Sequences, SequencesExt, FiniteSets

queue == <<priority, upserts, timelines>>
flags == <<started, closed, finished, stopped, subscribed>>
vars == <<nodes, announced, log, recorderOpen, derived, priority, upserts, timelines, writing, started,
          closed, finished, stopped, subscribed, command, view, dropped, ended>>

Address == Block \cup Task
Status == {"waiting", "running", "succeeded", "failed"}
Node == [status : Status, activity : {"idle", "thinking", "tool"}, usage : Nat, call : ModelCall \cup {"none"}]
\* f, and g where f says nothing.
Over(f, g) == [x \in DOMAIN f \cup DOMAIN g |-> IF x \in DOMAIN f THEN f[x] ELSE g[x]]
Waiting == [status |-> "waiting", activity |-> "idle", usage |-> 0, call |-> "none"]

Init ==
  /\ nodes = [b \in Block |-> Waiting] /\ announced = FALSE
  /\ log = 0 /\ recorderOpen = TRUE /\ derived = <<>>
  /\ priority = <<>> /\ upserts = Empty /\ timelines = <<>> /\ writing = NoRecord
  /\ started = FALSE /\ closed = FALSE /\ finished = FALSE /\ stopped = FALSE /\ subscribed = FALSE
  /\ command = "begin" /\ view = Empty /\ dropped = {} /\ ended = "none"

----------------------------------------------------------------------------
(* Records.                                                                *)

Snapshot(ns) == [type |-> "snapshot", nodes |-> ns]
Upsert(a) == [type |-> "node", address |-> a, node |-> nodes'[a]]
Timeline(a) == [type |-> "timeline", address |-> a]
\* Children of the dynamic block, with the state they have now.
Materialized == [type |-> "tasks", nodes |-> [t \in Task |-> nodes'[t]]]
Terminal == [type |-> "terminal"]

----------------------------------------------------------------------------
(* The bus, the recorder and the projector.                                *)

\* Recorder.Record: a closed recorder refuses the event and nobody sees it.
Publish == log < MaxEvents /\ recorderOpen /\ derived = <<>> /\ log' = log + 1
\* The publisher sees the event if it is subscribed.
Derive(records) == derived' = IF subscribed THEN records ELSE <<>>
Observed(ns) == nodes' = IF subscribed THEN ns ELSE nodes
busUnchanged ==
  UNCHANGED <<recorderOpen, priority, upserts, timelines, writing, started, closed, finished, stopped,
              subscribed, command, view, dropped, ended>>

\* block.apply started, completed or failed, and block.factory failed.
BlockEvent(a, status) ==
  /\ Publish /\ a \in Projected /\ status \in Status \ {"waiting"}
  /\ Observed([nodes EXCEPT ![a].status = status,
                            ![a].activity = IF status = "running" THEN @ ELSE "idle"])
  /\ Derive(<<Upsert(a)>>)
  /\ UNCHANGED announced /\ busUnchanged

\* An assistant message or a tool call: a summary for the timeline as well.
ActivityEvent(a, activity) ==
  /\ Publish /\ a \in Projected /\ nodes[a].status = "running"
  /\ Observed([nodes EXCEPT ![a].activity = activity])
  /\ Derive(<<Upsert(a), Timeline(a)>>)
  /\ UNCHANGED announced /\ busUnchanged

\* assistant.usage: the call counted last is not counted again.
UsageEvent(a, call) ==
  /\ Publish /\ a \in Projected /\ nodes[a].status = "running"
  /\ Observed(IF nodes[a].call = call THEN nodes
              ELSE [nodes EXCEPT ![a].usage = @ + 1, ![a].call = call])
  /\ Derive(<<Upsert(a)>>)
  /\ UNCHANGED announced /\ busUnchanged

\* dynamic.tasks.materialized: the first announcement adds the tasks.
TasksEvent ==
  /\ Publish
  /\ Observed(IF announced THEN nodes ELSE Over(nodes, [t \in Task |-> Waiting]))
  /\ announced' = (announced \/ subscribed)
  /\ derived' = IF subscribed THEN <<Materialized>> ELSE <<>>
  /\ busUnchanged

----------------------------------------------------------------------------
(* The publisher's queue.                                                  *)

Queue == [priority |-> priority, upserts |-> upserts, timelines |-> timelines, dropped |-> {}]
Full(q) == Len(q.priority) + Cardinality(DOMAIN q.upserts) + Len(q.timelines) >= Capacity

\* What a record says about blocks.
Addresses(record) ==
  CASE record.type = "node" -> {record.address}
    [] record.type \in {"snapshot", "tasks"} -> DOMAIN record.nodes
    [] OTHER -> {}

Evicted(q) == [q EXCEPT !.timelines = Tail(@)]
WithUpsert(q, r) == [q EXCEPT !.upserts = Over([b \in {r.address} |-> r.node], @)]
Dropped(q, r) == [q EXCEPT !.dropped = @ \cup {r}]

\* Publisher.enqueue.
\* Mutant: a pending state is kept instead of the newest one.
EnqueueOnce(q, r) ==
  IF r.type = "node" /\ r.address \in DOMAIN q.upserts THEN q
  ELSE IF r.type = "node" /\ ~Full(q) THEN WithUpsert(q, r) ELSE Dropped(q, r)
Enqueue(q, r) ==
  LET full  == Full(q)
      space == IF full THEN Evicted(q) ELSE q
  IN  IF r.type = "node" /\ r.address \in DOMAIN q.upserts THEN WithUpsert(q, r)
      ELSE IF full /\ q.timelines = <<>> THEN Dropped(q, r)
      ELSE CASE r.type = "node" -> WithUpsert(space, r)
             [] r.type = "timeline" -> [space EXCEPT !.timelines = Append(@, r)]
             [] OTHER -> [space EXCEPT !.priority = Append(@, r)]

\* An event has one record or two.
EnqueueAll(records) ==
  LET first == Enqueue(Queue, records[1])
  IN  IF Len(records) = 1 THEN first ELSE Enqueue(first, records[2])

\* The queue becomes q.
Queued(q) == priority' = q.priority /\ upserts' = q.upserts /\ timelines' = q.timelines
LostIn(records) == UNION {Addresses(r) : r \in records}

\* Observe, after the projector: the records are queued unless the publisher
\* was closed meanwhile.
EnqueueDerived ==
  /\ derived # <<>>
  /\ LET q == IF closed THEN [Queue EXCEPT !.dropped = Range(derived)]
              ELSE EnqueueAll(derived)
     IN  /\ Queued(q)
         /\ dropped' = (dropped \ LostIn(Range(derived))) \cup LostIn(q.dropped)
  /\ derived' = <<>>
  /\ UNCHANGED <<nodes, announced, log, recorderOpen, writing, command, view, ended>> /\ UNCHANGED flags

----------------------------------------------------------------------------
(* The worker.                                                             *)

\* nextPending: structural and terminal records first, then the states, in
\* no order, then the timeline.
Take ==
  /\ started /\ writing = NoRecord
  /\ \/ /\ priority # <<>>
        /\ writing' = Head(priority) /\ priority' = Tail(priority) /\ UNCHANGED <<upserts, timelines>>
     \/ /\ priority = <<>>
        /\ \E a \in DOMAIN upserts :
             /\ writing' = [type |-> "node", address |-> a, node |-> upserts[a]]
             /\ upserts' = [b \in DOMAIN upserts \ {a} |-> upserts[b]]
        /\ UNCHANGED <<priority, timelines>>
     \/ /\ priority = <<>> /\ upserts = Empty /\ timelines # <<>>
        /\ writing' = Head(timelines) /\ timelines' = Tail(timelines) /\ UNCHANGED <<priority, upserts>>
  /\ UNCHANGED <<nodes, announced, log, recorderOpen, derived, command, view, dropped, ended>>
  /\ UNCHANGED flags

\* What the consumer knows after a record.
Seen(record) ==
  CASE record.type = "node" -> Over([b \in {record.address} |-> record.node], view)
    [] record.type \in {"snapshot", "tasks"} -> Over(record.nodes, view)
    [] OTHER -> view

\* emit: after the first failure nothing more is written.
Emit ==
  /\ writing # NoRecord
  /\ \/ /\ ~stopped /\ view' = Seen(writing) /\ UNCHANGED stopped
        /\ ended' = IF writing = Terminal THEN "written" ELSE ended
     \/ ~stopped /\ stopped' = TRUE /\ UNCHANGED <<view, ended>>
     \/ stopped /\ UNCHANGED <<stopped, view, ended>>
  /\ writing' = NoRecord
  /\ UNCHANGED <<nodes, announced, log, recorderOpen, derived, command, dropped>>
  /\ UNCHANGED queue /\ UNCHANGED <<started, closed, finished, subscribed>>

----------------------------------------------------------------------------
(* The command.                                                            *)

\* Start queues the snapshot and the worker runs; then the bus is observed.
Start ==
  /\ command = "begin" /\ ~started
  /\ started' = TRUE
  /\ LET q == Enqueue(Queue, Snapshot(nodes)) IN Queued(q) /\ dropped' = LostIn(q.dropped)
  /\ UNCHANGED <<nodes, announced, log, recorderOpen, derived, writing, closed, finished, stopped,
                 subscribed, command, view, ended>>

Subscribe ==
  /\ command = "begin" /\ started
  /\ subscribed' = TRUE /\ command' = "apply"
  /\ UNCHANGED <<nodes, announced, log, recorderOpen, derived, writing, started, closed, finished,
                 stopped, view, dropped, ended>> /\ UNCHANGED queue

\* Apply returned.  A dispatch under way still reaches the publisher.
Unsubscribe ==
  /\ command = "apply"
  /\ subscribed' = FALSE /\ command' = "finish"
  /\ UNCHANGED <<nodes, announced, log, recorderOpen, derived, writing, started, closed, finished,
                 stopped, view, dropped, ended>> /\ UNCHANGED queue

Finish ==
  /\ command = "finish"
  /\ finished' = TRUE /\ command' = "close"
  /\ LET q == Enqueue(Queue, Terminal)
     IN  Queued(q) /\ ended' = IF Terminal \in q.dropped THEN "dropped" ELSE "queued"
  /\ UNCHANGED <<nodes, announced, log, recorderOpen, derived, writing, started, closed, stopped,
                 subscribed, view, dropped>>

Close ==
  /\ command = "close"
  /\ closed' = TRUE /\ command' = "drain"
  /\ UNCHANGED <<nodes, announced, log, recorderOpen, derived, writing, started, finished, stopped,
                 subscribed, view, dropped, ended>> /\ UNCHANGED queue

\* The worker is done, or the drain timeout passed; the recorder is closed.
Leave ==
  /\ command = "drain"
  /\ command' = "over" /\ recorderOpen' = FALSE
  /\ UNCHANGED <<nodes, announced, log, derived, writing, view, dropped, ended>>
  /\ UNCHANGED queue /\ UNCHANGED flags

Next ==
  \/ \E a \in Address : (\E s \in Status : BlockEvent(a, s)) \/ (\E c \in ModelCall : UsageEvent(a, c))
  \/ \E a \in Address, x \in {"thinking", "tool"} : ActivityEvent(a, x)
  \/ TasksEvent \/ EnqueueDerived \/ Take \/ Emit
  \/ Start \/ Subscribe \/ Unsubscribe \/ Finish \/ Close \/ Leave

Spec == Init /\ [][Next]_vars

----------------------------------------------------------------------------
(* publisher.go:38: structural and terminal records are drained first and  *)
(* never dropped.                                                          *)
PriorityIsNeverDropped == ended # "dropped"
================================================================================
