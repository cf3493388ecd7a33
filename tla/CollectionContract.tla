--------------------------- MODULE CollectionContract ---------------------------
(***************************************************************************)
(* What the Collection rounds promise, without tools, turns, checkpoints   *)
(* or counters: a plan is frozen once, evidence is gathered for it, and    *)
(* each review covers all the evidence gathered so far and decides some of *)
(* the open needs for good.  Collection closes at the review that decides  *)
(* the last need, and only then.                                           *)
(***************************************************************************)
CONSTANTS Need, Artifact

VARIABLES stage, plan, open, gathered, reviewed

vars == <<stage, plan, open, gathered, reviewed>>

Init ==
  /\ stage = "waiting"
  /\ plan = {} /\ open = {}
  /\ gathered = {} /\ reviewed = {}

Begin ==
  /\ stage = "waiting"
  /\ stage' = "collecting"
  /\ UNCHANGED <<plan, open, gathered, reviewed>>

Freeze ==
  /\ stage = "collecting" /\ plan = {}
  /\ plan' \in SUBSET Need \ {{}}
  /\ open' = plan'
  /\ UNCHANGED <<stage, gathered, reviewed>>

Gather(a) ==
  /\ stage = "collecting" /\ plan # {}
  /\ gathered' = gathered \cup {a}
  /\ UNCHANGED <<stage, plan, open, reviewed>>

Review(decided) ==
  /\ stage = "collecting" /\ plan # {}
  /\ decided \subseteq open
  /\ open' = open \ decided
  /\ reviewed' = gathered
  /\ stage' = IF open' = {} THEN "closed" ELSE "collecting"
  /\ UNCHANGED <<plan, gathered>>

Fail ==
  /\ stage \in {"waiting", "collecting"}
  /\ stage' = "failed"
  /\ UNCHANGED <<plan, open, gathered, reviewed>>

Next ==
  \/ Begin \/ Freeze \/ Fail
  \/ \E a \in Artifact : Gather(a)
  \/ \E decided \in SUBSET Need : Review(decided)

Spec == Init /\ [][Next]_vars
================================================================================
