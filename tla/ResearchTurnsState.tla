-------------------------- MODULE ResearchTurnsState ---------------------------
(* The parameters and the state of ResearchTurns, what its tool answers,   *)
(* and what the quota and a completed run mean.                            *)
EXTENDS ProtocolAttempts, Integers, FiniteSets, Sequences

CONSTANTS
  Call,                 (* terminal calls in flight at once                *)
  Value,                (* outputs of accepted calls                       *)
  QuotaLimit,           (* accepted calls the session may make             *)
  MaxRecorded,          (* bound: outcomes recorded in one turn            *)
  None

Rejected == [accepted |-> FALSE, output |-> None]
Accepted(v) == [accepted |-> TRUE, output |-> v]

(* What the tool program answers, and what a call in flight is doing.      *)
Responses == {Rejected} \cup {Accepted(v) : v \in Value}
CallSteps == [step : {"running"}] \cup [step : {"answered"}, response : Responses]

ASSUME ResearchAssumption ==
  /\ IsFiniteSet(Call)
  /\ QuotaLimit \in Nat
  /\ MaxProtocolAttempts \in Nat \ {0}
  /\ MaxRecorded \in Nat
  /\ None \notin Value \cup CallSteps

VARIABLES
  hasTerminal,  (* the block declares a terminal tool                      *)
  used,         (* the quota's reservations                                *)
  kept,         (* history: accepted answers so far                        *)
  call,         (* what each in-flight call is doing                       *)
  calls,        (* the recorder: outcomes of this turn, in order           *)
  failed,       (* the recorder: a terminal call broke                     *)
  fresh,        (* history: the first output accepted since the prompt     *)
  attempts,     (* protocol attempts spent                                 *)
  missing,      (* the declared artifacts are not in order                 *)
  result,       (* the value the run returned                              *)
  outcome       (* how the run ended, or "running"                         *)

toolVars == <<used, kept, call, calls, failed, fresh, missing>>
runVars  == <<attempts, result, outcome>>
turnVars == <<hasTerminal, toolVars, runVars>>

--------------------------------------------------------------------------------
(* The quota text promises "at most N accepted calls" and that failed and  *)
(* rejected ones do not count.  With calls in flight at once the quota is  *)
(* exactly the accepted answers plus the programs still running: nobody's  *)
(* rollback gives back another call's place.                               *)
QuotaCountsAccepted ==
  used = kept + Cardinality({c \in Call : call[c] # None /\ call[c].step = "running"})

(* A run that completes with a terminal tool returns the first output the  *)
(* host accepted since the prompt it sent last, whatever calls overlap and *)
(* whatever was accepted, and sent back, in the turns before.              *)
CompletesOfThisTurn ==
  (outcome' = "complete" /\ outcome = "running" /\ hasTerminal) =>
    (fresh # None /\ result' = fresh)

CompletionIsOfThisTurn == [][CompletesOfThisTurn]_turnVars
================================================================================
