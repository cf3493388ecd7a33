------------------------------ MODULE StallHistory ------------------------------
(***************************************************************************)
(* The Collection rounds with one history variable: for each need the      *)
(* number of consecutive reviews that documentation calls idle, where      *)
(* Collection reported "stalled", the verdict was "needs_more" and it saw  *)
(* no evidence progress (docs/design.md, stop conditions).                 *)
(***************************************************************************)
EXTENDS CollectionRounds

VARIABLE idleReviews

Applied == verdict # None /\ verdict' = None /\ failure' = "none"

Idle(n) ==
  /\ handoff.dispositions[n] = "stalled"
  /\ verdict[n].unsatisfied # {}
  /\ ~verdict[n].material

HistoryInit == Init /\ idleReviews = [n \in Need |-> 0]

HistoryNext ==
  /\ Next
  /\ idleReviews' =
       [n \in Need |->
          IF ~Applied \/ n \notin Active THEN idleReviews[n]
          ELSE IF Idle(n) THEN idleReviews[n] + 1
          ELSE 0]

HistorySpec == HistoryInit /\ [][HistoryNext]_<<vars, idleReviews>>

(* A search is given up only after two idle reviews in a row, whatever the *)
(* order in which checkpoints, verdicts and new conditions come.           *)
StallIsEarned ==
  \A n \in Need : ledger[n].outcome = "search_stalled" => idleReviews[n] >= 2

(* docs/design.md: "A need becomes search_stalled after two consecutive    *)
(* rounds where Collection reports stalled, QC reports needs_more, and QC  *)
(* reports none evidence progress".                                        *)
TwoIdleReviewsStall ==
  \A n \in Need : idleReviews[n] >= 2 => ledger[n].outcome # Open
================================================================================
