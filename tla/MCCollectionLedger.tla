--------------------------- MODULE MCCollectionLedger ---------------------------
(* The need ledger: two needs of two conditions each, four rounds (a need  *)
(* can stall, shrink or outlast the budget), one artifact, one call, and   *)
(* the history of idle reviews beside it.                                  *)
EXTENDS StallHistory

CONSTANTS n1, n2, s1, s2, a1, c1
================================================================================
