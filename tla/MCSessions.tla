------------------------------- MODULE MCSessions -------------------------------
(* A typed tool call and one retry of a message, in one prompt.            *)
EXTENDS Sessions
CONSTANTS c1
================================================================================
