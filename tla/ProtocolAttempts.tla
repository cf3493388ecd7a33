-------------------------- MODULE ProtocolAttempts ------------------------------
(* The limit closed Research and Final QC share: how many turns may end     *)
(* without the tool call the protocol asks for.                             *)
EXTENDS Naturals

CONSTANT MaxProtocolAttempts
================================================================================
