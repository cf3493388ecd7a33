--------------------------- MODULE SessionsConstants ---------------------------
(* The parameters of Sessions.                                             *)
EXTENDS Naturals

CONSTANTS
  ToolCall,           (* the typed tool calls the model may make               *)
  ModelCallRetries,   (* retry policy: how often one message is sent again     *)
  MaxPrompts,         (* bound: the prompts the block sends to this session    *)
  NoSession           (* no SDK session                                        *)

ASSUME SessionsAssumption ==
  ModelCallRetries \in Nat /\ MaxPrompts \in Nat /\ NoSession \notin Nat
================================================================================
