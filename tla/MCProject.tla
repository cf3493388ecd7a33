------------------------------- MODULE MCProject -------------------------------
(* Two sources whose plans have different shapes. *)
EXTENDS Project

CONSTANTS a, b

MCSource == {a, b}
MCShapeOf == [s \in MCSource |-> s]
================================================================================
