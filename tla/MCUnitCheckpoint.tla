---------------------------- MODULE MCUnitCheckpoint ----------------------------
(* Two files, two results, three commits, and one archived file that       *)
(* disappears from the disk.                                               *)
EXTENDS UnitCheckpoint, TLC

CONSTANTS f1, f2, v1, v2

MCFile == {f1, f2}
MCValue == {v1, v2}
Symmetry == Permutations(MCFile) \cup Permutations(MCValue)
================================================================================
