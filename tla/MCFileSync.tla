----------------------------- MODULE MCFileSync -----------------------------
(* FileSync on small instances: two processes and files of two or three    *)
(* lines, in batches of one or two records.                                *)
EXTENDS FileSync, TLC

CONSTANTS daemon, cli

(* The processes run the same code.                                        *)
ProcSymmetry == Permutations({daemon, cli})
=============================================================================
