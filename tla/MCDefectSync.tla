---- MODULE MCDefectSync ----
(* DefectSync on a small instance: one defect, the requests that mutate it,    *)
(* and retry passes with a budget small enough to be exhausted.                *)
EXTENDS DefectSync, TLC

Alike == Permutations(Callers) \cup Permutations(Workers)
====
