---- MODULE MCExecutionLifecycle ----
(* ExecutionLifecycle on a small instance: two requests racing over one run of *)
(* two cases, a tester and a lead, one issue key.                              *)
EXTENDS ExecutionLifecycle, TLC

Symmetric == Permutations(Requests) \cup Permutations(Defects) \cup Permutations(Cases)
====
