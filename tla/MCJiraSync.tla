---- MODULE MCJiraSync ----
(* JiraSync on a small instance: two runs of one issue, two overlapping retry  *)
(* passes, and a budget small enough to be exhausted.                          *)
EXTENDS JiraSync, TLC

WorkersAlike == Permutations(Workers)
====
