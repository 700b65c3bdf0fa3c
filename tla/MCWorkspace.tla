---------------------------- MODULE MCWorkspace -----------------------------
(* Workspace for TLC: projects, sessions and handlers are interchangeable.  *)
EXTENDS Workspace, TLC

Symmetry == Permutations(Projects) \cup Permutations(Sessions) \cup Permutations(Requests)
=============================================================================
