--------------------------- MODULE MCOperationTask ---------------------------
(* Instances of OperationTask for TLC. *)
EXTENDS OperationTask, TLC

\* Keys, users, sessions and payloads are interchangeable: the module only
\* compares them for equality.
Symmetry ==
  Permutations(Users) \union Permutations(Sessions) \union Permutations(Payloads)
    \union Permutations(DraftKeys) \union Permutations(ReviewKeys)
    \union Permutations(ExecKeys)
===============================================================================
