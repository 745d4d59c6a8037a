----------------------------- MODULE MCOrderSync -----------------------------
(* Instances of OrderSync for TLC. *)
EXTENDS OrderSync, TLC

\* Workers are alike, and so are administrators.
Symmetry == Permutations(Workers) \union Permutations(Admins)
===============================================================================
