-------------------------- MODULE MCConfirmedWrites --------------------------
(* Instances of ConfirmedWrites for TLC *)
EXTENDS ConfirmedWrites, TLC

Symmetric == Permutations(Confirmations) \union Permutations(Callers) \union Permutations(Operators)
===============================================================================
