------------------------------ MODULE KeyProtocol ------------------------------
(***************************************************************************)
(* One idempotency key over time, to callers who share its owner: the      *)
(* abstract specification of what the operators of IdempotencyKey do.      *)
(* Module Idempotency implements it for such callers, and each key of      *)
(* OrderIntake is a behaviour of it.                                       *)
(***************************************************************************)
EXTENDS IdempotencyKey

CONSTANT Hashes  \* what the requests' hashes may be

VARIABLE key

Init == key = NoKey

Next == KeyMoves(key, key', Hashes)

Spec == Init /\ [][Next]_key
===============================================================================
