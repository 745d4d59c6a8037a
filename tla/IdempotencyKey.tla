---------------------------- MODULE IdempotencyKey ----------------------------
(***************************************************************************)
(* The record behind one idempotency key as the callers see it who all     *)
(* pass the same owner: the webhook, the order import and the inventory    *)
(* push. To them a live lease is their own, so Acquire never answers "in   *)
(* progress" (module Idempotency models the service for any owners).       *)
(* Expiry, seven days after the first acquisition, is left out.            *)
(***************************************************************************)

KeyStatuses == {"absent", "held", "lapsed", "failed_retryable", "succeeded"}

\* A record: its status and what stands for the hash of the request.
Key(status, hash) == [status |-> status, hash |-> hash]

NoKey == Key("absent", "none")

KeysOver(H) == [status: KeyStatuses, hash: H \union {"none"}]

\* Mutant: the hash of the request is not compared.
AnswerToAny(k, hash) ==
  IF k.status = "absent" THEN "missing"
  ELSE IF k.status = "succeeded" THEN "already_succeeded" ELSE "acquired"

\* Acquire, and Classify of what it returns, while the record's row is locked
\* or missing: the row is taken over from anybody, whatever its lease.
Answer(k, hash) ==
  IF k.status = "absent" THEN "missing"
  ELSE IF k.hash # hash THEN "key_conflict"
  ELSE IF k.status = "succeeded" THEN "already_succeeded"
  ELSE "acquired"

Taken(k) == [k EXCEPT !.status = "held"]

\* Complete updates the row of a live lease only; zero rows are ErrLeaseLost.
Completes(k) == k.status = "held"

Completed(k) == IF Completes(k) THEN [k EXCEPT !.status = "succeeded"] ELSE k

\* Fail asks for the status and the owner, not for the lease.
FailedKey(k) ==
  IF k.status \in {"held", "lapsed"}
  THEN [k EXCEPT !.status = "failed_retryable"] ELSE k

\* All that ever happens to a record, k before and l after, if the hashes of the
\* requests are H: made by the first to come, taken over by a later one whose
\* hash is the same, completed, failed; and its lease lapses.
KeyMoves(k, l, H) ==
  \/ \E h \in H : k.status = "absent" /\ l = Key("held", h)
  \/ \E h \in H : Answer(k, h) = "acquired" /\ l = Taken(k)
  \/ Completes(k) /\ l = Completed(k)
  \/ k.status \in {"held", "lapsed"} /\ l = FailedKey(k)
  \/ k.status = "held" /\ l = [k EXCEPT !.status = "lapsed"]
===============================================================================
