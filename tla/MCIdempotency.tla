---------------------------- MODULE MCIdempotency ----------------------------
(* Instances of Idempotency for TLC. *)
EXTENDS Idempotency, TLC

\* Every caller has an owner name of its own: a worker id, a request id.
DistinctOwners == [r \in Requests |-> r]

\* All pass one owner, as the importer does.
SharedOwner == [r \in Requests |-> "one"]

SamePayload == [r \in Requests |-> "h1"]

\* One caller repeats the key with another payload ...
Stranger == CHOOSE q \in Requests : TRUE

TwoPayloads == [r \in Requests |-> IF r = Stranger THEN "h2" ELSE "h1"]

\* ... and one of the others runs under an expired record.
OneLenient == {CHOOSE q \in Requests : q # Stranger}
===============================================================================
