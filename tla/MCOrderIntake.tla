---------------------------- MODULE MCOrderIntake ----------------------------
(* Instances of OrderIntake for TLC *)
EXTENDS OrderIntake, TLC

\* The order as created, as paid, and as paid seen by a page in the same second:
\* with another amount, or with other items only
Orders4 == {"made", "paid", "paid2", "items"}
RevisionOf == [p \in Orders4 |-> IF p = "made" THEN 1 ELSE 2]
RankOf == [p \in Orders4 |-> IF p = "made" THEN 10 ELSE 40]
LifecycleOf == [p \in Orders4 |-> IF p = "made" THEN 1 ELSE 2]
DigestOf == [p \in Orders4 |-> IF p = "items" THEN "paid" ELSE p]

\* What the events carry
MadeAndPaid == {[e \in Events |-> IF e = first THEN "made" ELSE "paid"] : first \in Events}
OneEvent == [Events -> {"paid", Nothing}]
AnyEvent == [Events -> {"made", "paid", Nothing}]
===============================================================================
