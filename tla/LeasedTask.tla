------------------------------- MODULE LeasedTask -------------------------------
(***************************************************************************)
(* What a task that workers claim under a lease promises, without leases,  *)
(* messages, reapers or copies that were read before: there is one holder  *)
(* at a time, a claim takes a pending task and makes a new version of it,  *)
(* and an outcome is reported by the holder, while the task runs. Anybody  *)
(* else can make the holder lose the task, and cannot report for it.       *)
(* InventorySync and OrderSync implement it.                               *)
(***************************************************************************)
EXTENDS Naturals

CONSTANTS
  Tasks, Workers,
  Nobody,    \* no worker
  Outcomes,  \* what a worker may report
  Fates      \* what a task may be made by others

VARIABLES status, holder, version

vars == <<status, holder, version>>

\* A task found running without a holder is one of an earlier release.
Init ==
  /\ status \in [Tasks -> {"pending", "running"}]
  /\ holder = [t \in Tasks |-> Nobody]
  /\ version = [t \in Tasks |-> 0]

Claim(t, w) ==
  /\ status[t] = "pending" /\ holder[t] = Nobody
  /\ status' = [status EXCEPT ![t] = "running"]
  /\ holder' = [holder EXCEPT ![t] = w]
  /\ version' = [version EXCEPT ![t] = @ + 1]

Report(t, w, outcome) ==
  /\ status[t] = "running" /\ holder[t] = w
  /\ status' = [status EXCEPT ![t] = outcome]
  /\ holder' = [holder EXCEPT ![t] = Nobody]
  /\ UNCHANGED version

Lose(t, fate) ==
  /\ status' = [status EXCEPT ![t] = fate]
  /\ holder' = [holder EXCEPT ![t] = Nobody]
  /\ UNCHANGED version

Next == \E t \in Tasks :
  \/ \E w \in Workers : Claim(t, w) \/ \E outcome \in Outcomes : Report(t, w, outcome)
  \/ \E fate \in Fates : Lose(t, fate)

Spec == Init /\ [][Next]_vars
===============================================================================
