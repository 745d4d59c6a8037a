------------------------------ MODULE ReviewGate ------------------------------
(***************************************************************************)
(* What the operation-task subsystem promises, without tables, revisions   *)
(* or requests: versions of a draft are proposed one after another, a      *)
(* human clears the newest one, and the execution port only ever receives  *)
(* the version of the one execution in flight, which was the newest        *)
(* version and was cleared when that execution began.                      *)
(***************************************************************************)
EXTENDS Naturals

VARIABLES
  proposed,   \* number of draft versions so far; the newest is version `proposed`
  cleared,    \* versions a reviewer approved
  inflight,   \* version of the execution in flight, 0 when there is none
  delivered   \* versions handed to the execution port

vars == <<proposed, cleared, inflight, delivered>>

Init ==
  /\ proposed = 0
  /\ cleared = {}
  /\ inflight = 0
  /\ delivered = {}

Propose ==
  /\ proposed' = proposed + 1
  /\ UNCHANGED <<cleared, inflight, delivered>>

Clear ==
  /\ proposed > 0
  /\ cleared' = cleared \union {proposed}
  /\ UNCHANGED <<proposed, inflight, delivered>>

Begin ==
  /\ inflight = 0
  /\ proposed \in cleared
  /\ inflight' = proposed
  /\ UNCHANGED <<proposed, cleared, delivered>>

Deliver ==
  /\ inflight # 0
  /\ delivered' = delivered \union {inflight}
  /\ UNCHANGED <<proposed, cleared, inflight>>

End ==
  /\ inflight # 0
  /\ inflight' = 0
  /\ UNCHANGED <<proposed, cleared, delivered>>

Next == Propose \/ Clear \/ Begin \/ Deliver \/ End

Spec == Init /\ [][Next]_vars

===============================================================================
