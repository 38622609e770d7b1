------------------------------ MODULE RunTable ------------------------------
(***************************************************************************)
(* What the subagent pool promises the rest of the program about a run:    *)
(* it takes a slot once, and gives it up either without a trace (it never  *)
(* started) or together with its result, which does not change as long as  *)
(* the process lives.                                                      *)
(* SubagentPool implements this table; ResultDelivery builds on it.        *)
(* Source: active_by_run and completed_by_run of SubagentPoolState.        *)
(***************************************************************************)
CONSTANT Runs,      \* run ids
         Statuses,  \* terminal statuses
         NoResult   \* completed_by_run has no entry

ASSUME ResultAssumption == NoResult \notin Statuses

VARIABLES used,    \* run ids that were generated
          active,  \* runs with a slot
          result   \* completed_by_run

tableVars == <<used, active, result>>

TableInit == used = {} /\ active = {} /\ result = [r \in Runs |-> NoResult]

(* A run id is generated and its slot reserved, under one lock.            *)
TakeSlot(r) ==
    /\ r \notin used
    /\ used' = used \cup {r}
    /\ active' = active \cup {r}
    /\ UNCHANGED result

(* The reservation is dropped before the run was recorded anywhere.        *)
Abandon(r) ==
    /\ r \in active
    /\ active' = active \ {r}
    /\ UNCHANGED <<used, result>>

(* The result is published and the slot removed under one lock.            *)
Settle(r, status) ==
    /\ r \in active
    /\ active' = active \ {r}
    /\ result' = [result EXCEPT ![r] = status]
    /\ UNCHANGED used

(* The process dies with all it keeps in memory; run ids are not reused.   *)
Restart ==
    /\ active' = {} /\ result' = [r \in Runs |-> NoResult]
    /\ UNCHANGED used

TableNext ==
    \/ \E r \in Runs : \/ TakeSlot(r)
                       \/ Abandon(r)
                       \/ \E status \in Statuses : Settle(r, status)
    \/ Restart

TableSpec == TableInit /\ [][TableNext]_tableVars
=============================================================================
