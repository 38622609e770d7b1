------------------------- MODULE SubagentPool_proofs -------------------------
(* Theorems about the subagent pool, for any number of runs, children,     *)
(* locks, paths, failing appends and deaths of the process.                *)
EXTENDS SubagentPool, TLAPS

(* path_access_conflicts treats its two arguments alike, so a lock that is *)
(* checked once, by the later of two runs, protects both.                  *)
THEOREM ConflictSymmetric ==
    ASSUME NEW a \in Access, NEW b \in Access, Conflict(a, b)
    PROVE  Conflict(b, a)
BY DEF Conflict, Overlap, Access

(* Where a run is decides whether it has a slot, a child and an outcome.   *)
Shape ==
    /\ active = {r \in Runs : pc[r] \in InFlight}
    /\ \A r \in Runs : pc[r] \in Opened => child[r] \in Children
    /\ \A r \in Runs : pc[r] \in Aborting \cup Ending => status[r] \in Statuses
    /\ requested \subseteq {r \in Runs : pc[r] # "none"}

(* A run that may execute holds its cancellation either as the sender in   *)
(* its slot, not yet requested, or as the signal.                          *)
Cancellable ==
    \A r \in Runs :
        /\ pc[r] \in Running => r \in armed \cup signalled
        /\ r \in armed => r \notin requested

USE DEF Starting, Running, Aborting, Ending, InFlight, Opened, Statuses, None, Recorded

LEMMA Untouched == ToolFreeAccess \in Access
BY DEF ToolFreeAccess, Access

LEMMA InitInv == Init => TypeOK /\ Shape /\ Cancellable /\ LockExclusion
<1>. SUFFICES ASSUME Init PROVE TypeOK /\ Shape /\ Cancellable /\ LockExclusion
  OBVIOUS
<1>1. ToolFreeAccess \in Access
  BY Untouched
<1>2. parentSick \in BOOLEAN
  BY DEF Init
<1>3. faults \in 0..MaxFaults
  BY PoolAssumption DEF Init
<1>4. deaths \in 0..MaxDeaths /\ up \in BOOLEAN
  BY PoolAssumption DEF Init
<1>5. TypeOK
  BY <1>1, <1>2, <1>3, <1>4 DEF Init, TypeOK
<1>. QED  BY <1>5 DEF Init, Shape, Cancellable, LockExclusion

-----------------------------------------------------------------------------
(* A refused append leaves the parent's records typed.                     *)
LEMMA RefusedTyped ==
    ASSUME TypeOK, Shape, NEW r \in Runs, pc[r] \in Opened, NEW s \in Recorded,
           NEW synced, AppendParentFails(r, s, synced)
    PROVE  /\ parentStatus' \in [Runs -> Recorded] /\ listed' \in [Children -> Recorded]
           /\ current' \subseteq Runs /\ parentSick' \in BOOLEAN /\ faults' \in 0..MaxFaults
<1>1. parentSick' \in BOOLEAN
  BY DEF AppendParentFails, parentLog, TypeOK
<1>2. faults' \in 0..MaxFaults
  BY PoolAssumption DEF AppendParentFails, parentLog, TypeOK, Fault
<1>3. child[r] \in Children
  BY DEF Shape
<1>4. \/ parentStatus' = parentStatus /\ listed' = listed
      \/ ParentShows(r, s)
  BY DEF AppendParentFails, parentLog
<1>5. parentStatus' \in [Runs -> Recorded] /\ listed' \in [Children -> Recorded]
  BY <1>3, <1>4 DEF TypeOK, ParentShows
<1>6. current' \subseteq Runs
  BY DEF AppendParentFails, ParentShows, parentLog, TypeOK
<1>. QED  BY <1>1, <1>2, <1>5, <1>6

LEMMA NextTypeOK == TypeOK /\ Shape /\ [Next]_vars => TypeOK'
<1>. SUFFICES ASSUME TypeOK, Shape, [Next]_vars PROVE TypeOK'
  OBVIOUS
<1>. USE PoolAssumption DEF TypeOK, Shape, poolVars, cancelVars, workVars, childLog,
   parentLog, sessionVars
<1>1. ASSUME NEW r \in Runs, NEW acc \in Accesses, NEW t \in Children \cup {NoChild}, Reserve(r, acc, t)
      PROVE  TypeOK'
  BY <1>1 DEF Reserve, Goto
<1>2. ASSUME NEW r \in Runs, List(r) PROVE TypeOK'
  BY <1>2 DEF List, Goto
<1>3. ASSUME NEW r \in Runs, NEW c \in Children, Setup(r, c) PROVE TypeOK'
  BY <1>3 DEF Setup, Goto, AppendChild
<1>4. ASSUME NEW r \in Runs, SetupRefused(r) PROVE TypeOK'
  BY <1>4 DEF SetupRefused, DropReservation, DropSlot, Goto
<1>5. ASSUME NEW r \in Runs, NEW c \in Children, SetupFails(r, c) PROVE TypeOK'
  BY <1>5 DEF SetupFails, DropReservation, DropSlot, Goto, Fault
<1>6. ASSUME NEW r \in Runs, RecordStart(r) PROVE TypeOK'
  BY <1>6 DEF RecordStart, Goto, AppendParent, ParentShows
<1>7. ASSUME NEW r \in Runs, RecordStartFails(r) PROVE TypeOK'
  <2>1. /\ parentStatus' \in [Runs -> Recorded] /\ listed' \in [Children -> Recorded]
        /\ current' \subseteq Runs /\ parentSick' \in BOOLEAN /\ faults' \in 0..MaxFaults
    BY <1>7, RefusedTyped DEF RecordStartFails
  <2>. QED  BY <1>7, <2>1 DEF RecordStartFails, Goto
<1>8. ASSUME NEW r \in Runs, AbortChild(r) PROVE TypeOK'
  BY <1>8 DEF AbortChild, Goto, AppendChild, AppendChildFails, Fault
<1>9. ASSUME NEW r \in Runs, AbortParent(r) PROVE TypeOK'
  BY <1>9 DEF AbortParent, Goto, ParentShows, Fault
<1>10. ASSUME NEW r \in Runs, Activate(r) PROVE TypeOK'
  BY <1>10 DEF Activate, ActivateSlot, Goto
<1>11. ASSUME NEW r \in Runs, Poll(r) PROVE TypeOK'
  BY <1>11 DEF Poll, PollUnless, Goto
<1>12. ASSUME NEW r \in Runs, NEW path \in Paths, Touch(r, path) PROVE TypeOK'
  BY <1>12 DEF Touch
<1>13. ASSUME NEW r \in Runs, LogChange(r) PROVE TypeOK'
  BY <1>13 DEF LogChange, RecordsChange, NamePath
<1>14. ASSUME NEW r \in Runs, LogChangeFails(r) PROVE TypeOK'
  BY <1>14 DEF LogChangeFails, RecordsChange, NamePath, Fault
<1>15. ASSUME NEW r \in Runs, Yield(r) PROVE TypeOK'
  BY <1>15 DEF Yield, Goto
<1>16. ASSUME NEW r \in Runs, NEW s \in Statuses, EndExecution(r, s) PROVE TypeOK'
  BY <1>16 DEF EndExecution, Goto
<1>17. ASSUME NEW r \in Runs, DropRun(r) PROVE TypeOK'
  BY <1>17 DEF DropRun, GiveUp, Goto
<1>18. ASSUME NEW r \in Runs, CheckChanges(r) PROVE TypeOK'
  BY <1>18 DEF CheckChanges, CheckAgainstLock, Goto
<1>19. ASSUME NEW r \in Runs, RecordChild(r) PROVE TypeOK'
  BY <1>19 DEF RecordChild, Goto, AppendChild, AppendChildFails, Fault
<1>20. ASSUME NEW r \in Runs, RecordParent(r) PROVE TypeOK'
  BY <1>20 DEF RecordParent, Goto, AppendParent, ParentShows
<1>21. ASSUME NEW r \in Runs, RecordParentFails(r) PROVE TypeOK'
  <2>1. /\ parentStatus' \in [Runs -> Recorded] /\ listed' \in [Children -> Recorded]
        /\ current' \subseteq Runs /\ parentSick' \in BOOLEAN /\ faults' \in 0..MaxFaults
    BY <1>21, RefusedTyped DEF RecordParentFails, RecordParentRefused
  <2>. QED  BY <1>21, <2>1 DEF RecordParentFails, RecordParentRefused, Goto
<1>22. ASSUME NEW r \in Runs, AmendChild(r) PROVE TypeOK'
  BY <1>22 DEF AmendChild, Goto, AppendChild, AppendChildFails, Fault
<1>23. ASSUME NEW r \in Runs, Complete(r) PROVE TypeOK'
  BY <1>23 DEF Complete, DropSlot, Goto
<1>24. ASSUME NEW r \in Runs, Release(r) PROVE TypeOK'
  BY <1>24 DEF Release, Goto
<1>25. ASSUME NEW r \in Runs, CancelRun(r) PROVE TypeOK'
  BY <1>25 DEF CancelRun, Cancel
<1>26. CASE CancelActive
  BY <1>26 DEF CancelActive, Cancel
<1>27. CASE UNCHANGED vars
  BY <1>27 DEF vars
<1>28. CASE NextTurn
  BY <1>28 DEF NextTurn
<1>29. CASE Die
  <2>1. deaths' \in 0..MaxDeaths
    BY <1>29 DEF Die
  <2>2. torn' \subseteq Children
    BY <1>29 DEF Die
  <2>3. /\ access' \in [Runs -> Access] /\ completed' \in [Runs -> Statuses \cup {None}]
        /\ target' \in [Runs -> Children \cup {NoChild}]
    BY <1>29, Untouched DEF Die
  <2>4. pc' \in [Runs -> InFlight \cup {"none", "held", "done"}]
    BY <1>29 DEF Die
  <2>5. parentSick' \in BOOLEAN /\ up' \in BOOLEAN
    BY <1>29 DEF Die
  <2>. QED  BY <1>29, <2>1, <2>2, <2>3, <2>4, <2>5 DEF Die
<1>30. ASSUME NEW r \in Runs, Recover(r) PROVE TypeOK'
  BY <1>30 DEF Recover, ParentShows, Unfinished
<1>31. CASE Resumed
  BY <1>31 DEF Resumed, ResumeEnds
<1>32. ASSUME NEW r \in Runs, LogUnnamed(r) PROVE TypeOK'
  BY <1>32 DEF LogUnnamed, RecordsChange, Fault
<1>33. ASSUME NEW r \in Runs, CheckUnread(r) PROVE TypeOK'
  BY <1>33 DEF CheckUnread, CheckAgainstLock, Fault, Goto
<1>. QED
  BY <1>1, <1>2, <1>3, <1>4, <1>5, <1>6, <1>7, <1>8, <1>9, <1>10, <1>11, <1>12, <1>13,
     <1>14, <1>15, <1>16, <1>17, <1>18, <1>19, <1>20, <1>21, <1>22, <1>23, <1>24, <1>25,
     <1>26, <1>27, <1>28, <1>29, <1>30, <1>31, <1>32, <1>33
  DEF Next, Start, Execute, Finish, Exhausted

LEMMA NextShape == TypeOK /\ Shape /\ [Next]_vars => Shape'
<1>. SUFFICES ASSUME TypeOK, Shape, [Next]_vars PROVE Shape'
  OBVIOUS
<1>. USE DEF TypeOK, Shape, poolVars, cancelVars, workVars, childLog, parentLog, sessionVars
<1>1. ASSUME NEW r \in Runs, NEW acc \in Accesses, NEW t \in Children \cup {NoChild}, Reserve(r, acc, t)
      PROVE  Shape'
  BY <1>1 DEF Reserve, Goto
<1>2. ASSUME NEW r \in Runs, List(r) PROVE Shape'
  BY <1>2 DEF List, Goto
<1>3. ASSUME NEW r \in Runs, NEW c \in Children, Setup(r, c) PROVE Shape'
  BY <1>3 DEF Setup, Goto, AppendChild
<1>4. ASSUME NEW r \in Runs, SetupRefused(r) PROVE Shape'
  BY <1>4 DEF SetupRefused, DropReservation, DropSlot, Goto
<1>5. ASSUME NEW r \in Runs, NEW c \in Children, SetupFails(r, c) PROVE Shape'
  BY <1>5 DEF SetupFails, DropReservation, DropSlot, Goto, Fault
<1>6. ASSUME NEW r \in Runs, RecordStart(r) PROVE Shape'
  BY <1>6 DEF RecordStart, Goto, AppendParent, ParentShows
<1>7. ASSUME NEW r \in Runs, RecordStartFails(r) PROVE Shape'
  BY <1>7 DEF RecordStartFails, Goto, AppendParentFails, ParentShows, Fault
<1>8. ASSUME NEW r \in Runs, AbortChild(r) PROVE Shape'
  BY <1>8 DEF AbortChild, Goto, AppendChild, AppendChildFails, Fault
<1>9. ASSUME NEW r \in Runs, AbortParent(r) PROVE Shape'
  BY <1>9 DEF AbortParent, Goto, ParentShows, Fault
<1>10. ASSUME NEW r \in Runs, Activate(r) PROVE Shape'
  BY <1>10 DEF Activate, ActivateSlot, Goto
<1>11. ASSUME NEW r \in Runs, Poll(r) PROVE Shape'
  BY <1>11 DEF Poll, PollUnless, Goto
<1>12. ASSUME NEW r \in Runs, NEW path \in Paths, Touch(r, path) PROVE Shape'
  BY <1>12 DEF Touch
<1>13. ASSUME NEW r \in Runs, LogChange(r) PROVE Shape'
  BY <1>13 DEF LogChange, RecordsChange, NamePath
<1>14. ASSUME NEW r \in Runs, LogChangeFails(r) PROVE Shape'
  BY <1>14 DEF LogChangeFails, RecordsChange, NamePath, Fault
<1>15. ASSUME NEW r \in Runs, Yield(r) PROVE Shape'
  BY <1>15 DEF Yield, Goto
<1>16. ASSUME NEW r \in Runs, NEW s \in Statuses, EndExecution(r, s) PROVE Shape'
  BY <1>16 DEF EndExecution, Goto
<1>17. ASSUME NEW r \in Runs, DropRun(r) PROVE Shape'
  BY <1>17 DEF DropRun, GiveUp, Goto
<1>18. ASSUME NEW r \in Runs, CheckChanges(r) PROVE Shape'
  BY <1>18 DEF CheckChanges, CheckAgainstLock, Goto
<1>19. ASSUME NEW r \in Runs, RecordChild(r) PROVE Shape'
  BY <1>19 DEF RecordChild, Goto, AppendChild, AppendChildFails, Fault
<1>20. ASSUME NEW r \in Runs, RecordParent(r) PROVE Shape'
  BY <1>20 DEF RecordParent, Goto, AppendParent, ParentShows
<1>21. ASSUME NEW r \in Runs, RecordParentFails(r) PROVE Shape'
  BY <1>21 DEF RecordParentFails, RecordParentRefused, Goto, AppendParentFails,
     ParentShows, Fault
<1>22. ASSUME NEW r \in Runs, AmendChild(r) PROVE Shape'
  BY <1>22 DEF AmendChild, Goto, AppendChild, AppendChildFails, Fault
<1>23. ASSUME NEW r \in Runs, Complete(r) PROVE Shape'
  BY <1>23 DEF Complete, DropSlot, Goto
<1>24. ASSUME NEW r \in Runs, Release(r) PROVE Shape'
  BY <1>24 DEF Release, Goto
<1>25. ASSUME NEW r \in Runs, CancelRun(r) PROVE Shape'
  BY <1>25 DEF CancelRun, Cancel
<1>26. CASE CancelActive
  BY <1>26 DEF CancelActive, Cancel
<1>27. CASE UNCHANGED vars
  BY <1>27 DEF vars
<1>28. CASE NextTurn
  BY <1>28 DEF NextTurn
<1>29. CASE Die
  BY <1>29, Untouched DEF Die
<1>30. ASSUME NEW r \in Runs, Recover(r) PROVE Shape'
  BY <1>30 DEF Recover, ParentShows, Unfinished
<1>31. CASE Resumed
  BY <1>31 DEF Resumed, ResumeEnds
<1>32. ASSUME NEW r \in Runs, LogUnnamed(r) PROVE Shape'
  BY <1>32 DEF LogUnnamed, RecordsChange, Fault
<1>33. ASSUME NEW r \in Runs, CheckUnread(r) PROVE Shape'
  BY <1>33 DEF CheckUnread, CheckAgainstLock, Fault, Goto
<1>. QED
  BY <1>1, <1>2, <1>3, <1>4, <1>5, <1>6, <1>7, <1>8, <1>9, <1>10, <1>11, <1>12, <1>13,
     <1>14, <1>15, <1>16, <1>17, <1>18, <1>19, <1>20, <1>21, <1>22, <1>23, <1>24, <1>25,
     <1>26, <1>27, <1>28, <1>29, <1>30, <1>31, <1>32, <1>33
  DEF Next, Start, Execute, Finish, Exhausted

LEMMA NextCancellable == TypeOK /\ Shape /\ Cancellable /\ [Next]_vars => Cancellable'
<1>. SUFFICES ASSUME TypeOK, Shape, Cancellable, [Next]_vars PROVE Cancellable'
  OBVIOUS
<1>. USE DEF TypeOK, Shape, Cancellable, poolVars, cancelVars, workVars, childLog,
   parentLog, sessionVars
<1>1. ASSUME NEW r \in Runs, NEW acc \in Accesses, NEW t \in Children \cup {NoChild}, Reserve(r, acc, t)
      PROVE  Cancellable'
  BY <1>1 DEF Reserve, Goto
<1>2. ASSUME NEW r \in Runs, List(r) PROVE Cancellable'
  BY <1>2 DEF List, Goto
<1>3. ASSUME NEW r \in Runs, NEW c \in Children, Setup(r, c) PROVE Cancellable'
  BY <1>3 DEF Setup, Goto, AppendChild
<1>4. ASSUME NEW r \in Runs, SetupRefused(r) PROVE Cancellable'
  BY <1>4 DEF SetupRefused, DropReservation, DropSlot, Goto
<1>5. ASSUME NEW r \in Runs, NEW c \in Children, SetupFails(r, c) PROVE Cancellable'
  BY <1>5 DEF SetupFails, DropReservation, DropSlot, Goto, Fault
<1>6. ASSUME NEW r \in Runs, RecordStart(r) PROVE Cancellable'
  BY <1>6 DEF RecordStart, Goto, AppendParent, ParentShows
<1>7. ASSUME NEW r \in Runs, RecordStartFails(r) PROVE Cancellable'
  BY <1>7 DEF RecordStartFails, Goto, AppendParentFails, ParentShows, Fault
<1>8. ASSUME NEW r \in Runs, AbortChild(r) PROVE Cancellable'
  BY <1>8 DEF AbortChild, Goto, AppendChild, AppendChildFails, Fault
<1>9. ASSUME NEW r \in Runs, AbortParent(r) PROVE Cancellable'
  BY <1>9 DEF AbortParent, Goto, ParentShows, Fault
<1>10. ASSUME NEW r \in Runs, Activate(r) PROVE Cancellable'
  BY <1>10 DEF Activate, ActivateSlot, Goto
<1>11. ASSUME NEW r \in Runs, Poll(r) PROVE Cancellable'
  BY <1>11 DEF Poll, PollUnless, Goto
<1>12. ASSUME NEW r \in Runs, NEW path \in Paths, Touch(r, path) PROVE Cancellable'
  BY <1>12 DEF Touch
<1>13. ASSUME NEW r \in Runs, LogChange(r) PROVE Cancellable'
  BY <1>13 DEF LogChange, RecordsChange, NamePath
<1>14. ASSUME NEW r \in Runs, LogChangeFails(r) PROVE Cancellable'
  BY <1>14 DEF LogChangeFails, RecordsChange, NamePath, Fault
<1>15. ASSUME NEW r \in Runs, Yield(r) PROVE Cancellable'
  BY <1>15 DEF Yield, Goto
<1>16. ASSUME NEW r \in Runs, NEW s \in Statuses, EndExecution(r, s) PROVE Cancellable'
  BY <1>16 DEF EndExecution, Goto
<1>17. ASSUME NEW r \in Runs, DropRun(r) PROVE Cancellable'
  BY <1>17 DEF DropRun, GiveUp, Goto
<1>18. ASSUME NEW r \in Runs, CheckChanges(r) PROVE Cancellable'
  BY <1>18 DEF CheckChanges, CheckAgainstLock, Goto
<1>19. ASSUME NEW r \in Runs, RecordChild(r) PROVE Cancellable'
  BY <1>19 DEF RecordChild, Goto, AppendChild, AppendChildFails, Fault
<1>20. ASSUME NEW r \in Runs, RecordParent(r) PROVE Cancellable'
  BY <1>20 DEF RecordParent, Goto, AppendParent, ParentShows
<1>21. ASSUME NEW r \in Runs, RecordParentFails(r) PROVE Cancellable'
  BY <1>21 DEF RecordParentFails, RecordParentRefused, Goto, AppendParentFails,
     ParentShows, Fault
<1>22. ASSUME NEW r \in Runs, AmendChild(r) PROVE Cancellable'
  BY <1>22 DEF AmendChild, Goto, AppendChild, AppendChildFails, Fault
<1>23. ASSUME NEW r \in Runs, Complete(r) PROVE Cancellable'
  BY <1>23 DEF Complete, DropSlot, Goto
<1>24. ASSUME NEW r \in Runs, Release(r) PROVE Cancellable'
  BY <1>24 DEF Release, Goto
<1>25. ASSUME NEW r \in Runs, CancelRun(r) PROVE Cancellable'
  BY <1>25 DEF CancelRun, Cancel
<1>26. CASE CancelActive
  BY <1>26 DEF CancelActive, Cancel
<1>27. CASE UNCHANGED vars
  BY <1>27 DEF vars
<1>28. CASE NextTurn
  BY <1>28 DEF NextTurn
<1>29. CASE Die
  BY <1>29, Untouched DEF Die
<1>30. ASSUME NEW r \in Runs, Recover(r) PROVE Cancellable'
  BY <1>30 DEF Recover, ParentShows, Unfinished
<1>31. CASE Resumed
  BY <1>31 DEF Resumed, ResumeEnds
<1>32. ASSUME NEW r \in Runs, LogUnnamed(r) PROVE Cancellable'
  BY <1>32 DEF LogUnnamed, RecordsChange, Fault
<1>33. ASSUME NEW r \in Runs, CheckUnread(r) PROVE Cancellable'
  BY <1>33 DEF CheckUnread, CheckAgainstLock, Fault, Goto
<1>. QED
  BY <1>1, <1>2, <1>3, <1>4, <1>5, <1>6, <1>7, <1>8, <1>9, <1>10, <1>11, <1>12, <1>13,
     <1>14, <1>15, <1>16, <1>17, <1>18, <1>19, <1>20, <1>21, <1>22, <1>23, <1>24, <1>25,
     <1>26, <1>27, <1>28, <1>29, <1>30, <1>31, <1>32, <1>33
  DEF Next, Start, Execute, Finish, Exhausted

Inv == TypeOK /\ Shape /\ Cancellable

LEMMA NextInv == Inv /\ [Next]_vars => Inv'
BY NextTypeOK, NextShape, NextCancellable DEF Inv

(* Every state is typed (all variables, for any constants).                *)
THEOREM TypeCorrect == Spec => []TypeOK
BY InitInv, NextInv, PTL DEF Inv, Spec

(* A cancellation requested between the reservation and the activation is  *)
(* handed to the cancel receiver by RunReservation::activate, one requested *)
(* later by cancel_run: no interleaving of the two loses it.               *)
THEOREM NoCancellationIsLost == Spec => []RequestReachesRun
<1>1. Inv => RequestReachesRun
  BY DEF Inv, Cancellable, Shape, RequestReachesRun
<1>. QED  BY <1>1, InitInv, NextInv, PTL DEF Inv, Spec

-----------------------------------------------------------------------------
(* A new lock was compared with the lock of every slot, and the slots are  *)
(* exactly the runs in flight.                                             *)
LEMMA ReserveExcludes ==
    ASSUME Inv, LockExclusion, NEW r \in Runs, NEW acc \in Accesses,
           NEW t \in Children \cup {NoChild}, Reserve(r, acc, t)
    PROVE  LockExclusion'
<1>. SUFFICES ASSUME NEW p \in Runs, NEW q \in Runs, p # q,
                     pc'[p] \in InFlight, pc'[q] \in InFlight
              PROVE  ~ Conflict(access'[p], access'[q])
  BY DEF LockExclusion
<1>1. /\ access \in [Runs -> Access] /\ active = {k \in Runs : pc[k] \in InFlight}
      /\ acc \in Access
  BY PoolAssumption DEF Inv, TypeOK, Shape
<1>2. /\ access'[r] = acc
      /\ \A k \in Runs : k # r => access'[k] = access[k]
  BY <1>1 DEF Reserve
<1>3. \A k \in Runs : k # r /\ pc'[k] \in InFlight => k \in active
  BY <1>1 DEF Reserve, Goto, Inv, TypeOK
<1>4. \A k \in active : ~ Conflict(acc, access[k])
  BY DEF Reserve, LockAvailable
<1>. HIDE DEF InFlight
<1>5. CASE p = r
  <2>1. ~ Conflict(acc, access[q]) /\ access'[q] = access[q] /\ access'[p] = acc
    BY <1>2, <1>3, <1>4, <1>5
  <2>. QED  BY ONLY <2>1
<1>6. CASE q = r
  <2>1. ~ Conflict(acc, access[p]) /\ access'[p] = access[p] /\ access'[q] = acc
    BY <1>2, <1>3, <1>4, <1>6
  <2>2. access[p] \in Access
    BY <1>1
  <2>3. ~ Conflict(access[p], acc)
    BY <2>1, <2>2, <1>1, ConflictSymmetric
  <2>. QED  BY ONLY <2>1, <2>3
<1>7. CASE p # r /\ q # r
  <2>1. access'[p] = access[p] /\ access'[q] = access[q] /\ p \in active /\ q \in active
    BY <1>2, <1>3, <1>7
  <2>2. ~ Conflict(access[p], access[q])
    BY <2>1, <1>1 DEF LockExclusion
  <2>. QED  BY ONLY <2>1, <2>2
<1>. QED  BY <1>5, <1>6, <1>7

(* No other step gives a run a slot or changes a lock.                     *)
SlotsKept ==
    access' = access /\ \A q \in Runs : pc'[q] \in InFlight => pc[q] \in InFlight

LEMMA NextExcludes == Inv /\ LockExclusion /\ [Next]_vars => LockExclusion'
<1>. SUFFICES ASSUME Inv, LockExclusion, [Next]_vars PROVE LockExclusion'
  OBVIOUS
<1>. USE DEF poolVars, cancelVars, workVars, childLog, parentLog, sessionVars
<1>1. ASSUME NEW r \in Runs, NEW acc \in Accesses, NEW t \in Children \cup {NoChild}, Reserve(r, acc, t)
      PROVE  LockExclusion'
  BY <1>1, ReserveExcludes
<1>2. ASSUME NEW r \in Runs, List(r) PROVE LockExclusion'
  <2>. SlotsKept  BY <1>2 DEF SlotsKept, Inv, TypeOK, List, Goto
  <2>. QED  BY DEF SlotsKept, LockExclusion
<1>3. ASSUME NEW r \in Runs, NEW c \in Children, Setup(r, c) PROVE LockExclusion'
  <2>. SlotsKept  BY <1>3 DEF SlotsKept, Inv, TypeOK, Setup, Goto, AppendChild
  <2>. QED  BY DEF SlotsKept, LockExclusion
<1>4. ASSUME NEW r \in Runs, SetupRefused(r) PROVE LockExclusion'
  <2>. SlotsKept  BY <1>4 DEF SlotsKept, Inv, TypeOK, SetupRefused, DropReservation, DropSlot, Goto
  <2>. QED  BY DEF SlotsKept, LockExclusion
<1>5. ASSUME NEW r \in Runs, NEW c \in Children, SetupFails(r, c) PROVE LockExclusion'
  <2>. SlotsKept
    BY <1>5 DEF SlotsKept, Inv, TypeOK, SetupFails, DropReservation, DropSlot, Goto, Fault
  <2>. QED  BY DEF SlotsKept, LockExclusion
<1>6. ASSUME NEW r \in Runs, RecordStart(r) PROVE LockExclusion'
  <2>. SlotsKept
    BY <1>6 DEF SlotsKept, Inv, TypeOK, RecordStart, Goto, AppendParent, ParentShows
  <2>. QED  BY DEF SlotsKept, LockExclusion
<1>7. ASSUME NEW r \in Runs, RecordStartFails(r) PROVE LockExclusion'
  <2>. SlotsKept
    BY <1>7 DEF SlotsKept, Inv, TypeOK, RecordStartFails, Goto, AppendParentFails,
       ParentShows, Fault
  <2>. QED  BY DEF SlotsKept, LockExclusion
<1>8. ASSUME NEW r \in Runs, AbortChild(r) PROVE LockExclusion'
  <2>. SlotsKept
    BY <1>8 DEF SlotsKept, Inv, TypeOK, AbortChild, Goto, AppendChild, AppendChildFails,
       Fault
  <2>. QED  BY DEF SlotsKept, LockExclusion
<1>9. ASSUME NEW r \in Runs, AbortParent(r) PROVE LockExclusion'
  <2>. SlotsKept
    BY <1>9 DEF SlotsKept, Inv, TypeOK, AbortParent, Goto, ParentShows, Fault
  <2>. QED  BY DEF SlotsKept, LockExclusion
<1>10. ASSUME NEW r \in Runs, Activate(r) PROVE LockExclusion'
  <2>. SlotsKept  BY <1>10 DEF SlotsKept, Inv, TypeOK, Activate, ActivateSlot, Goto
  <2>. QED  BY DEF SlotsKept, LockExclusion
<1>11. ASSUME NEW r \in Runs, Poll(r) PROVE LockExclusion'
  <2>. SlotsKept  BY <1>11 DEF SlotsKept, Inv, TypeOK, Poll, PollUnless, Goto
  <2>. QED  BY DEF SlotsKept, LockExclusion
<1>12. ASSUME NEW r \in Runs, NEW path \in Paths, Touch(r, path) PROVE LockExclusion'
  <2>. SlotsKept  BY <1>12 DEF SlotsKept, Inv, TypeOK, Touch
  <2>. QED  BY DEF SlotsKept, LockExclusion
<1>13. ASSUME NEW r \in Runs, LogChange(r) PROVE LockExclusion'
  <2>. SlotsKept  BY <1>13 DEF SlotsKept, Inv, TypeOK, LogChange, RecordsChange, NamePath
  <2>. QED  BY DEF SlotsKept, LockExclusion
<1>14. ASSUME NEW r \in Runs, LogChangeFails(r) PROVE LockExclusion'
  <2>. SlotsKept  BY <1>14 DEF SlotsKept, Inv, TypeOK, LogChangeFails, RecordsChange, NamePath, Fault
  <2>. QED  BY DEF SlotsKept, LockExclusion
<1>15. ASSUME NEW r \in Runs, Yield(r) PROVE LockExclusion'
  <2>. SlotsKept  BY <1>15 DEF SlotsKept, Inv, TypeOK, Yield, Goto
  <2>. QED  BY DEF SlotsKept, LockExclusion
<1>16. ASSUME NEW r \in Runs, NEW s \in Statuses, EndExecution(r, s) PROVE LockExclusion'
  <2>. SlotsKept  BY <1>16 DEF SlotsKept, Inv, TypeOK, EndExecution, Goto
  <2>. QED  BY DEF SlotsKept, LockExclusion
<1>17. ASSUME NEW r \in Runs, DropRun(r) PROVE LockExclusion'
  <2>. SlotsKept  BY <1>17 DEF SlotsKept, Inv, TypeOK, DropRun, GiveUp, Goto
  <2>. QED  BY DEF SlotsKept, LockExclusion
<1>18. ASSUME NEW r \in Runs, CheckChanges(r) PROVE LockExclusion'
  <2>. SlotsKept
    BY <1>18 DEF SlotsKept, Inv, TypeOK, CheckChanges, CheckAgainstLock, Goto
  <2>. QED  BY DEF SlotsKept, LockExclusion
<1>19. ASSUME NEW r \in Runs, RecordChild(r) PROVE LockExclusion'
  <2>. SlotsKept
    BY <1>19 DEF SlotsKept, Inv, TypeOK, RecordChild, Goto, AppendChild, AppendChildFails,
       Fault
  <2>. QED  BY DEF SlotsKept, LockExclusion
<1>20. ASSUME NEW r \in Runs, RecordParent(r) PROVE LockExclusion'
  <2>. SlotsKept
    BY <1>20 DEF SlotsKept, Inv, TypeOK, RecordParent, Goto, AppendParent, ParentShows
  <2>. QED  BY DEF SlotsKept, LockExclusion
<1>21. ASSUME NEW r \in Runs, RecordParentFails(r) PROVE LockExclusion'
  <2>. SlotsKept
    BY <1>21 DEF SlotsKept, Inv, TypeOK, RecordParentFails, RecordParentRefused, Goto,
       AppendParentFails, ParentShows, Fault
  <2>. QED  BY DEF SlotsKept, LockExclusion
<1>22. ASSUME NEW r \in Runs, AmendChild(r) PROVE LockExclusion'
  <2>. SlotsKept
    BY <1>22 DEF SlotsKept, Inv, TypeOK, AmendChild, Goto, AppendChild, AppendChildFails,
       Fault
  <2>. QED  BY DEF SlotsKept, LockExclusion
<1>23. ASSUME NEW r \in Runs, Complete(r) PROVE LockExclusion'
  <2>. SlotsKept  BY <1>23 DEF SlotsKept, Inv, TypeOK, Complete, DropSlot, Goto
  <2>. QED  BY DEF SlotsKept, LockExclusion
<1>24. ASSUME NEW r \in Runs, Release(r) PROVE LockExclusion'
  <2>. SlotsKept  BY <1>24 DEF SlotsKept, Inv, TypeOK, Release, Goto
  <2>. QED  BY DEF SlotsKept, LockExclusion
<1>25. ASSUME NEW r \in Runs, CancelRun(r) PROVE LockExclusion'
  <2>. SlotsKept  BY <1>25 DEF SlotsKept, Inv, TypeOK, CancelRun, Cancel
  <2>. QED  BY DEF SlotsKept, LockExclusion
<1>26. CASE CancelActive
  BY <1>26 DEF CancelActive, Cancel, LockExclusion
<1>27. CASE UNCHANGED vars
  BY <1>27 DEF vars, LockExclusion
<1>28. CASE NextTurn
  BY <1>28 DEF NextTurn, Inv, TypeOK, LockExclusion
<1>29. CASE Die
  BY <1>29, Untouched DEF Die, Inv, TypeOK, LockExclusion
<1>30. ASSUME NEW r \in Runs, Recover(r) PROVE LockExclusion'
  BY <1>30 DEF Recover, ParentShows, Unfinished, Inv, TypeOK, LockExclusion
<1>31. CASE Resumed
  BY <1>31 DEF Resumed, ResumeEnds, Inv, TypeOK, LockExclusion
<1>32. ASSUME NEW r \in Runs, LogUnnamed(r) PROVE LockExclusion'
  <2>. SlotsKept  BY <1>32 DEF SlotsKept, Inv, TypeOK, LogUnnamed, RecordsChange, Fault
  <2>. QED  BY DEF SlotsKept, LockExclusion
<1>33. ASSUME NEW r \in Runs, CheckUnread(r) PROVE LockExclusion'
  <2>. SlotsKept
    BY <1>33 DEF SlotsKept, Inv, TypeOK, CheckUnread, CheckAgainstLock, Fault, Goto
  <2>. QED  BY DEF SlotsKept, LockExclusion
<1>. QED
  BY <1>1, <1>2, <1>3, <1>4, <1>5, <1>6, <1>7, <1>8, <1>9, <1>10, <1>11, <1>12, <1>13,
     <1>14, <1>15, <1>16, <1>17, <1>18, <1>19, <1>20, <1>21, <1>22, <1>23, <1>24, <1>25,
     <1>26, <1>27, <1>28, <1>29, <1>30, <1>31, <1>32, <1>33
  DEF Next, Start, Execute, Finish, Exhausted

(* No two runs in flight hold locks that meet: a slot holds its lock from  *)
(* the reservation until the result is published, through every failure    *)
(* of the setup, the execution and the records.                            *)
THEOREM PoolLocksExclude == Spec => []LockExclusion
BY InitInv, NextInv, NextExcludes, PTL DEF Inv, Spec

-----------------------------------------------------------------------------
(* The pool implements the table of runs.                                  *)
LEMMA InitTable == Init => Table!TableInit
BY DEF Init, Table!TableInit

LEMMA NextTable == Inv /\ [Next]_vars => [Table!TableNext]_(Table!tableVars)
<1>. SUFFICES ASSUME Inv, [Next]_vars PROVE [Table!TableNext]_(Table!tableVars)
  OBVIOUS
<1>. USE DEF Inv, TypeOK, Shape, poolVars, cancelVars, workVars, childLog, parentLog, sessionVars
<1>1. ASSUME NEW r \in Runs, NEW acc \in Accesses, NEW t \in Children \cup {NoChild}, Reserve(r, acc, t)
      PROVE  [Table!TableNext]_(Table!tableVars)
  <2>. Table!TakeSlot(r)  BY <1>1 DEF Table!TakeSlot, Reserve, Goto
  <2>. QED  BY DEF Table!TableNext
<1>2. ASSUME NEW r \in Runs, List(r) PROVE [Table!TableNext]_(Table!tableVars)
  BY <1>2 DEF Table!tableVars, List, Goto
<1>3. ASSUME NEW r \in Runs, NEW c \in Children, Setup(r, c)
      PROVE  [Table!TableNext]_(Table!tableVars)
  BY <1>3 DEF Table!tableVars, Setup, Goto, AppendChild
<1>4. ASSUME NEW r \in Runs, SetupRefused(r) PROVE [Table!TableNext]_(Table!tableVars)
  <2>. Table!Abandon(r)  BY <1>4 DEF Table!Abandon, SetupRefused, DropReservation, DropSlot, Goto
  <2>. QED  BY DEF Table!TableNext
<1>5. ASSUME NEW r \in Runs, NEW c \in Children, SetupFails(r, c)
      PROVE  [Table!TableNext]_(Table!tableVars)
  <2>. Table!Abandon(r)
    BY <1>5 DEF Table!Abandon, SetupFails, DropReservation, DropSlot, Goto, Fault
  <2>. QED  BY DEF Table!TableNext
<1>6. ASSUME NEW r \in Runs, RecordStart(r) PROVE [Table!TableNext]_(Table!tableVars)
  BY <1>6 DEF Table!tableVars, RecordStart, Goto, AppendParent, ParentShows
<1>7. ASSUME NEW r \in Runs, RecordStartFails(r) PROVE [Table!TableNext]_(Table!tableVars)
  BY <1>7 DEF Table!tableVars, RecordStartFails, Goto, AppendParentFails, ParentShows,
     Fault
<1>8. ASSUME NEW r \in Runs, AbortChild(r) PROVE [Table!TableNext]_(Table!tableVars)
  BY <1>8 DEF Table!tableVars, AbortChild, Goto, AppendChild, AppendChildFails, Fault
<1>9. ASSUME NEW r \in Runs, AbortParent(r) PROVE [Table!TableNext]_(Table!tableVars)
  BY <1>9 DEF Table!tableVars, AbortParent, Goto, ParentShows, Fault
<1>10. ASSUME NEW r \in Runs, Activate(r) PROVE [Table!TableNext]_(Table!tableVars)
  BY <1>10 DEF Table!tableVars, Activate, ActivateSlot, Goto
<1>11. ASSUME NEW r \in Runs, Poll(r) PROVE [Table!TableNext]_(Table!tableVars)
  BY <1>11 DEF Table!tableVars, Poll, PollUnless, Goto
<1>12. ASSUME NEW r \in Runs, NEW path \in Paths, Touch(r, path)
       PROVE  [Table!TableNext]_(Table!tableVars)
  BY <1>12 DEF Table!tableVars, Touch
<1>13. ASSUME NEW r \in Runs, LogChange(r) PROVE [Table!TableNext]_(Table!tableVars)
  BY <1>13 DEF Table!tableVars, LogChange, RecordsChange, NamePath
<1>14. ASSUME NEW r \in Runs, LogChangeFails(r) PROVE [Table!TableNext]_(Table!tableVars)
  BY <1>14 DEF Table!tableVars, LogChangeFails, RecordsChange, NamePath, Fault
<1>15. ASSUME NEW r \in Runs, Yield(r) PROVE [Table!TableNext]_(Table!tableVars)
  BY <1>15 DEF Table!tableVars, Yield, Goto
<1>16. ASSUME NEW r \in Runs, NEW s \in Statuses, EndExecution(r, s)
       PROVE  [Table!TableNext]_(Table!tableVars)
  BY <1>16 DEF Table!tableVars, EndExecution, Goto
<1>17. ASSUME NEW r \in Runs, DropRun(r) PROVE [Table!TableNext]_(Table!tableVars)
  BY <1>17 DEF Table!tableVars, DropRun, GiveUp, Goto
<1>18. ASSUME NEW r \in Runs, CheckChanges(r) PROVE [Table!TableNext]_(Table!tableVars)
  BY <1>18 DEF Table!tableVars, CheckChanges, CheckAgainstLock, Goto
<1>19. ASSUME NEW r \in Runs, RecordChild(r) PROVE [Table!TableNext]_(Table!tableVars)
  BY <1>19 DEF Table!tableVars, RecordChild, Goto, AppendChild, AppendChildFails, Fault
<1>20. ASSUME NEW r \in Runs, RecordParent(r) PROVE [Table!TableNext]_(Table!tableVars)
  BY <1>20 DEF Table!tableVars, RecordParent, Goto, AppendParent, ParentShows
<1>21. ASSUME NEW r \in Runs, RecordParentFails(r)
       PROVE  [Table!TableNext]_(Table!tableVars)
  BY <1>21 DEF Table!tableVars, RecordParentFails, RecordParentRefused, Goto,
     AppendParentFails, ParentShows, Fault
<1>22. ASSUME NEW r \in Runs, AmendChild(r) PROVE [Table!TableNext]_(Table!tableVars)
  BY <1>22 DEF Table!tableVars, AmendChild, Goto, AppendChild, AppendChildFails, Fault
<1>23. ASSUME NEW r \in Runs, Complete(r) PROVE [Table!TableNext]_(Table!tableVars)
  <2>. Table!Settle(r, status[r]) /\ status[r] \in Statuses  BY <1>23 DEF Table!Settle,
     Complete, DropSlot, Goto
  <2>. QED  BY DEF Table!TableNext
<1>24. ASSUME NEW r \in Runs, Release(r) PROVE [Table!TableNext]_(Table!tableVars)
  BY <1>24 DEF Table!tableVars, Release, Goto
<1>25. ASSUME NEW r \in Runs, CancelRun(r) PROVE [Table!TableNext]_(Table!tableVars)
  BY <1>25 DEF Table!tableVars, CancelRun, Cancel
<1>26. CASE CancelActive
  BY <1>26 DEF CancelActive, Cancel, Table!tableVars
<1>27. CASE UNCHANGED vars
  BY <1>27 DEF vars, Table!tableVars
<1>28. CASE NextTurn
  BY <1>28 DEF NextTurn, Table!tableVars
<1>29. CASE Die
  <2>. Table!Restart  BY <1>29 DEF Table!Restart, Die
  <2>. QED  BY DEF Table!TableNext
<1>30. ASSUME NEW r \in Runs, Recover(r) PROVE [Table!TableNext]_(Table!tableVars)
  BY <1>30 DEF Recover, ParentShows, Unfinished, Table!tableVars
<1>31. CASE Resumed
  BY <1>31 DEF Resumed, ResumeEnds, Table!tableVars
<1>32. ASSUME NEW r \in Runs, LogUnnamed(r) PROVE [Table!TableNext]_(Table!tableVars)
  BY <1>32 DEF Table!tableVars, LogUnnamed, RecordsChange, Fault
<1>33. ASSUME NEW r \in Runs, CheckUnread(r) PROVE [Table!TableNext]_(Table!tableVars)
  BY <1>33 DEF Table!tableVars, CheckUnread, CheckAgainstLock, Fault, Goto
<1>. QED
  BY <1>1, <1>2, <1>3, <1>4, <1>5, <1>6, <1>7, <1>8, <1>9, <1>10, <1>11, <1>12, <1>13,
     <1>14, <1>15, <1>16, <1>17, <1>18, <1>19, <1>20, <1>21, <1>22, <1>23, <1>24, <1>25,
     <1>26, <1>27, <1>28, <1>29, <1>30, <1>31, <1>32, <1>33
  DEF Next, Start, Execute, Finish, Exhausted

(* Every step of the pool is a step of the run table or leaves it alone: a *)
(* slot is taken once, given up without a result only by a start that      *)
(* failed before it was recorded, and a published result never changes.    *)
THEOREM PoolIsRunTable == Spec => ImplementsRunTable
BY InitInv, NextInv, InitTable, NextTable, PTL DEF Inv, Spec, ImplementsRunTable,
   Table!TableSpec

-------------------------------------------------------------------------------
(* The children of delegated runs and the records of their results.        *)

(* While a session is being resumed it has no tasks and no results.        *)
Quiet == ~ up => \A r \in Runs : pc[r] \in {"none", "done"} /\ completed[r] = None

(* A takeover that is in flight excludes every other of its target, and    *)
(* works in its target.                                                    *)
Targets ==
    /\ \A r, q \in active : r # q /\ target[r] # NoChild => target[r] # target[q]
    /\ \A r \in Runs : pc[r] \in Working /\ target[r] # NoChild => child[r] = target[r]

(* A child is not listed as terminal, and nobody else has it, until the    *)
(* run that created it has recorded its result.                            *)
Fresh ==
    \A r \in Runs : pc[r] \in Working /\ target[r] = NoChild =>
        /\ listed[child[r]] \notin Statuses
        /\ \A q \in Runs : q # r => child[q] # child[r]

(* Hence a takeover whose target was listed as terminal finds it free.     *)
Eligible ==
    \A r \in eligible :
        /\ pc[r] \notin {"none", "reserved"}
        /\ pc[r] = "listed" =>
              /\ target[r] # NoChild
              /\ \A q \in Runs : q # r /\ pc[q] \in Working => child[q] # target[r]

ChildInv == Quiet /\ Targets /\ Fresh /\ Eligible /\ SoleRecorder

(* What the transcripts show of a run, step by step.                       *)
Progress ==
    \A r \in Runs :
        /\ pc[r] \in Aborting \cup {"amending"} => parentSick /\ status[r] = "failed"
        /\ pc[r] \in {"aborting", "aborted", "childDone", "recorded"} /\ r \notin sick
              => childStatus[r] = status[r]
        /\ pc[r] \in {"childDone", "recorded"} /\ status[r] = "completed"
              => childStatus[r] = "completed"
        /\ pc[r] = "recorded" /\ ~ parentSick => parentStatus[r] = status[r]
        /\ pc[r] = "recorded" /\ status[r] = "completed" => parentStatus[r] = "completed"
        /\ completed[r] # None => pc[r] \in {"held", "done"}

(* A run that was told of has ended with the status it was told with.      *)
Told ==
    \A r \in told : /\ pc[r] \in {"held", "done"}
                    /\ status[r] \in Statuses
                    /\ parentStatus[r] = status[r]

(* A run that shows as running belongs to the turn or was left by one.     *)
Shown ==
    \A r \in Runs :
        /\ pc[r] \in {"none", "reserved", "listed", "ready"} => parentStatus[r] = None
        /\ parentStatus[r] = "running" => r \in current \cup old

RecordInv == Progress /\ Told /\ Shown /\ TranscriptsShowResult /\ NothingSeemsToRun

(* What a run has changed is named by a record, or will be, or is counted  *)
(* as unaudited; it succeeds only when nothing is left to be recorded.     *)
Succeeding(r) == pc[r] = "ended" /\ status[r] = "completed"

LogInv ==
    \A r \in Runs :
        /\ touched[r] \subseteq logged[r] \cup recording[r] \cup unaudited[r]
        /\ Succeeding(r) => recording[r] = {}

(* From the comparison on, a success is within its lock.                   *)
Succeeded(r) ==
    \/ completed[r] = "completed"
    \/ pc[r] \in {"settled", "childDone", "recorded"} /\ status[r] = "completed"

Within(r) == Unlocked(access[r], touched[r] \ unaudited[r]) = {}

SuccessInv == \A r \in Runs : Succeeded(r) => Within(r)

WorkInv == LogInv /\ SuccessInv

(* A step that compares nothing makes no success and leaves those alone.   *)
Kept(r) ==
    /\ Succeeded(r)
    /\ access'[r] = access[r] /\ touched'[r] = touched[r] /\ unaudited'[r] = unaudited[r]

WorkStep == LogInv' /\ \A r \in Runs : Succeeded(r)' => Kept(r)

LEMMA WorkKept == SuccessInv /\ WorkStep => WorkInv'
BY DEF SuccessInv, WorkStep, Kept, Within, WorkInv

USE DEF Starting, Running, Aborting, Ending, InFlight, Opened, Working, Statuses, None,
        Recorded

LEMMA InitChildren == Init => ChildInv
BY DEF Init, ChildInv, Quiet, Targets, Fresh, Eligible, SoleRecorder, Holds

LEMMA InitRecords == Init => RecordInv /\ WorkInv
BY DEF Init, RecordInv, Progress, Told, Shown, TranscriptsShowResult, NothingSeemsToRun,
   WorkInv, LogInv, SuccessInv, Succeeding, Succeeded, Within

(* What is within a lock stays so when less is asked about.                *)
LEMMA UnlockedShrinks ==
    ASSUME NEW acc, NEW less, NEW more, less \subseteq more, Unlocked(acc, more) = {}
    PROVE  Unlocked(acc, less) = {}
BY DEF Unlocked

-----------------------------------------------------------------------------
(* The children: every step keeps takeovers apart from each other and from *)
(* the run that created the child.                                         *)
LEMMA NextChildren == TypeOK /\ Shape /\ ChildInv /\ [Next]_vars => ChildInv'
<1>. SUFFICES ASSUME TypeOK, Shape, ChildInv, [Next]_vars PROVE ChildInv'
  OBVIOUS
<1>. USE DEF TypeOK, Shape, ChildInv, Quiet, Targets, Fresh, Eligible, SoleRecorder,
   Holds, WriterLocked, poolVars, cancelVars, workVars, childLog, parentLog,
   sessionVars
<1>1. ASSUME NEW r \in Runs, NEW acc \in Accesses, NEW t \in Children \cup {NoChild}, Reserve(r, acc, t)
       PROVE  ChildInv'
  BY <1>1 DEF Reserve, TakeoverFree, Goto
<1>2. ASSUME NEW r \in Runs, List(r) PROVE ChildInv'
  BY <1>2 DEF List, Goto
<1>3. ASSUME NEW r \in Runs, NEW c \in Children, Setup(r, c) PROVE ChildInv'
  BY <1>3 DEF Setup, MayOpen, Unused, Goto, AppendChild
<1>4. ASSUME NEW r \in Runs, SetupRefused(r) PROVE ChildInv'
  BY <1>4 DEF SetupRefused, DropReservation, DropSlot, Goto
<1>5. ASSUME NEW r \in Runs, NEW c \in Children, SetupFails(r, c) PROVE ChildInv'
  BY <1>5 DEF SetupFails, MayOpen, Unused, DropReservation, DropSlot, Goto, Fault
<1>6. ASSUME NEW r \in Runs, RecordStart(r) PROVE ChildInv'
  BY <1>6 DEF RecordStart, Goto, AppendParent, ParentShows
<1>7. ASSUME NEW r \in Runs, RecordStartFails(r) PROVE ChildInv'
  BY <1>7 DEF RecordStartFails, Goto, AppendParentFails, ParentShows, Fault
<1>8. ASSUME NEW r \in Runs, AbortChild(r) PROVE ChildInv'
  BY <1>8 DEF AbortChild, Goto, AppendChild, AppendChildFails, Fault
<1>9. ASSUME NEW r \in Runs, AbortParent(r) PROVE ChildInv'
  BY <1>9 DEF AbortParent, Goto, ParentShows, Fault
<1>10. ASSUME NEW r \in Runs, Activate(r) PROVE ChildInv'
  BY <1>10 DEF Activate, ActivateSlot, Goto
<1>11. ASSUME NEW r \in Runs, Poll(r) PROVE ChildInv'
  BY <1>11 DEF Poll, PollUnless, Goto
<1>12. ASSUME NEW r \in Runs, NEW path \in Paths, Touch(r, path) PROVE ChildInv'
  BY <1>12 DEF Touch
<1>13. ASSUME NEW r \in Runs, LogChange(r) PROVE ChildInv'
  BY <1>13 DEF LogChange, RecordsChange, NamePath
<1>14. ASSUME NEW r \in Runs, LogChangeFails(r) PROVE ChildInv'
  BY <1>14 DEF LogChangeFails, RecordsChange, NamePath, Fault
<1>15. ASSUME NEW r \in Runs, Yield(r) PROVE ChildInv'
  BY <1>15 DEF Yield, Goto
<1>16. ASSUME NEW r \in Runs, NEW s \in Statuses, EndExecution(r, s) PROVE ChildInv'
  BY <1>16 DEF EndExecution, Goto
<1>17. ASSUME NEW r \in Runs, DropRun(r) PROVE ChildInv'
  BY <1>17 DEF DropRun, GiveUp, Goto
<1>18. ASSUME NEW r \in Runs, CheckChanges(r) PROVE ChildInv'
  BY <1>18 DEF CheckChanges, CheckAgainstLock, Observed, Goto
<1>19. ASSUME NEW r \in Runs, RecordChild(r) PROVE ChildInv'
  BY <1>19 DEF RecordChild, Goto, AppendChild, AppendChildFails, Fault
<1>20. ASSUME NEW r \in Runs, RecordParent(r) PROVE ChildInv'
  BY <1>20 DEF RecordParent, Goto, AppendParent, ParentShows
<1>21. ASSUME NEW r \in Runs, RecordParentFails(r) PROVE ChildInv'
  BY <1>21 DEF RecordParentFails, RecordParentRefused, Goto, AppendParentFails,
     ParentShows, Fault
<1>22. ASSUME NEW r \in Runs, AmendChild(r) PROVE ChildInv'
  BY <1>22 DEF AmendChild, Goto, AppendChild, AppendChildFails, Fault
<1>23. ASSUME NEW r \in Runs, Complete(r) PROVE ChildInv'
  BY <1>23 DEF Complete, DropSlot, Goto
<1>24. ASSUME NEW r \in Runs, Release(r) PROVE ChildInv'
  BY <1>24 DEF Release, Goto
<1>25. ASSUME NEW r \in Runs, CancelRun(r) PROVE ChildInv'
  BY <1>25 DEF CancelRun, Cancel
<1>26. CASE CancelActive
  BY <1>26 DEF CancelActive, Cancel
<1>27. CASE UNCHANGED vars
  BY <1>27 DEF vars
<1>28. CASE NextTurn
  BY <1>28 DEF NextTurn
<1>29. CASE Die
  BY <1>29 DEF Die
<1>30. ASSUME NEW r \in Runs, Recover(r) PROVE ChildInv'
  BY <1>30 DEF Recover, ParentShows, Unfinished
<1>31. CASE Resumed
  BY <1>31 DEF Resumed, ResumeEnds, Unfinished
<1>32. ASSUME NEW r \in Runs, LogUnnamed(r) PROVE ChildInv'
  BY <1>32 DEF LogUnnamed, RecordsChange, Fault
<1>33. ASSUME NEW r \in Runs, CheckUnread(r) PROVE ChildInv'
  BY <1>33 DEF CheckUnread, CheckAgainstLock, Fault, Goto
<1>. HIDE DEF TypeOK, Shape, ChildInv
<1>. QED
  BY <1>1, <1>2, <1>3, <1>4, <1>5, <1>6, <1>7, <1>8, <1>9, <1>10, <1>11, <1>12,
     <1>13, <1>14, <1>15, <1>16, <1>17, <1>18, <1>19, <1>20, <1>21, <1>22, <1>23,
     <1>24, <1>25, <1>26, <1>27, <1>28, <1>29, <1>30, <1>31, <1>32, <1>33
  DEF Next, Start, Execute, Finish, Exhausted

-----------------------------------------------------------------------------
(* The records.                                                            *)
LEMMA NextRecords == TypeOK /\ Shape /\ Quiet /\ RecordInv /\ [Next]_vars => RecordInv'
<1>. SUFFICES ASSUME TypeOK, Shape, Quiet, RecordInv, [Next]_vars PROVE RecordInv'
  OBVIOUS
<1>. USE DEF TypeOK, Shape, Quiet, RecordInv, Progress, Told, Shown,
   TranscriptsShowResult, NothingSeemsToRun, poolVars, cancelVars, workVars,
   childLog, parentLog, sessionVars
<1>1. ASSUME NEW r \in Runs, NEW acc \in Accesses, NEW t \in Children \cup {NoChild}, Reserve(r, acc, t)
       PROVE  RecordInv'
  BY <1>1 DEF Reserve, TakeoverFree, Goto
<1>2. ASSUME NEW r \in Runs, List(r) PROVE RecordInv'
  BY <1>2 DEF List, Goto
<1>3. ASSUME NEW r \in Runs, NEW c \in Children, Setup(r, c) PROVE RecordInv'
  BY <1>3 DEF Setup, MayOpen, Unused, Goto, AppendChild
<1>4. ASSUME NEW r \in Runs, SetupRefused(r) PROVE RecordInv'
  BY <1>4 DEF SetupRefused, DropReservation, DropSlot, Goto
<1>5. ASSUME NEW r \in Runs, NEW c \in Children, SetupFails(r, c) PROVE RecordInv'
  BY <1>5 DEF SetupFails, MayOpen, Unused, DropReservation, DropSlot, Goto, Fault
<1>6. ASSUME NEW r \in Runs, RecordStart(r) PROVE RecordInv'
  BY <1>6 DEF RecordStart, Goto, AppendParent, ParentShows
<1>7. ASSUME NEW r \in Runs, RecordStartFails(r) PROVE RecordInv'
  BY <1>7 DEF RecordStartFails, Goto, AppendParentFails, ParentShows, Fault
<1>8. ASSUME NEW r \in Runs, AbortChild(r) PROVE RecordInv'
  BY <1>8 DEF AbortChild, Goto, AppendChild, AppendChildFails, Fault
<1>9. ASSUME NEW r \in Runs, AbortParent(r) PROVE RecordInv'
  BY <1>9 DEF AbortParent, Goto, ParentShows, Fault
<1>10. ASSUME NEW r \in Runs, Activate(r) PROVE RecordInv'
  BY <1>10 DEF Activate, ActivateSlot, Goto
<1>11. ASSUME NEW r \in Runs, Poll(r) PROVE RecordInv'
  BY <1>11 DEF Poll, PollUnless, Goto
<1>12. ASSUME NEW r \in Runs, NEW path \in Paths, Touch(r, path) PROVE RecordInv'
  BY <1>12 DEF Touch
<1>13. ASSUME NEW r \in Runs, LogChange(r) PROVE RecordInv'
  BY <1>13 DEF LogChange, RecordsChange, NamePath
<1>14. ASSUME NEW r \in Runs, LogChangeFails(r) PROVE RecordInv'
  BY <1>14 DEF LogChangeFails, RecordsChange, NamePath, Fault
<1>15. ASSUME NEW r \in Runs, Yield(r) PROVE RecordInv'
  BY <1>15 DEF Yield, Goto
<1>16. ASSUME NEW r \in Runs, NEW s \in Statuses, EndExecution(r, s) PROVE RecordInv'
  BY <1>16 DEF EndExecution, Goto
<1>17. ASSUME NEW r \in Runs, DropRun(r) PROVE RecordInv'
  BY <1>17 DEF DropRun, GiveUp, Goto
<1>18. ASSUME NEW r \in Runs, CheckChanges(r) PROVE RecordInv'
  BY <1>18 DEF CheckChanges, CheckAgainstLock, Observed, Goto
<1>19. ASSUME NEW r \in Runs, RecordChild(r) PROVE RecordInv'
  BY <1>19 DEF RecordChild, Goto, AppendChild, AppendChildFails, Fault
<1>20. ASSUME NEW r \in Runs, RecordParent(r) PROVE RecordInv'
  BY <1>20 DEF RecordParent, Goto, AppendParent, ParentShows
<1>21. ASSUME NEW r \in Runs, RecordParentFails(r) PROVE RecordInv'
  BY <1>21 DEF RecordParentFails, RecordParentRefused, Goto, AppendParentFails,
     ParentShows, Fault
<1>22. ASSUME NEW r \in Runs, AmendChild(r) PROVE RecordInv'
  BY <1>22 DEF AmendChild, Goto, AppendChild, AppendChildFails, Fault
<1>23. ASSUME NEW r \in Runs, Complete(r) PROVE RecordInv'
  BY <1>23 DEF Complete, DropSlot, Goto
<1>24. ASSUME NEW r \in Runs, Release(r) PROVE RecordInv'
  BY <1>24 DEF Release, Goto
<1>25. ASSUME NEW r \in Runs, CancelRun(r) PROVE RecordInv'
  BY <1>25 DEF CancelRun, Cancel
<1>26. CASE CancelActive
  BY <1>26 DEF CancelActive, Cancel
<1>27. CASE UNCHANGED vars
  BY <1>27 DEF vars
<1>28. CASE NextTurn
  BY <1>28 DEF NextTurn
<1>29. CASE Die
  BY <1>29 DEF Die
<1>30. ASSUME NEW r \in Runs, Recover(r) PROVE RecordInv'
  BY <1>30 DEF Recover, ParentShows, Unfinished
<1>31. CASE Resumed
  BY <1>31 DEF Resumed, ResumeEnds, Unfinished
<1>32. ASSUME NEW r \in Runs, LogUnnamed(r) PROVE RecordInv'
  BY <1>32 DEF LogUnnamed, RecordsChange, Fault
<1>33. ASSUME NEW r \in Runs, CheckUnread(r) PROVE RecordInv'
  BY <1>33 DEF CheckUnread, CheckAgainstLock, Fault, Goto
<1>. HIDE DEF TypeOK, Shape, RecordInv
<1>. QED
  BY <1>1, <1>2, <1>3, <1>4, <1>5, <1>6, <1>7, <1>8, <1>9, <1>10, <1>11, <1>12,
     <1>13, <1>14, <1>15, <1>16, <1>17, <1>18, <1>19, <1>20, <1>21, <1>22, <1>23,
     <1>24, <1>25, <1>26, <1>27, <1>28, <1>29, <1>30, <1>31, <1>32, <1>33
  DEF Next, Start, Execute, Finish, Exhausted

-----------------------------------------------------------------------------
(* The changes.                                                            *)
LEMMA NextWork == TypeOK /\ Shape /\ Progress /\ WorkInv /\ [Next]_vars => WorkInv'
<1>. SUFFICES ASSUME TypeOK, Shape, Progress, WorkInv, [Next]_vars PROVE WorkInv'
  OBVIOUS
<1>. USE DEF TypeOK, Shape, Progress, WorkInv, LogInv, WorkStep, Succeeding, Succeeded, Kept,
   poolVars, cancelVars, workVars, childLog, parentLog, sessionVars
<1>1. ASSUME NEW r \in Runs, NEW acc \in Accesses, NEW t \in Children \cup {NoChild}, Reserve(r, acc, t)
       PROVE  WorkStep
  BY <1>1 DEF Reserve, TakeoverFree, Goto
<1>2. ASSUME NEW r \in Runs, List(r) PROVE WorkStep
  BY <1>2 DEF List, Goto
<1>3. ASSUME NEW r \in Runs, NEW c \in Children, Setup(r, c) PROVE WorkStep
  BY <1>3 DEF Setup, MayOpen, Unused, Goto, AppendChild
<1>4. ASSUME NEW r \in Runs, SetupRefused(r) PROVE WorkStep
  BY <1>4 DEF SetupRefused, DropReservation, DropSlot, Goto
<1>5. ASSUME NEW r \in Runs, NEW c \in Children, SetupFails(r, c) PROVE WorkStep
  BY <1>5 DEF SetupFails, MayOpen, Unused, DropReservation, DropSlot, Goto, Fault
<1>6. ASSUME NEW r \in Runs, RecordStart(r) PROVE WorkStep
  BY <1>6 DEF RecordStart, Goto, AppendParent, ParentShows
<1>7. ASSUME NEW r \in Runs, RecordStartFails(r) PROVE WorkStep
  BY <1>7 DEF RecordStartFails, Goto, AppendParentFails, ParentShows, Fault
<1>8. ASSUME NEW r \in Runs, AbortChild(r) PROVE WorkStep
  BY <1>8 DEF AbortChild, Goto, AppendChild, AppendChildFails, Fault
<1>9. ASSUME NEW r \in Runs, AbortParent(r) PROVE WorkStep
  BY <1>9 DEF AbortParent, Goto, ParentShows, Fault
<1>10. ASSUME NEW r \in Runs, Activate(r) PROVE WorkStep
  BY <1>10 DEF Activate, ActivateSlot, Goto
<1>11. ASSUME NEW r \in Runs, Poll(r) PROVE WorkStep
  BY <1>11 DEF Poll, PollUnless, Goto
<1>12. ASSUME NEW r \in Runs, NEW path \in Paths, Touch(r, path) PROVE WorkStep
  BY <1>12 DEF Touch
<1>13. ASSUME NEW r \in Runs, LogChange(r) PROVE WorkStep
  BY <1>13 DEF LogChange, RecordsChange, NamePath
<1>14. ASSUME NEW r \in Runs, LogChangeFails(r) PROVE WorkStep
  BY <1>14 DEF LogChangeFails, RecordsChange, NamePath, Fault
<1>15. ASSUME NEW r \in Runs, Yield(r) PROVE WorkStep
  BY <1>15 DEF Yield, Goto
<1>16. ASSUME NEW r \in Runs, NEW s \in Statuses, EndExecution(r, s) PROVE WorkStep
  BY <1>16 DEF EndExecution, Goto
<1>17. ASSUME NEW r \in Runs, DropRun(r) PROVE WorkStep
  BY <1>17 DEF DropRun, GiveUp, Goto
<1>18. ASSUME NEW r \in Runs, CheckChanges(r) PROVE WorkInv'
  <2>1. LogInv'
    BY <1>18 DEF CheckChanges, CheckAgainstLock, Goto
  <2>2. \A k \in Runs \ {r} : Succeeded(k)' => Kept(k)
    BY <1>18 DEF CheckChanges, CheckAgainstLock, Goto
  <2>3. Succeeded(r)' => Succeeding(r) /\ Unlocked(access[r], Observed(r)) = {}
    BY <1>18 DEF CheckChanges, CheckAgainstLock, Goto
  <2>4. Succeeding(r) => touched[r] \ unaudited[r] \subseteq Observed(r)
    BY DEF Observed
  <2>5. Succeeded(r)' => Within(r)
    BY <2>3, <2>4, UnlockedShrinks DEF Within
  <2>6. access' = access /\ touched' = touched /\ unaudited' = unaudited
    BY <1>18 DEF CheckChanges, CheckAgainstLock
  <2>. HIDE DEF LogInv, Succeeding, Succeeded
  <2>. QED  BY <2>1, <2>2, <2>5, <2>6 DEF SuccessInv, Within
<1>19. ASSUME NEW r \in Runs, RecordChild(r) PROVE WorkStep
  BY <1>19 DEF RecordChild, Goto, AppendChild, AppendChildFails, Fault
<1>20. ASSUME NEW r \in Runs, RecordParent(r) PROVE WorkStep
  BY <1>20 DEF RecordParent, Goto, AppendParent, ParentShows
<1>21. ASSUME NEW r \in Runs, RecordParentFails(r) PROVE WorkStep
  BY <1>21 DEF RecordParentFails, RecordParentRefused, Goto, AppendParentFails,
     ParentShows, Fault
<1>22. ASSUME NEW r \in Runs, AmendChild(r) PROVE WorkStep
  BY <1>22 DEF AmendChild, Goto, AppendChild, AppendChildFails, Fault
<1>23. ASSUME NEW r \in Runs, Complete(r) PROVE WorkStep
  BY <1>23 DEF Complete, DropSlot, Goto
<1>24. ASSUME NEW r \in Runs, Release(r) PROVE WorkStep
  BY <1>24 DEF Release, Goto
<1>25. ASSUME NEW r \in Runs, CancelRun(r) PROVE WorkStep
  BY <1>25 DEF CancelRun, Cancel
<1>26. ASSUME CancelActive PROVE WorkStep
  BY <1>26 DEF CancelActive, Cancel
<1>27. ASSUME UNCHANGED vars PROVE WorkStep
  BY <1>27 DEF vars
<1>28. ASSUME NextTurn PROVE WorkStep
  BY <1>28 DEF NextTurn
<1>29. ASSUME Die PROVE WorkStep
  BY <1>29 DEF Die
<1>30. ASSUME NEW r \in Runs, Recover(r) PROVE WorkStep
  BY <1>30 DEF Recover, ParentShows, Unfinished
<1>31. ASSUME Resumed PROVE WorkStep
  BY <1>31 DEF Resumed, ResumeEnds, Unfinished
<1>32. ASSUME NEW r \in Runs, LogUnnamed(r) PROVE WorkStep
  BY <1>32 DEF LogUnnamed, RecordsChange, Fault
<1>33. ASSUME NEW r \in Runs, CheckUnread(r) PROVE WorkInv'
  <2>1. LogInv'
    BY <1>33 DEF CheckUnread, CheckAgainstLock, Goto
  <2>2. \A k \in Runs \ {r} : Succeeded(k)' => Kept(k)
    BY <1>33 DEF CheckUnread, CheckAgainstLock, Goto
  <2>3. touched' = touched /\ unaudited'[r] = touched[r]
    BY <1>33 DEF CheckUnread, CheckAgainstLock
  <2>4. Within(r)'
    BY <2>3 DEF Within, Unlocked
  <2>. HIDE DEF LogInv, Succeeding, Succeeded
  <2>. QED  BY <2>1, <2>2, <2>4 DEF SuccessInv, Within
<1>. HIDE DEF TypeOK, Shape, WorkStep, LogInv, Succeeding, Succeeded, Kept
<1>. QED
  BY WorkKept, <1>1, <1>2, <1>3, <1>4, <1>5, <1>6, <1>7, <1>8, <1>9, <1>10, <1>11, <1>12,
     <1>13, <1>14, <1>15, <1>16, <1>17, <1>18, <1>19, <1>20, <1>21, <1>22, <1>23,
     <1>24, <1>25, <1>26, <1>27, <1>28, <1>29, <1>30, <1>31, <1>32, <1>33
  DEF Next, Start, Execute, Finish, Exhausted

-----------------------------------------------------------------------------
FullInv == Inv /\ ChildInv /\ RecordInv /\ WorkInv

LEMMA Invariant == Spec => []FullInv
<1>1. Init => FullInv
  BY InitInv, InitChildren, InitRecords DEF FullInv, Inv
<1>2. FullInv /\ [Next]_vars => FullInv'
  BY NextInv, NextChildren, NextRecords, NextWork DEF FullInv, Inv, ChildInv, RecordInv
<1>. QED  BY <1>1, <1>2, PTL DEF Spec

(* No two runs work in one child, however takeovers, failed starts, failed *)
(* recorders and resumes follow each other: the writer lock alone does not *)
(* say so, for a recorder that failed has given it up.                     *)
THEOREM OneRunAtATime == Spec => []OneRunPerChild
<1>. FullInv => OneRunPerChild
  <2>. SUFFICES ASSUME FullInv, NEW r \in Runs, NEW q \in Runs, r # q,
                       pc[r] \in Working, pc[q] \in Working
                PROVE  child[r] # child[q]
    BY DEF OneRunPerChild
  <2>. USE DEF FullInv, ChildInv
  <2>1. CASE target[r] = NoChild \/ target[q] = NoChild
    BY <2>1 DEF Fresh
  <2>2. CASE target[r] # NoChild /\ target[q] # NoChild
    BY <2>2 DEF Targets, Inv, Shape
  <2>. QED  BY <2>1, <2>2
<1>. QED  BY Invariant, PTL

(* No child's transcript has two healthy recorders.                        *)
THEOREM OneRecorder == Spec => []SoleRecorder
BY Invariant, PTL DEF FullInv, ChildInv

(* A published result is what both transcripts show.                       *)
THEOREM ResultsAreShown == Spec => []TranscriptsShowResult
BY Invariant, PTL DEF FullInv, RecordInv

(* A result that was published with its record outlives the process.       *)
THEOREM ResultsStay == Spec => []ResultsOutlive
<1>. FullInv => ResultsOutlive
  BY DEF FullInv, RecordInv, Told, ResultsOutlive
<1>. QED  BY Invariant, PTL

(* An open session shows no run of the interrupted turn as running.        *)
THEOREM NothingLeftRunning == Spec => []NothingSeemsToRun
BY Invariant, PTL DEF FullInv, RecordInv

(* A success changed nothing outside the lock it had, except for changes   *)
(* that no record of the child names and for a comparison that was made    *)
(* without the transcript, which could not be read.                        *)
THEOREM SuccessIsWithinLock == Spec => []SuccessWithinLock
<1>. FullInv => SuccessWithinLock
  BY DEF FullInv, WorkInv, SuccessInv, Succeeded, Within, SuccessWithinLock
<1>. QED  BY Invariant, PTL
=============================================================================
